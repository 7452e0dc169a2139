----------------------------- MODULE UsersProofs -----------------------------
(***************************************************************************)
(* Proofs about Users, for every number of users, addresses, columns,      *)
(* values and requests.                                                    *)
(***************************************************************************)
EXTENDS Users, TLAPS

-----------------------------------------------------------------------------
(* Rows and forms *)

\* What a request submits: the address, and values for some other columns.
LEMMA FormTyped ==
  ASSUME NEW form \in Form
  PROVE  /\ "email" \in DOMAIN form
         /\ DOMAIN form \subseteq Column
         /\ \A c \in DOMAIN form :
              form[c] \in IF c = "email" THEN Email ELSE Value
  BY DEF Form, Typed, Column

LEMMA RowTyped ==
  ASSUME NEW row \in Row
  PROVE  /\ row = [c \in Column |-> row[c]]
         /\ DOMAIN row = Column /\ "email" \in Column
         /\ \A c \in Column : row[c] \in IF c = "email" THEN Email ELSE Value
  BY DEF Row, Typed, Column

\* What is known of a request at each of its steps.
LEMMA RequestTyped ==
  ASSUME TypeOK, NEW r \in Client
  PROVE  /\ req[r].step = "insert" => req[r].row \in Row
         /\ req[r].step \in {"checkEmail", "reload", "save", "answered"} =>
              /\ req[r].user \in DOMAIN users
              /\ req[r].form \in Form
              /\ req[r].found \in Row
         /\ req[r].step = "save" => req[r].loaded \in Row
<1>1. req[r] \in {Idle} \cup RegisterState \cup UpdateState
  BY DEF TypeOK
<1>2. CASE req[r].step = "insert"
  BY <1>1, <1>2 DEF Idle, RegisterState, UpdateState
<1>3. CASE req[r].step = "save"
  BY <1>1, <1>3 DEF TypeOK, Idle, RegisterState, UpdateState
<1>4. CASE req[r].step \in {"checkEmail", "reload", "answered"}
  BY <1>1, <1>4 DEF TypeOK, Idle, RegisterState, UpdateState
<1> QED
  BY <1>2, <1>3, <1>4

\* The row of u once request r has saved it.
Saved(r, u) ==
  [c \in Column |-> IF c \in Changes(req[r]) THEN req[r].form[c]
                    ELSE users[u][c]]

\* Everything an UPDATE does.
LEMMA UpdateEffect ==
  ASSUME TypeOK, NEW r \in Client, Update(r)
  PROVE  LET u == req[r].user IN
         /\ u \in DOMAIN users
         /\ req[r].step = "save"
         /\ Saved(r, u) \in Row
         /\ users' = [users EXCEPT ![u] = Saved(r, u)]
         /\ DOMAIN users' = DOMAIN users
         /\ users'[u] = Saved(r, u)
         /\ \A x \in DOMAIN users \ {u} : users'[x] = users[x]
<1> DEFINE u == req[r].user
<1>1. /\ u \in DOMAIN users /\ req[r].form \in Form /\ users[u] \in Row
      /\ req[r].step = "save"
  BY RequestTyped DEF Update, TypeOK
<1>2. users' = [users EXCEPT ![u] = Saved(r, u)]
  BY DEF Update, Saved, Entity
<1>3. \A c \in Changes(req[r]) :
        req[r].form[c] \in IF c = "email" THEN Email ELSE Value
  BY <1>1, FormTyped DEF Changes, Entity
<1>4. \A c \in Column : users[u][c] \in IF c = "email" THEN Email ELSE Value
  BY <1>1, RowTyped
<1>5. Saved(r, u) \in Row
  <2>1. \A c \in Column :
          Saved(r, u)[c] \in IF c = "email" THEN Email ELSE Value
    BY <1>3, <1>4 DEF Saved
  <2>2. Saved(r, u) \in [Column -> Email \cup Value]
    BY <2>1 DEF Saved
  <2> QED
    BY <2>1, <2>2 DEF Row, Typed
<1>6. \A f : users' = [users EXCEPT ![u] = f] =>
        /\ DOMAIN users' = DOMAIN users
        /\ users'[u] = f
        /\ \A x \in DOMAIN users \ {u} : users'[x] = users[x]
  BY <1>1, Zenon DEF TypeOK
<1> QED
  BY <1>1, <1>2, <1>5, <1>6

\* Everything the INSERT of a free address does.
LEMMA CreateEffect ==
  ASSUME TypeOK, NEW r \in Client, Create(r)
  PROVE  /\ req[r].row \in Row
         /\ \/ users' = users
            \/ \E u \in User \ DOMAIN users :
                 /\ ~Taken(req[r].row["email"])
                 /\ users' = [x \in DOMAIN users \cup {u} |->
                                IF x = u THEN req[r].row ELSE users[x]]
  BY RequestTyped DEF Create

-----------------------------------------------------------------------------
(* Types *)

LEMMA InitTypeOK == Init => TypeOK
  BY DEF Init, TypeOK, Idle

LEMMA TypeOKInductive ==
  ASSUME TypeOK, [Next]_vars
  PROVE  TypeOK'
<1>1. ASSUME NEW r \in Client, NEW row \in Row, FindByEmail(r, row)
      PROVE  TypeOK'
  BY <1>1 DEF TypeOK, FindByEmail, RegisterState, Idle
<1>2. ASSUME NEW r \in Client, NEW u \in User, NEW form \in Form,
             FindUser(r, u, form)
      PROVE  TypeOK'
  <2>1. users[u] \in Row
    BY <1>2 DEF FindUser, TypeOK
  <2>2. req'[r] \in UpdateState
    BY <1>2, <2>1 DEF FindUser, TypeOK, UpdateState
  <2> QED
    BY <1>2, <2>2 DEF FindUser, TypeOK, Idle
<1>3. ASSUME NEW r \in Client, Create(r)
      PROVE  TypeOK'
  <2>1. /\ DOMAIN users \subseteq DOMAIN users' /\ DOMAIN users' \subseteq User
        /\ users' \in [DOMAIN users' -> Row]
    <3>1. CASE users' = users
      BY <3>1 DEF TypeOK
    <3>2. CASE users' # users
      <4>1. PICK u \in User \ DOMAIN users :
              users' = [x \in DOMAIN users \cup {u} |->
                          IF x = u THEN req[r].row ELSE users[x]]
        BY <1>3, <3>2, CreateEffect
      <4>2. req[r].row \in Row
        BY <1>3, CreateEffect
      <4> QED
        BY <4>1, <4>2 DEF TypeOK
    <3> QED
      BY <3>1, <3>2
  <2> QED
    BY <1>3, <2>1 DEF Create, End, TypeOK, Idle
<1>4. ASSUME NEW r \in Client, CheckEmailExist(r)
      PROVE  TypeOK'
  <2>1. req'[r] = Idle \/ req'[r] \in UpdateState
    <3>1. req[r] \in UpdateState
      BY <1>4 DEF CheckEmailExist, TypeOK, Idle, RegisterState
    <3> QED
      BY <1>4, <3>1 DEF CheckEmailExist, End, TypeOK, UpdateState
  <2>2. /\ req' = [req EXCEPT ![r] = req'[r]]
        /\ req'[r] # Idle => req'[r].step = "reload" /\ req'[r].user = req[r].user
        /\ r \notin overtaken
    <3>1. req[r] \in UpdateState
      BY <1>4 DEF CheckEmailExist, TypeOK, Idle, RegisterState
    <3> QED
      BY <1>4, <3>1 DEF CheckEmailExist, End, TypeOK, UpdateState
  <2> QED
    BY <1>4, <2>1, <2>2 DEF CheckEmailExist, TypeOK, Idle
<1>5. ASSUME NEW r \in Client, Reload(r)
      PROVE  TypeOK'
  <2>1. req'[r] \in UpdateState /\ req'[r].user = req[r].user
    BY <1>5, RequestTyped DEF Reload, TypeOK, UpdateState
  <2> QED
    BY <1>5, <2>1 DEF Reload, TypeOK, Idle
<1>6. ASSUME NEW r \in Client, Update(r)
      PROVE  TypeOK'
  <2>1. DOMAIN users' = DOMAIN users /\ users' \in [DOMAIN users -> Row]
    BY <1>6, UpdateEffect DEF TypeOK
  <2>2. /\ req'[r] \in UpdateState /\ req'[r].step = "answered"
        /\ req'[r].user \in DOMAIN users
    BY <1>6, RequestTyped DEF Update, TypeOK, UpdateState
  <2>3. overtaken' \subseteq {x \in Client : req'[x].step \in {"save", "answered"}}
    BY <1>6, <2>2 DEF Update, Reloaded, TypeOK
  <2> QED
    BY <1>6, <2>1, <2>2, <2>3 DEF Update, TypeOK
<1>7. ASSUME NEW r \in Client, UpdateRejected(r) \/ Answer(r) \/ Fail(r)
      PROVE  TypeOK'
  BY <1>7 DEF UpdateRejected, Answer, Fail, End, TypeOK, Idle
<1>8. CASE UNCHANGED vars
  BY <1>8 DEF TypeOK, vars
<1> QED
  BY <1>1, <1>2, <1>3, <1>4, <1>5, <1>6, <1>7, <1>8 DEF Next

\* Rows and requests keep their types, and no update works on a missing user.
THEOREM TypeCorrect == Spec => []TypeOK
<1> QED
  BY InitTypeOK, TypeOKInductive, PTL DEF Spec

-----------------------------------------------------------------------------
(* One account per address *)

LEMMA EmailsUniqueInductive ==
  ASSUME TypeOK, EmailsUnique, [Next]_vars
  PROVE  EmailsUnique'
<1>1. ASSUME NEW r \in Client, Create(r)
      PROVE  EmailsUnique'
  <2>1. CASE users' = users
    BY <2>1 DEF EmailsUnique
  <2>2. CASE users' # users
    <3>1. PICK u \in User \ DOMAIN users :
            /\ ~Taken(req[r].row["email"])
            /\ users' = [x \in DOMAIN users \cup {u} |->
                           IF x = u THEN req[r].row ELSE users[x]]
      BY <1>1, <2>2, CreateEffect
    <3> QED
      BY <3>1 DEF EmailsUnique, Taken
  <2> QED
    BY <2>1, <2>2
<1>2. ASSUME NEW r \in Client, Update(r)
      PROVE  EmailsUnique'
  <2> DEFINE u == req[r].user
  <2>1. \A x \in DOMAIN users \ {u} : users[x]["email"] # Saved(r, u)["email"]
    <3>1. Saved(r, u)["email"] = IF "email" \in Changes(req[r])
                                 THEN req[r].form["email"]
                                 ELSE users[u]["email"]
      BY DEF Saved, Column
    <3>2. u \in DOMAIN users
      BY <1>2, UpdateEffect
    <3> QED
      BY <1>2, <3>1, <3>2 DEF Update, Unique, EmailsUnique
  <2> QED
    BY <1>2, <2>1, UpdateEffect DEF EmailsUnique
<1>3. CASE UNCHANGED users
  BY <1>3 DEF EmailsUnique
<1> QED
  BY <1>1, <1>2, <1>3 DEF Next, FindByEmail, FindUser, CheckEmailExist, Reload,
     UpdateRejected, Answer, Fail, vars

\* No two accounts ever have one address, however many requests saw it free.
THEOREM EmailsUniqueCorrect == Spec => []EmailsUnique
<1>1. Init => EmailsUnique
  BY DEF Init, EmailsUnique
<1> QED
  BY <1>1, EmailsUniqueInductive, TypeCorrect, PTL DEF Spec

-----------------------------------------------------------------------------
(* No update is lost or taken back *)

\* The row a request reloaded is the row in the table, until another update of
\* the user is written.
LoadedIsCurrent ==
  \A r \in Client \ overtaken :
    req[r].step = "save" => users[req[r].user] = req[r].loaded

LEMMA SuccessInductive ==
  ASSUME TypeOK, LoadedIsCurrent, SuccessIsInEffect, [Next]_vars
  PROVE  LoadedIsCurrent' /\ SuccessIsInEffect'
<1> USE DEF LoadedIsCurrent, SuccessIsInEffect
<1>1. ASSUME NEW r \in Client, Create(r)
      PROVE  LoadedIsCurrent' /\ SuccessIsInEffect'
  <2>1. \A u \in DOMAIN users : users'[u] = users[u]
    BY <1>1, CreateEffect
  <2>2. /\ req'[r].step = "idle"
        /\ \A x \in Client \ {r} : req'[x] = req[x]
        /\ overtaken' = overtaken
    BY <1>1 DEF Create, End, TypeOK, Idle
  <2>3. \A x \in Client : req'[x].step \in {"save", "answered"} =>
          x # r /\ req'[x] = req[x] /\ users'[req[x].user] = users[req[x].user]
    BY <2>1, <2>2, RequestTyped
  <2> QED
    BY <2>2, <2>3
<1>2. ASSUME NEW r \in Client, Reload(r)
      PROVE  LoadedIsCurrent' /\ SuccessIsInEffect'
  BY <1>2 DEF Reload, TypeOK
<1>3. ASSUME NEW r \in Client, Update(r)
      PROVE  LoadedIsCurrent' /\ SuccessIsInEffect'
  <2> DEFINE u == req[r].user
  <2>1. /\ req'[r].step = "answered" /\ req'[r].user = u
        /\ req'[r].form = req[r].form
        /\ \A x \in Client \ {r} : req'[x] = req[x]
        /\ overtaken \subseteq overtaken'
    BY <1>3 DEF Update, TypeOK
  <2>2. r \notin overtaken => \A c \in DOMAIN req[r].form : users'[u][c] = req[r].form[c]
    <3> SUFFICES ASSUME r \notin overtaken, NEW c \in DOMAIN req[r].form
                 PROVE  users'[u][c] = req[r].form[c]
      OBVIOUS
    <3>1. c \in Column /\ users[u] = req[r].loaded
      BY <1>3, UpdateEffect, RequestTyped, FormTyped
    <3>2. users'[u] = Saved(r, u)
      BY <1>3, UpdateEffect
    <3>3. users'[u][c] = IF c \in Changes(req[r]) THEN req[r].form[c]
                         ELSE users[u][c]
      BY <3>1, <3>2 DEF Saved
    <3> QED
      BY <1>3, <3>1, <3>3 DEF Changes, Entity, Update
  <2>3. ASSUME NEW x \in Client \ {r}, x \notin overtaken',
               req[x].step \in {"save", "answered"}
        PROVE  users'[req[x].user] = users[req[x].user]
    <3>1. req[x].user \in DOMAIN users
      BY <2>3, RequestTyped
    <3>2. CASE req[x].user # u
      BY <1>3, <3>1, <3>2, UpdateEffect
    <3>3. CASE req[x].user = u
      <4>1. Changes(req[r]) = {}
        BY <1>3, <2>3, <3>3 DEF Update, Reloaded
      <4>2. users'[u] = [c \in Column |-> users[u][c]]
        BY <1>3, <4>1, UpdateEffect DEF Saved
      <4>3. users[u] \in Row
        BY <1>3, UpdateEffect DEF TypeOK
      <4> QED
        BY <3>3, <4>2, <4>3, RowTyped
    <3> QED
      BY <3>2, <3>3
  <2> QED
    BY <2>1, <2>2, <2>3
<1>4. ASSUME NEW r \in Client, UpdateRejected(r) \/ Answer(r) \/ Fail(r)
      PROVE  LoadedIsCurrent' /\ SuccessIsInEffect'
  BY <1>4 DEF UpdateRejected, Answer, Fail, End, TypeOK, Idle
<1>5. ASSUME NEW r \in Client, NEW row \in Row, FindByEmail(r, row)
      PROVE  LoadedIsCurrent' /\ SuccessIsInEffect'
  BY <1>5 DEF FindByEmail, TypeOK
<1>6. ASSUME NEW r \in Client, NEW u \in User, NEW form \in Form,
             FindUser(r, u, form)
      PROVE  LoadedIsCurrent' /\ SuccessIsInEffect'
  BY <1>6 DEF FindUser, TypeOK
<1>7. ASSUME NEW r \in Client, CheckEmailExist(r)
      PROVE  LoadedIsCurrent' /\ SuccessIsInEffect'
  <2>1. /\ req'[r].step \in {"idle", "reload"}
        /\ \A x \in Client \ {r} : req'[x] = req[x]
    <3>1. req[r] \in UpdateState
      BY <1>7 DEF CheckEmailExist, TypeOK, Idle, RegisterState
    <3> QED
      BY <1>7, <3>1 DEF CheckEmailExist, End, TypeOK, Idle, UpdateState
  <2> QED
    BY <1>7, <2>1 DEF CheckEmailExist
<1>8. CASE UNCHANGED vars
  BY <1>8 DEF vars
<1> QED
  BY <1>1, <1>2, <1>3, <1>4, <1>5, <1>6, <1>7, <1>8 DEF Next

\* An update that answers success is in effect, unless another one of the same
\* user was written after its reload.
THEOREM SuccessCorrect == Spec => []SuccessIsInEffect
<1>1. Init => LoadedIsCurrent /\ SuccessIsInEffect
  BY DEF Init, LoadedIsCurrent, SuccessIsInEffect, Idle
<1> QED
  BY <1>1, SuccessInductive, TypeCorrect, PTL DEF Spec

\* A column changes only to what a request in progress submitted for it.
THEOREM OnlySubmittedCorrect == Spec => OnlySubmittedChanges
<1> DEFINE Good ==
      \A u \in DOMAIN users, c \in Column : users'[u][c] # users[u][c] =>
        \E r \in Client :
          /\ req[r].step = "save" /\ req[r].user = u
          /\ c \in DOMAIN req[r].form /\ users'[u][c] = req[r].form[c]
<1>1. TypeOK /\ [Next]_vars => Good
  <2> SUFFICES ASSUME TypeOK, [Next]_vars PROVE Good
    OBVIOUS
  <2>1. ASSUME NEW r \in Client, Create(r) PROVE Good
    BY <2>1, CreateEffect
  <2>2. ASSUME NEW r \in Client, Update(r) PROVE Good
    <3> SUFFICES ASSUME NEW u \in DOMAIN users, NEW c \in Column,
                        users'[u][c] # users[u][c]
                 PROVE  /\ req[r].step = "save" /\ req[r].user = u
                        /\ c \in DOMAIN req[r].form
                        /\ users'[u][c] = req[r].form[c]
      OBVIOUS
    <3>1. u = req[r].user /\ req[r].step = "save"
      BY <2>2, UpdateEffect
    <3>2. users'[u] = Saved(r, u)
      BY <2>2, <3>1, UpdateEffect
    <3>3. c \in Changes(req[r]) /\ users'[u][c] = req[r].form[c]
      BY <3>2 DEF Saved
    <3> QED
      BY <3>1, <3>3 DEF Changes, Entity
  <2>3. CASE UNCHANGED users
    BY <2>3
  <2> QED
    BY <2>1, <2>2, <2>3 DEF Next, FindByEmail, FindUser, CheckEmailExist,
       Reload, UpdateRejected, Answer, Fail, vars
<1> HIDE DEF Good
<1>2. Spec => [][Good]_vars
  BY <1>1, TypeCorrect, PTL DEF Spec
<1> QED
  BY <1>2 DEF OnlySubmittedChanges, Good

-----------------------------------------------------------------------------
(* Refinement *)

LEMMA StepRefines ==
  ASSUME TypeOK, [Next]_vars
  PROVE  [Abstract!Next]_([u \in DOMAIN users |-> users[u]["email"]])
<1> DEFINE emailOf == [u \in DOMAIN users |-> users[u]["email"]]
<1>1. ASSUME NEW r \in Client, Create(r)
      PROVE  Abstract!Next \/ UNCHANGED emailOf
  <2>1. CASE users' = users
    BY <2>1
  <2>2. CASE users' # users
    <3>1. PICK u \in User \ DOMAIN users :
            /\ ~Taken(req[r].row["email"])
            /\ users' = [x \in DOMAIN users \cup {u} |->
                           IF x = u THEN req[r].row ELSE users[x]]
      BY <1>1, <2>2, CreateEffect
    <3>2. PICK e \in Email : e = req[r].row["email"]
      BY <1>1, CreateEffect, RowTyped
    <3>3. Abstract!Register(u, e)
      BY <3>1, <3>2 DEF Abstract!Register, Abstract!Free, Taken
    <3> HIDE DEF emailOf
    <3> QED
      BY <3>2, <3>3 DEF Abstract!Next
  <2> QED
    BY <2>1, <2>2
<1>2. ASSUME NEW r \in Client, Update(r)
      PROVE  Abstract!Next \/ UNCHANGED emailOf
  <2>1. /\ req[r].user \in DOMAIN users /\ req[r].user \in User
        /\ req[r].form["email"] \in Email /\ "email" \in Column
    BY <1>2, UpdateEffect, RequestTyped, FormTyped DEF TypeOK, Column
  <2>u. PICK u \in User : u = req[r].user
    BY <2>1
  <2>e. PICK e \in Email : e = req[r].form["email"]
    BY <2>1
  <2>2. emailOf' = [emailOf EXCEPT ![u] = Saved(r, u)["email"]]
    BY <1>2, <2>u, UpdateEffect
  <2>3. CASE "email" \notin Changes(req[r])
    <3>1. Saved(r, u)["email"] = users[u]["email"]
      BY <2>1, <2>3 DEF Saved
    <3> QED
      BY <2>1, <2>2, <2>u, <3>1
  <2>4. CASE "email" \in Changes(req[r])
    <3>1. Saved(r, u)["email"] = e
      BY <2>1, <2>4, <2>e DEF Saved
    <3>2. CASE e = users[u]["email"]
      BY <2>1, <2>2, <2>u, <3>1, <3>2
    <3>3. CASE e # users[u]["email"]
      <4>1. \A x \in DOMAIN users : users[x]["email"] # e
        BY <1>2, <2>4, <2>u, <2>e, <3>3 DEF Update, Unique
      <4>2. Abstract!ChangeEmail(u, e)
        BY <2>1, <2>2, <2>u, <3>1, <4>1 DEF Abstract!ChangeEmail, Abstract!Free
      <4> QED
        <5> HIDE DEF emailOf
        <5> QED
          BY <2>1, <4>2 DEF Abstract!Next
    <3> QED
      BY <3>2, <3>3
  <2> QED
    BY <2>3, <2>4
<1>3. CASE UNCHANGED users
  BY <1>3
<1> QED
  BY <1>1, <1>2, <1>3 DEF Next, FindByEmail, FindUser, CheckEmailExist, Reload,
     UpdateRejected, Answer, Fail, vars

\* Registration and update behave as if looking an address up and writing it
\* were one atomic step.
THEOREM UsersImplementAccounts == Spec => ImplementsAccounts
<1>1. Init => Abstract!Init
  BY DEF Init, Abstract!Init
<1> QED
  BY <1>1, StepRefines, TypeCorrect, PTL
     DEF Spec, ImplementsAccounts, Abstract!Spec
==============================================================================
