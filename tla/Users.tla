-------------------------------- MODULE Users --------------------------------
(***************************************************************************)
(* UsersService and AuthService.register: registration and profile update. *)
(* Each HTTP request is a process whose steps are the statements between   *)
(* two awaits:                                                             *)
(*                                                                         *)
(*   register:  insert                  (findByEmail; bcrypt.hash; INSERT) *)
(*   update:    checkEmail -> reload -> save -> answered                   *)
(*              (findOne; findByEmail when the address is another one; the *)
(*              row that save() reads again; the UPDATE; the answer)       *)
(*                                                                         *)
(* Only the unique column orders the requests: none takes a lock.          *)
(***************************************************************************)
EXTENDS Integers, FiniteSets

CONSTANTS User,       \* primary keys of users: bounds the table
          Email,
          Optional,   \* columns an update may leave out: full_name, phone, role
          Value,      \* values of these columns
          Client      \* HTTP requests in progress at the same time

VARIABLES users,      \* rows of users, by primary key
          req,        \* the state of each request
          overtaken   \* history: updates whose user another one wrote after
                      \* they had reloaded it

vars == <<users, req, overtaken>>

ASSUME UsersAssumption == IsFiniteSet(User) /\ "email" \notin Optional

Column == {"email"} \cup Optional

\* The columns a request can write after the registration.
Typed(row) ==
  \A c \in DOMAIN row : row[c] \in IF c = "email" THEN Email ELSE Value
Row == {row \in [Column -> Email \cup Value] : Typed(row)}

\* UpdateUserDto: the address is required, the other columns are not.  A
\* column left out is undefined in the object that is saved.
Form == UNION {{form \in [{"email"} \cup C -> Email \cup Value] : Typed(form)} :
                 C \in SUBSET Optional}

Idle == [step |-> "idle"]
RegisterState == [step: {"insert"}, row: Row]
UpdateState ==
  [step: {"checkEmail", "reload", "answered"}, user: User, form: Form,
   found: Row]
  \cup [step: {"save"}, user: User, form: Form, found: Row, loaded: Row]

-----------------------------------------------------------------------------
Taken(e) == \E u \in DOMAIN users : users[u]["email"] = e

\* The unique column: no other row than that of u has the address e.
Unique(u, e) == \A x \in DOMAIN users \ {u} : users[x]["email"] # e

End(r) == req' = [req EXCEPT ![r] = Idle]

\* User bounds the table: a registration starts only if an id is left for it.
RoomForUser ==
  Cardinality(DOMAIN users) + Cardinality({r \in Client : req[r].step = "insert"})
    < Cardinality(User)

-----------------------------------------------------------------------------
(* register *)

\* A taken address is a 401 and changes nothing.
FindByEmail(r, row) ==
  /\ req[r] = Idle
  /\ RoomForUser
  /\ ~Taken(row["email"])
  /\ req' = [req EXCEPT ![r] = [step |-> "insert", row |-> row]]
  /\ UNCHANGED <<users, overtaken>>

\* A plausible bug: no unique constraint on the column.
Create_NotUnique(r) ==
  /\ req[r].step = "insert"
  /\ \E u \in User \ DOMAIN users :
       users' = [x \in DOMAIN users \cup {u} |->
                   IF x = u THEN req[r].row ELSE users[x]]
  /\ End(r)
  /\ UNCHANGED overtaken

\* The INSERT of save(data): the unique column rejects an address taken since
\* it was looked up, and the answer is 401.
Create(r) ==
  /\ req[r].step = "insert"
  /\ IF Taken(req[r].row["email"])
     THEN UNCHANGED users
     ELSE \E u \in User \ DOMAIN users :
            users' = [x \in DOMAIN users \cup {u} |->
                        IF x = u THEN req[r].row ELSE users[x]]
  /\ End(r)
  /\ UNCHANGED overtaken

-----------------------------------------------------------------------------
(* update *)

FindUser(r, u, form) ==
  /\ req[r] = Idle
  /\ u \in DOMAIN users
  /\ req' = [req EXCEPT ![r] =
               [step |-> IF form["email"] = users[u]["email"]
                         THEN "reload" ELSE "checkEmail",
                user |-> u, form |-> form, found |-> users[u]]]
  /\ UNCHANGED <<users, overtaken>>

\* 409 when the address exists.
CheckEmailExist(r) ==
  /\ req[r].step = "checkEmail"
  /\ IF Taken(req[r].form["email"])
     THEN End(r)
     ELSE req' = [req EXCEPT ![r].step = "reload"]
  /\ UNCHANGED <<users, overtaken>>

\* save() reads the row again to find the columns it has to write.
Reload(r) ==
  /\ req[r].step = "reload"
  /\ req' = [req EXCEPT ![r] =
               [step |-> "save", user |-> req[r].user, form |-> req[r].form,
                found |-> req[r].found, loaded |-> users[req[r].user]]]
  /\ UNCHANGED <<users, overtaken>>

\* A plausible bug: a column left out keeps its key out of the object, so that
\* the value read first stays in it.
Entity_WithFound(state) ==
  [c \in Column |-> IF c \in DOMAIN state.form THEN state.form[c]
                    ELSE state.found[c]]

\* {...existUser, ...data}: the columns left out are undefined, not the values
\* of existUser.
Entity(state) == state.form

\* A plausible bug: the difference is taken from the row that was read first.
Changes_FromFound(state) ==
  {c \in DOMAIN Entity(state) : Entity(state)[c] # state.found[c]}

\* save() writes the defined columns that differ from the reloaded row.
Changes(state) ==
  {c \in DOMAIN Entity(state) : Entity(state)[c] # state.loaded[c]}

\* The other updates of user u that reloaded it.
Reloaded(r, u) ==
  {x \in Client \ {r} : req[x].step \in {"save", "answered"} /\ req[x].user = u}

\* A plausible bug: no unique constraint on the column.
Update_NotUnique(r) ==
  /\ req[r].step = "save"
  /\ LET u == req[r].user
         changes == Changes(req[r])
     IN  /\ users' = [users EXCEPT ![u] =
                        [c \in Column |-> IF c \in changes
                                          THEN Entity(req[r])[c] ELSE @[c]]]
         /\ overtaken' = IF changes = {} THEN overtaken
                         ELSE overtaken \cup Reloaded(r, u)
         /\ req' = [req EXCEPT ![r] = [step |-> "answered", user |-> u,
                                       form |-> req[r].form,
                                       found |-> req[r].found]]

\* A plausible bug: the submitted object replaces the row.
Update_Replaces(r) ==
  /\ req[r].step = "save"
  /\ "email" \in Changes(req[r]) => Unique(req[r].user, req[r].form["email"])
  /\ users' = [users EXCEPT ![req[r].user] = req[r].form]
  /\ overtaken' = overtaken \cup Reloaded(r, req[r].user)
  /\ req' = [req EXCEPT ![r] = [step |-> "answered", user |-> req[r].user,
                                form |-> req[r].form, found |-> req[r].found]]

\* The UPDATE by id: the unique column rejects an address taken by now, and
\* nothing is written when nothing differs.
Update(r) ==
  /\ req[r].step = "save"
  /\ LET u == req[r].user
         changes == Changes(req[r])
     IN  /\ "email" \in changes => Unique(u, req[r].form["email"])
         /\ users' = [users EXCEPT ![u] =
                        [c \in Column |-> IF c \in changes
                                          THEN Entity(req[r])[c] ELSE @[c]]]
         /\ overtaken' = IF changes = {} THEN overtaken
                         ELSE overtaken \cup Reloaded(r, u)
         /\ req' = [req EXCEPT ![r] = [step |-> "answered", user |-> u,
                                       form |-> req[r].form,
                                       found |-> req[r].found]]

\* 400: the UPDATE fails as a whole.
UpdateRejected(r) ==
  /\ req[r].step = "save"
  /\ "email" \in Changes(req[r]) /\ ~Unique(req[r].user, req[r].form["email"])
  /\ End(r)
  /\ overtaken' = overtaken \ {r}
  /\ UNCHANGED users

\* {success: true} is returned.
Answer(r) ==
  /\ req[r].step = "answered"
  /\ End(r)
  /\ overtaken' = overtaken \ {r}
  /\ UNCHANGED users

-----------------------------------------------------------------------------
\* A statement fails or the process dies: what was committed stays.
Fail(r) ==
  /\ req[r] # Idle
  /\ End(r)
  /\ overtaken' = overtaken \ {r}
  /\ UNCHANGED users

Init ==
  /\ users = [u \in {} |-> u]
  /\ req = [r \in Client |-> Idle]
  /\ overtaken = {}

Next ==
  \E r \in Client :
    \/ \E row \in Row : FindByEmail(r, row)
    \/ \E u \in User, form \in Form : FindUser(r, u, form)
    \/ Create(r) \/ CheckEmailExist(r) \/ Reload(r)
    \/ Update(r) \/ UpdateRejected(r) \/ Answer(r) \/ Fail(r)

Spec == Init /\ [][Next]_vars

-----------------------------------------------------------------------------
(* Properties *)

TypeOK ==
  /\ DOMAIN users \subseteq User
  /\ users \in [DOMAIN users -> Row]
  /\ req \in [Client -> {Idle} \cup RegisterState \cup UpdateState]
  /\ \A r \in Client : req[r].step \in {"checkEmail", "reload", "save", "answered"}
                         => req[r].user \in DOMAIN users
  /\ overtaken \subseteq {r \in Client : req[r].step \in {"save", "answered"}}

\* No two accounts have one address, though every request that looked an
\* address up may have seen it free.
EmailsUnique ==
  \A u, v \in DOMAIN users : users[u]["email"] = users[v]["email"] => u = v

\* An update that answers success has the submitted values in the table,
\* unless another update of the same user was written after its reload.
SuccessIsInEffect ==
  \A r \in Client \ overtaken : req[r].step = "answered" =>
    \A c \in DOMAIN req[r].form : users[req[r].user][c] = req[r].form[c]

\* A column changes only to a value a request in progress submitted for it:
\* an update never takes back what others wrote to the columns it leaves out.
OnlySubmittedChanges ==
  [][\A u \in DOMAIN users, c \in Column : users'[u][c] # users[u][c] =>
       \E r \in Client :
         /\ req[r].step = "save" /\ req[r].user = u
         /\ c \in DOMAIN req[r].form /\ users'[u][c] = req[r].form[c]]_vars

\* Looking an address up and writing it are two statements, and act as one.
Abstract == INSTANCE Accounts
              WITH emailOf <- [u \in DOMAIN users |-> users[u]["email"]]

ImplementsAccounts == Abstract!Spec
==============================================================================
