------------------------------ MODULE Accounts ------------------------------
(***************************************************************************)
(* Accounts and what their tokens are good for (auth/, shared/auth/guards, *)
(* auth/bootstrap-admin.service.ts).  A token names a user; the guards     *)
(* decide by the row that user has when the request arrives, and the       *)
(* handler runs later, when the row may be another.                        *)
(*                                                                         *)
(* A request is one of an administrator against another account, or any    *)
(* other that needs write permission.                                      *)
(***************************************************************************)
EXTENDS Naturals, FiniteSets

CONSTANTS
  User,      \* bound: the accounts that can ever exist
  Root,      \* the user of ADMIN_EMAIL
  Request,   \* bound: the requests under way
  MaxSteps   \* bound: requests that are ever begun

\* Asserted by the module that instantiates this one.
AccountsAssumption == IsFiniteSet(User) /\ Root \in User /\ MaxSteps \in Nat

VARIABLES
  row,      \* users: row[u], or Absent
  token,    \* token[u]: what an unexpired token of u says of its role, or "none"
  request,  \* request[r]: the user and what it asks for
  begun,    \* requests begun
  demoted   \* history: an administrator took its own rights, or another's under a request of its

accountsVars == <<row, token, request, begun, demoted>>

Account == [role : {"ADMIN", "USER"}, permission : {"READ", "WRITE"}, isActive : BOOLEAN]
Absent == [role |-> "none", permission |-> "READ", isActive |-> FALSE]
Admin == [role |-> "ADMIN", permission |-> "WRITE", isActive |-> TRUE]
NoRequest == [pc |-> "idle", user |-> "nobody"]

ActiveAdmins == {u \in User : row[u].role = "ADMIN" /\ row[u].isActive}

\* onApplicationBootstrap()
Init ==
  /\ row = [u \in User |-> IF u = Root THEN Admin ELSE Absent]
  /\ token = [u \in User |-> "none"]
  /\ request = [r \in Request |-> NoRequest]
  /\ begun = 0 /\ demoted = FALSE

\* register(): READ only.
Register(u) ==
  /\ row[u] = Absent
  /\ row' = [row EXCEPT ![u] = [role |-> "USER", permission |-> "READ", isActive |-> TRUE]]
  /\ UNCHANGED <<token, request, begun, demoted>>

\* login(), and tokens expire.
Login(u) ==
  /\ row[u].isActive
  /\ token' = [token EXCEPT ![u] = row[u].role]
  /\ UNCHANGED <<row, request, begun, demoted>>

Expire(u) ==
  /\ token[u] # "none"
  /\ token' = [token EXCEPT ![u] = "none"]
  /\ UNCHANGED <<row, request, begun, demoted>>

\* Mutant: the role is what the token says.
Profile_OfToken(u) == [row[u] EXCEPT !.role = token[u]]

\* getProfile(): the row as it is now.
Profile(u) == row[u]

\* The guards: a valid token of an active user, then the role or the permission the route asks for.
Passes(u, pc) ==
  LET p == Profile(u)
  IN  /\ token[u] # "none" /\ p.isActive
      /\ CASE pc = "admin" -> p.role = "ADMIN"
           [] pc = "write" -> p.role = "ADMIN" \/ p.permission = "WRITE"

Begin(r, u, pc) ==
  /\ request[r].pc = "idle" /\ begun < MaxSteps
  /\ Passes(u, pc)
  /\ request' = [request EXCEPT ![r] = [pc |-> pc, user |-> u]]
  /\ begun' = begun + 1
  /\ UNCHANGED <<row, token, demoted>>

End(r) == request' = [request EXCEPT ![r] = NoRequest]

\* An administrator changed by somebody may be the one of a request under way.
Weakens(r, u, new) ==
  /\ u \in ActiveAdmins /\ (new.role # "ADMIN" \/ ~new.isActive)
  /\ u = request[r].user \/ \E q \in Request \ {r} : request[q].pc = "admin" /\ request[q].user = u

\* updateUser()
UpdateUser(r, u) ==
  /\ request[r].pc = "admin"
  /\ IF row[u] # Absent
     THEN \E new \in Account :
            /\ row' = [row EXCEPT ![u] = new]
            /\ demoted' = (demoted \/ Weakens(r, u, new))
     ELSE UNCHANGED <<row, demoted>>
  /\ End(r)
  /\ UNCHANGED <<token, begun>>

\* deleteUser(): not the user of the request.
MayDelete(r, u) == u # request[r].user /\ row[u] # Absent

DeleteUser(r, u) ==
  /\ request[r].pc = "admin"
  /\ IF MayDelete(r, u)
     THEN /\ row' = [row EXCEPT ![u] = Absent]
          /\ token' = [token EXCEPT ![u] = "none"]  \* its id never comes back
          /\ demoted' = (demoted \/ (u # request[r].user /\ Weakens(r, u, Absent)))
     ELSE UNCHANGED <<row, token, demoted>>
  /\ End(r)
  /\ UNCHANGED begun

\* The handler of any other route.
Handle(r) ==
  /\ request[r].pc = "write"
  /\ End(r)
  /\ UNCHANGED <<row, token, begun, demoted>>

\* A restart, with ADMIN_EMAIL and ADMIN_PASSWORD set: the upsert of the bootstrap.
Restart ==
  /\ row' = [row EXCEPT ![Root] = Admin]
  /\ request' = [r \in Request |-> NoRequest]
  /\ demoted' = FALSE
  /\ UNCHANGED <<token, begun>>

Next ==
  \/ \E u \in User : Register(u) \/ Login(u) \/ Expire(u)
  \/ \E r \in Request, u \in User :
       Begin(r, u, "admin") \/ Begin(r, u, "write") \/ UpdateUser(r, u) \/ DeleteUser(r, u)
  \/ \E r \in Request : Handle(r)
  \/ Restart

-----------------------------------------------------------------------------
\* There is an active administrator, unless one took its own rights, or those of one that was
\* under way itself.  A restart brings one back.
AdminLeft == ActiveAdmins # {} \/ demoted
=============================================================================
