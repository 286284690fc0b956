---------------------------- MODULE Administrators ----------------------------
(***************************************************************************)
(* Access: who administers the system (access/service.py).                 *)
(*                                                                         *)
(* update_user is the one operation of the service that several requests   *)
(* carry out in steps of their own: it reads the user, counts the          *)
(* administrators in one statement that locks their rows, and writes.  The *)
(* database runs READ COMMITTED: the statement sees what was committed     *)
(* when it began, waits for rows others hold, and then asks again only     *)
(* what the locked row, users, says.  The roles are rows of another table. *)
(***************************************************************************)
EXTENDS Integers, FiniteSets

CONSTANTS
    Users,
    Requests    \* requests to update a user that are carried out at one time

ASSUME AccessAssumption == IsFiniteSet(Users)

VARIABLES
    user,       \* users with their roles, as committed
    request     \* what each request holds between its steps

accessVars == <<user, request>>

NoUser == [exists |-> FALSE, active |-> FALSE, admin |-> FALSE]

\* What is asked of a user: is_active and whether the roles include an
\* administrator's, each as it is or set.
Answers == {"as_is", "yes", "no"}
Changes == [active : Answers, admin : Answers] \ {[active |-> "as_is", admin |-> "as_is"]}
Deactivate == [active |-> "no", admin |-> "as_is"]

Idle ==
    [step |-> "idle", of |-> "nobody", change |-> Deactivate, was |-> NoUser,
     seen |-> {}, locked |-> {}]

\* The active administrators.
ActiveAdmins == {u \in Users : user[u].active /\ user[u].admin}

\* The administrators are counted when a user is deactivated or given roles.
Guarded(c) == c.active = "no" \/ c.admin # "as_is"

\* What the user will be once the request is through, by what it read.
Then(answer, was) == IF answer = "as_is" THEN was ELSE answer = "yes"

KeepsAdmin(r) ==
    /\ Then(request[r].change.admin, request[r].was.admin)
    /\ Then(request[r].change.active, request[r].was.active)

\* Mutant of AdminIds: the rows as they were when the statement began.
AdminIdsUnasked(r) == request[r].seen

\* The rows of the statement that still qualify once their locks are granted.
AdminIds(r) == {u \in request[r].seen : user[u].active}

HeldByOthers(r) == UNION {request[q].locked : q \in Requests \ {r}}

Set(r, new) == request' = [request EXCEPT ![r] = new]

-----------------------------------------------------------------------------

create_user(u, admin) ==
    /\ ActiveAdmins # {}
    /\ ~user[u].exists
    /\ user' = [user EXCEPT ![u] = [exists |-> TRUE, active |-> TRUE, admin |-> admin]]
    /\ UNCHANGED request

\* update_user, its first statement: the user is read, with nothing locked.
read_user(r, u, c) ==
    /\ ActiveAdmins # {}
    /\ request[r].step = "idle"
    /\ user[u].exists
    /\ Set(r, [Idle EXCEPT !.step = IF Guarded(c) THEN "read" ELSE "cleared",
                           !.of = u, !.change = c, !.was = user[u]])
    /\ UNCHANGED user

\* The statement of _active_system_admin_ids begins ...
count_admins(r) ==
    /\ request[r].step = "read"
    /\ Set(r, [request[r] EXCEPT !.step = "counted", !.seen = ActiveAdmins])
    /\ UNCHANGED user

\* ... and returns once nobody else holds a row of it; then the guard is asked.
_guard_last_system_admin(r) ==
    /\ request[r].step = "counted"
    /\ request[r].seen \cap HeldByOthers(r) = {}
    /\ IF request[r].of \in AdminIds(r) /\ ~KeepsAdmin(r) /\ Cardinality(AdminIds(r)) <= 1
       THEN Set(r, Idle)
       ELSE Set(r, [request[r] EXCEPT !.step = "cleared", !.locked = request[r].seen])
    /\ UNCHANGED user

\* The flag is written when it differs from what was read; the roles are replaced,
\* after which the row is read again.  Writing the row, or giving a role, waits for
\* whoever holds it; taking all roles away does not.
update_user(r) ==
    LET u == request[r].of
        c == request[r].change
        read == IF c.admin = "as_is" THEN request[r].was.active ELSE user[u].active
        writes == c.active # "as_is" /\ (c.active = "yes") # read
    IN  /\ request[r].step = "cleared"
        /\ writes \/ c.admin = "yes" => u \notin HeldByOthers(r)
        /\ user' = [user EXCEPT
              ![u].admin = Then(c.admin, @),
              ![u].active = IF writes THEN c.active = "yes" ELSE @]
        /\ Set(r, Idle)

\* A transaction the database breaks off, as it does when two wait for each other.
rollback(r) ==
    /\ request[r].step # "idle"
    /\ Set(r, Idle)
    /\ UNCHANGED user

-----------------------------------------------------------------------------

\* The first administrator is created by nobody.
AccessInit ==
    /\ \E u \in Users :
          user = [v \in Users |-> IF v = u
              THEN [exists |-> TRUE, active |-> TRUE, admin |-> TRUE] ELSE NoUser]
    /\ request = [r \in Requests |-> Idle]

AccessNext ==
    \/ \E u \in Users, admin \in BOOLEAN : create_user(u, admin)
    \/ \E r \in Requests :
          \/ \E u \in Users, c \in Changes : read_user(r, u, c)
          \/ count_admins(r)
          \/ _guard_last_system_admin(r)
          \/ update_user(r)
          \/ rollback(r)

AccessSpec == AccessInit /\ [][AccessNext]_accessVars

\* Requests that overlap only deactivate.
Apart ==
    \A q, r \in Requests :
        q # r /\ request[q].step # "idle" /\ request[r].step # "idle"
          => request[q].change = Deactivate /\ request[r].change = Deactivate

ApartSpec == AccessInit /\ [][AccessNext /\ Apart']_accessVars

-----------------------------------------------------------------------------

UserRow == [exists : BOOLEAN, active : BOOLEAN, admin : BOOLEAN]
RequestRow ==
    [step : {"idle", "read", "counted", "cleared"}, of : Users \cup {"nobody"},
     change : [active : Answers, admin : Answers], was : UserRow,
     seen : SUBSET Users, locked : SUBSET Users]

AccessTypeOK ==
    /\ user \in [Users -> UserRow]
    /\ request \in [Requests -> RequestRow]
    /\ \A r \in Requests : request[r].step # "idle" => request[r].of \in Users

\* "Two concurrent requests cannot each observe the other's administrator and both
\* proceed, removing the last one between them" (the docstring of
\* _active_system_admin_ids): somebody is always left to administer the system.
AnAdministratorRemains == ActiveAdmins # {}
=============================================================================
