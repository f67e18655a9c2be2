---------------------------- MODULE AuthSessions -----------------------------
(***************************************************************************)
(* The accounts, refresh sessions and password-reset links of auth-service *)
(* for one e-mail address, and requests on them that overlap.  A request   *)
(* looks rows up, decides on what it found, and commits later; other       *)
(* requests commit in between.  The database adds its part: the unique key *)
(* on the e-mail, the foreign keys with their cascades, an UPDATE of a row *)
(* that has been deleted fails, and a row that was updated stays locked    *)
(* until the commit.                                                       *)
(*                                                                         *)
(* Rows keep their place after they are deleted.  A refresh token is known *)
(* by its session.  Whether a password is right, a token or a link has     *)
(* expired, a mail is delivered or a request breaks off is left open: the  *)
(* request then is not begun, or simply leaves.                            *)
(***************************************************************************)
EXTENDS Integers, FiniteSets, Sequences

CONSTANTS
    Requests,       \* requests in flight
    MaxUsers,       \* bound on the accounts registered one after the other
    MaxSessions,    \* bound on the sessions opened
    MaxLinks        \* bound on the reset links mailed

ASSUME AuthAssumption == MaxUsers \in Nat /\ MaxSessions \in Nat /\ MaxLinks \in Nat

VARIABLES
    users,      \* rows of auth_users, and how often each password was reset
    sessions,   \* rows of auth_sessions
    links,      \* rows of password_reset_tokens
    tx          \* per request: its command and what it has looked up

vars == <<users, sessions, links, tx>>

Nobody == 0     \* no account, no session, no link

(* since, kept for the properties only: how many resets of the account    *)
(* the session may have outlived.  Those are the resets before its login   *)
(* looked the account up, and those overlapped by the request that opened  *)
(* the session or continued it.                                            *)
Session == [user: Nat, parent: Nat, exists: BOOLEAN, revoked: BOOLEAN, since: Nat]
Link == [user: Nat, exists: BOOLEAN, used: BOOLEAN]
User == [exists: BOOLEAN, resets: Nat]

Commands == {"register", "login", "refresh", "logout", "forgot", "reset", "delete"}
Idle == [command |-> "none", at |-> "idle", row |-> Nobody, user |-> Nobody,
         resets |-> 0, listed |-> {}]

Init ==
    /\ users = <<>> /\ sessions = <<>> /\ links = <<>>
    /\ tx = [r \in Requests |-> Idle]

Moves(r, record) == tx' = [tx EXCEPT ![r] = record]
Leaves(r) == Moves(r, Idle)

(* get_user_by_email *)
Accounts == {u \in DOMAIN users : users[u].exists}
Account == IF Accounts = {} THEN Nobody ELSE CHOOSE u \in Accounts : TRUE
Exists(u) == u \in Accounts

Resets(u) == IF u = Nobody THEN 0 ELSE users[u].resets

(* A reset has updated the account and not committed yet. *)
ResetUnderWay(u) == \E r \in Requests : tx[r].at = "listed" /\ tx[r].user = u

-----------------------------------------------------------------------------
(* The lookups.  Whatever is refused at once is not begun.                 *)

Begin(r, command, row, user) ==
    /\ tx[r].at = "idle"
    /\ Moves(r, [Idle EXCEPT !.command = command, !.at = "loaded", !.row = row,
                             !.user = user, !.resets = Resets(user)])
    /\ UNCHANGED <<users, sessions, links>>

BeginRegister(r) == Account = Nobody /\ Begin(r, "register", Nobody, Nobody)

(* login, forgot_password and delete_auth_user find the account. *)
BeginWithAccount(r, command) ==
    /\ Account # Nobody
    /\ Begin(r, command, Nobody, Account)

(* The row of the token's session is there and not revoked. *)
BeginRefresh(r, i) ==
    /\ sessions[i].exists /\ ~sessions[i].revoked
    /\ Begin(r, "refresh", i, sessions[i].user)

BeginLogout(r, i) ==
    /\ sessions[i].exists /\ ~sessions[i].revoked
    /\ Begin(r, "logout", i, sessions[i].user)

BeginReset(r, i) ==
    /\ links[i].exists /\ ~links[i].used
    /\ Begin(r, "reset", i, links[i].user)

-----------------------------------------------------------------------------
(* The commits                                                             *)

Loaded(r, command) == tx[r].command = command /\ tx[r].at = "loaded"

(* auth_users.email is unique. *)
EmailFree == Account = Nobody

CommitRegister(r) ==
    /\ Loaded(r, "register")
    /\ EmailFree
    /\ Len(users) < MaxUsers
    /\ users' = Append(users, [exists |-> TRUE, resets |-> 0])
    /\ Leaves(r)
    /\ UNCHANGED <<sessions, links>>

NewSession(r, user, parent, since) ==
    [user |-> user, parent |-> parent, exists |-> TRUE, revoked |-> FALSE,
     since |-> IF ResetUnderWay(user) THEN users[user].resets + 1
               ELSE IF tx[r].resets # users[user].resets THEN users[user].resets
               ELSE since]

(* The account's last_login_at is updated with it: the row must be there   *)
(* and not locked.                                                         *)
CommitLogin(r) ==
    LET u == tx[r].user
    IN  /\ Loaded(r, "login")
        /\ Exists(u) /\ ~ResetUnderWay(u)
        /\ Len(sessions) < MaxSessions
        /\ sessions' = Append(sessions, NewSession(r, u, Nobody, tx[r].resets))
        /\ Leaves(r)
        /\ UNCHANGED <<users, links>>

(* Mutant: the new session is inserted without updating the old one. *)
CommitRefreshUnrevoked(r) ==
    LET old == sessions[tx[r].row]
    IN  /\ Loaded(r, "refresh")
        /\ Account # Nobody
        /\ Len(sessions) < MaxSessions
        /\ sessions' = Append(sessions,
                         NewSession(r, Account, tx[r].row, old.since))
        /\ Leaves(r)
        /\ UNCHANGED <<users, links>>

(* The lookup of the account flushes the revocation of the old session,    *)
(* which fails if the row is gone and locks it until the commit.  The      *)
(* account is the one the e-mail in the token has now.                     *)
CommitRefresh(r) ==
    LET old == sessions[tx[r].row]
    IN  /\ Loaded(r, "refresh")
        /\ old.exists
        /\ Account # Nobody
        /\ Len(sessions) < MaxSessions
        /\ sessions' = Append([sessions EXCEPT ![tx[r].row].revoked = TRUE],
                         NewSession(r, Account, tx[r].row, old.since))
        /\ Leaves(r)
        /\ UNCHANGED <<users, links>>

CommitLogout(r) ==
    /\ Loaded(r, "logout")
    /\ sessions[tx[r].row].exists
    /\ sessions' = [sessions EXCEPT ![tx[r].row].revoked = TRUE]
    /\ Leaves(r)
    /\ UNCHANGED <<users, links>>

(* The link has been mailed by now. *)
CommitForgot(r) ==
    /\ Loaded(r, "forgot")
    /\ Exists(tx[r].user)
    /\ Len(links) < MaxLinks
    /\ links' = Append(links, [user |-> tx[r].user, exists |-> TRUE, used |-> FALSE])
    /\ Leaves(r)
    /\ UNCHANGED <<users, sessions>>

(* Mutant: only the sessions that logins opened are listed. *)
ActiveSessionsOfLogins(u) ==
    {i \in DOMAIN sessions : /\ sessions[i].user = u /\ sessions[i].exists
                             /\ ~sessions[i].revoked /\ sessions[i].parent = Nobody}

(* revoke_active_sessions *)
ActiveSessions(u) ==
    {i \in DOMAIN sessions : /\ sessions[i].user = u /\ sessions[i].exists
                             /\ ~sessions[i].revoked}

(* Account and link are updated, then the active sessions are listed. *)
ListSessions(r) ==
    LET u == tx[r].user
    IN  /\ Loaded(r, "reset")
        /\ Exists(u) /\ links[tx[r].row].exists
        /\ ~ResetUnderWay(u)
        /\ Moves(r, [tx[r] EXCEPT !.at = "listed", !.listed = ActiveSessions(u),
                               !.resets = users[u].resets])
        /\ UNCHANGED <<users, sessions, links>>

CommitReset(r) ==
    /\ tx[r].at = "listed"
    /\ users' = [users EXCEPT ![tx[r].user].resets = @ + 1]
    /\ links' = [links EXCEPT ![tx[r].row].used = TRUE]
    /\ sessions' = [i \in DOMAIN sessions |->
                      IF i \in tx[r].listed THEN [sessions[i] EXCEPT !.revoked = TRUE]
                      ELSE sessions[i]]
    /\ Leaves(r)

(* Mutant: the sessions do not go with the account. *)
CascadeLinksOnly(u) ==
    /\ links' = [i \in DOMAIN links |->
                   [links[i] EXCEPT !.exists = @ /\ links[i].user # u]]
    /\ UNCHANGED sessions

(* ON DELETE CASCADE *)
Cascade(u) ==
    /\ sessions' = [i \in DOMAIN sessions |->
                      [sessions[i] EXCEPT !.exists = @ /\ sessions[i].user # u]]
    /\ links' = [i \in DOMAIN links |->
                   [links[i] EXCEPT !.exists = @ /\ links[i].user # u]]

CommitDelete(r) ==
    LET u == tx[r].user
    IN  /\ Loaded(r, "delete")
        /\ ~ResetUnderWay(u)
        /\ users' = [users EXCEPT ![u].exists = FALSE]
        /\ Cascade(u)
        /\ Leaves(r)

(* Refused on what was looked up, rolled back or broken off. *)
Leave(r) ==
    /\ tx[r].at # "idle"
    /\ Leaves(r)
    /\ UNCHANGED <<users, sessions, links>>

Begins(r) ==
    \/ BeginRegister(r)
    \/ \E command \in {"login", "forgot", "delete"} : BeginWithAccount(r, command)
    \/ \E i \in DOMAIN sessions : BeginRefresh(r, i) \/ BeginLogout(r, i)
    \/ \E i \in DOMAIN links : BeginReset(r, i)

Commits(r) ==
    \/ CommitRegister(r) \/ CommitLogin(r) \/ CommitRefresh(r) \/ CommitLogout(r)
    \/ CommitForgot(r) \/ ListSessions(r) \/ CommitReset(r) \/ CommitDelete(r)

Next == \E r \in Requests : Begins(r) \/ Commits(r) \/ Leave(r)

Spec == Init /\ [][Next]_vars

-----------------------------------------------------------------------------
(* Properties                                                              *)

TypeOK ==
    /\ users \in Seq(User) /\ sessions \in Seq(Session) /\ links \in Seq(Link)
    /\ tx \in [Requests -> [command: Commands \cup {"none"},
                            at: {"idle", "loaded", "listed"}, row: Nat, user: Nat,
                            resets: Nat, listed: SUBSET DOMAIN sessions]]
    /\ \A i \in DOMAIN sessions : sessions[i].user \in DOMAIN users

(* refresh_tokens finds the account by the e-mail in the token and not     *)
(* through the session.  Even when the account is deleted and the address  *)
(* registered again between the two lookups, a session is continued only   *)
(* within its account.                                                     *)
RefreshKeepsAccount ==
    \A i \in DOMAIN sessions :
       sessions[i].parent # Nobody => sessions[i].user = sessions[sessions[i].parent].user

(* Whatever overlaps the deletion of an account, no session that can be    *)
(* refreshed belongs to an account that is gone.                           *)
SessionsHaveAccounts ==
    \A i \in DOMAIN sessions : sessions[i].exists => Exists(sessions[i].user)

(* README: "Successful reset revokes active refresh sessions."  A session  *)
(* that outlived a reset of its account's password was opened or continued *)
(* by a request that overlapped that reset; the next reset ends it, too.   *)
(* (To overlap a reset that is then broken off counts as overlapping the   *)
(* one after it.)                                                          *)
ResetEndsSessions ==
    \A i \in DOMAIN sessions :
       sessions[i].exists /\ ~sessions[i].revoked
          => sessions[i].since >= users[sessions[i].user].resets
==============================================================================
