------------------------- MODULE AuthSessionsProofs -------------------------
(***************************************************************************)
(* What overlapping requests on the accounts and sessions of an e-mail     *)
(* address never break, for any number of requests, accounts, sessions and *)
(* reset links.                                                            *)
(***************************************************************************)
EXTENDS AuthSessions, SequenceTheorems, TLAPS

Transaction == [command: Commands \cup {"none"}, at: {"idle", "loaded", "listed"},
                row: Nat, user: Nat, resets: Nat, listed: SUBSET Nat]

(* A request that continues or ends a session has that session's row, one  *)
(* that resets a password has the row of its link.  A refresh found its    *)
(* session no older than the last reset it knows of.                       *)
RowsFound(t, S, L) ==
    /\ t.command \in {"refresh", "logout"} => t.row \in DOMAIN S
    /\ t.command = "refresh" =>
          /\ t.user = S[t.row].user
          /\ S[t.row].since >= t.resets
    /\ t.command = "reset" => t.row \in DOMAIN L

(* While a reset is under way, the account's active sessions that it has   *)
(* not listed may outlive it.                                              *)
ListingSound(t, S, n) ==
    t.at = "listed" =>
       /\ t.command = "reset" /\ t.user \in 1..n
       /\ \A i \in DOMAIN S :
             (S[i].user = t.user /\ S[i].exists /\ ~S[i].revoked /\ i \notin t.listed)
                => S[i].since > t.resets

RequestSound(t, S, L, n) ==
    /\ t \in Transaction
    /\ t.listed \subseteq DOMAIN S
    /\ RowsFound(t, S, L)
    /\ ListingSound(t, S, n)

(* At most one account has the e-mail. *)
OneAccount == \A u, v \in Accounts : u = v

SessionRows(S, n) ==
    \A i \in DOMAIN S :
       /\ S[i].user \in 1..n
       /\ S[i].parent # Nobody => S[i].parent \in DOMAIN S

LinkRows(L, n) == \A i \in DOMAIN L : L[i].user \in 1..n

(* The row lock of the account: one reset at a time, and while it is under *)
(* way no other is counted.                                                *)
ResetsExclusive ==
    \A r \in Requests : tx[r].at = "listed" =>
       /\ tx[r].resets = users[tx[r].user].resets
       /\ \A q \in Requests : tx[q].at = "listed" /\ tx[q].user = tx[r].user => q = r

(* The inductive invariant. *)
Inv ==
    /\ users \in Seq(User) /\ sessions \in Seq(Session) /\ links \in Seq(Link)
    /\ tx \in [Requests -> Transaction]
    /\ SessionRows(sessions, Len(users)) /\ LinkRows(links, Len(users))
    /\ \A r \in Requests : RequestSound(tx[r], sessions, links, Len(users))
    /\ ResetsExclusive
    /\ OneAccount
    /\ RefreshKeepsAccount
    /\ SessionsHaveAccounts
    /\ ResetEndsSessions
-----------------------------------------------------------------------------
(* Rows that stay                                                          *)

(* What no commit does to a session: move it to another account, or make   *)
(* it valid again.                                                         *)
Kept(S, T) ==
    /\ DOMAIN S \subseteq DOMAIN T
    /\ \A i \in DOMAIN S :
          /\ T[i].user = S[i].user /\ T[i].parent = S[i].parent
          /\ T[i].since = S[i].since
          /\ T[i].exists => S[i].exists
          /\ ~T[i].revoked => ~S[i].revoked

(* A new session of an account whose reset is under way may outlive it. *)
NewAreLate(t, S, T) ==
    t.at = "listed" =>
       \A i \in DOMAIN T \ DOMAIN S : T[i].user = t.user => T[i].since > t.resets

(* A request stays sound while others commit. *)
LEMMA SoundKept ==
    ASSUME NEW S, NEW T, Kept(S, T), NEW L, NEW M, DOMAIN L \subseteq DOMAIN M,
           NEW n \in Nat, NEW m \in Nat, n <= m, NEW t, RequestSound(t, S, L, n),
           NewAreLate(t, S, T)
    PROVE  RequestSound(t, T, M, m)
<1>1. t \in Transaction /\ t.listed \subseteq DOMAIN T
  BY DEF RequestSound, Kept
<1>2. RowsFound(t, T, M)
  BY DEF RequestSound, RowsFound, Kept
<1>3. ListingSound(t, T, m)
  <2> SUFFICES ASSUME t.at = "listed"
               PROVE  /\ t.command = "reset" /\ t.user \in 1..m
                      /\ \A i \in DOMAIN T :
                            (T[i].user = t.user /\ T[i].exists /\ ~T[i].revoked
                               /\ i \notin t.listed) => T[i].since > t.resets
    BY DEF ListingSound
  <2>1. t.command = "reset" /\ t.user \in 1..m
    BY DEF RequestSound, ListingSound
  <2>2. ASSUME NEW i \in DOMAIN T, T[i].user = t.user, T[i].exists, ~T[i].revoked,
               i \notin t.listed
        PROVE  T[i].since > t.resets
    <3>1. CASE i \in DOMAIN S
      BY <2>2, <3>1 DEF RequestSound, ListingSound, Kept
    <3>2. CASE i \notin DOMAIN S
      BY <2>2, <3>2 DEF NewAreLate
    <3> QED
      BY <3>1, <3>2
  <2> QED
    BY <2>1, <2>2
<1> QED
  BY <1>1, <1>2, <1>3 DEF RequestSound

(* The rows and the requests: the part of the invariant that is about      *)
(* what is stored and looked up.                                           *)
RowsInv ==
    /\ users \in Seq(User) /\ sessions \in Seq(Session) /\ links \in Seq(Link)
    /\ tx \in [Requests -> Transaction]
    /\ SessionRows(sessions, Len(users)) /\ LinkRows(links, Len(users))
    /\ \A r \in Requests : RequestSound(tx[r], sessions, links, Len(users))

SessionRow(x, S, n) ==
    /\ x.user \in 1..n
    /\ x.parent # Nobody => x.parent \in DOMAIN S

LEMMA SessionRowsKept ==
    ASSUME NEW S, NEW T, Kept(S, T), NEW n \in Nat, NEW m \in Nat, n <= m,
           SessionRows(S, n), \A i \in DOMAIN T \ DOMAIN S : SessionRow(T[i], S, n)
    PROVE  SessionRows(T, m)
<1> SUFFICES ASSUME NEW i \in DOMAIN T
             PROVE  T[i].user \in 1..m /\ (T[i].parent # Nobody => T[i].parent \in DOMAIN T)
  BY DEF SessionRows
<1>1. CASE i \in DOMAIN S
  BY <1>1 DEF SessionRows, Kept
<1>2. CASE i \notin DOMAIN S
  BY <1>2 DEF SessionRow, Kept
<1> QED
  BY <1>1, <1>2

(* A step of request r that keeps the rows keeps everybody sound. *)
LEMMA RowsKept ==
    ASSUME Inv, NEW r \in Requests, NEW t, Moves(r, t),
           users' \in Seq(User), sessions' \in Seq(Session), links' \in Seq(Link),
           Kept(sessions, sessions'), Len(users) <= Len(users'),
           DOMAIN links \subseteq DOMAIN links', LinkRows(links', Len(users')),
           RequestSound(t, sessions', links', Len(users')),
           \A i \in DOMAIN sessions' \ DOMAIN sessions :
              SessionRow(sessions'[i], sessions, Len(users)),
           \A q \in Requests : NewAreLate(tx[q], sessions, sessions')
    PROVE  RowsInv'
<1>1. Len(users) \in Nat /\ Len(users') \in Nat
  BY DEF Inv
<1>2. tx' = [tx EXCEPT ![r] = t] /\ tx \in [Requests -> Transaction] /\ t \in Transaction
  BY DEF Moves, Inv, RequestSound
<1>3. tx' \in [Requests -> Transaction]
  BY <1>2
<1>4. SessionRows(sessions', Len(users'))
  BY <1>1, SessionRowsKept DEF Inv
<1>5. ASSUME NEW q \in Requests
      PROVE  RequestSound(tx'[q], sessions', links', Len(users'))
  <2>1. CASE q = r
    BY <1>2, <2>1
  <2>2. CASE q # r
    <3>1. tx'[q] = tx[q]
      BY <1>2, <2>2
    <3>2. RequestSound(tx[q], sessions, links, Len(users))
      BY DEF Inv
    <3>3. RequestSound(tx[q], sessions', links', Len(users'))
      BY <1>1, <3>2, SoundKept
    <3> QED
      BY <3>1, <3>3
  <2> QED
    BY <2>1, <2>2
<1> QED
  BY <1>3, <1>4, <1>5 DEF RowsInv

(* Another request's reset stays the only one of its account, unless the   *)
(* step counts or begins one.                                              *)
LEMMA ExclusiveKept ==
    ASSUME Inv, NEW r \in Requests, NEW t, Moves(r, t),
           \A u \in DOMAIN users : users'[u].resets = users[u].resets,
           t.at = "listed" => t.resets = users'[t.user].resets /\ ~ResetUnderWay(t.user)
    PROVE  ResetsExclusive'
<1>1. /\ tx' = [tx EXCEPT ![r] = t] /\ tx \in [Requests -> Transaction]
      /\ users \in Seq(User)
  BY DEF Moves, Inv
<1>2. \A q \in Requests : tx'[q] = IF q = r THEN t ELSE tx[q]
  BY <1>1
<1>3. \A q \in Requests : tx[q].at = "listed" => tx[q].user \in DOMAIN users
  BY <1>1 DEF Inv, RequestSound, ListingSound
<1>4. \A q \in Requests : tx'[q].at = "listed" => tx'[q].resets = users'[tx'[q].user].resets
  BY <1>2, <1>3 DEF Inv, ResetsExclusive
<1>5. ASSUME NEW p \in Requests, NEW q \in Requests, tx'[p].at = "listed",
             tx'[q].at = "listed", tx'[q].user = tx'[p].user
      PROVE  q = p
  <2>1. CASE p # r /\ q # r
    BY <1>2, <1>5, <2>1 DEF Inv, ResetsExclusive
  <2>2. CASE p = r \/ q = r
    BY <1>2, <1>5, <2>2 DEF ResetUnderWay
  <2> QED
    BY <2>1, <2>2
<1> QED
  BY <1>4, <1>5 DEF ResetsExclusive

-----------------------------------------------------------------------------
(* The properties, when rows are kept                                      *)

Props == OneAccount /\ RefreshKeepsAccount /\ SessionsHaveAccounts /\ ResetEndsSessions

LEMMA InvParts == Inv <=> RowsInv /\ ResetsExclusive /\ Props
BY DEF Inv, RowsInv, Props

(* What a new session x must satisfy. *)
NewSessionSound(x) ==
    /\ x.parent # Nobody =>
          x.parent \in DOMAIN sessions /\ x.user = sessions[x.parent].user
    /\ Exists(x.user)
    /\ x.since >= users[x.user].resets

LEMMA PropsKept ==
    ASSUME Inv, users' = users, Kept(sessions, sessions'),
           \A i \in DOMAIN sessions' \ DOMAIN sessions : NewSessionSound(sessions'[i])
    PROVE  Props'
<1>1. Accounts' = Accounts /\ \A u : Exists(u)' = Exists(u)
  BY DEF Accounts, Exists
<1>2. OneAccount'
  BY <1>1 DEF Inv, OneAccount
<1>3. RefreshKeepsAccount'
  <2> SUFFICES ASSUME NEW i \in DOMAIN sessions', sessions'[i].parent # Nobody
               PROVE  sessions'[i].user = sessions'[sessions'[i].parent].user
    BY DEF RefreshKeepsAccount
  <2>1. CASE i \in DOMAIN sessions
    <3>1. /\ sessions[i].parent = sessions'[i].parent
          /\ sessions[i].parent \in DOMAIN sessions
          /\ sessions[i].user = sessions[sessions[i].parent].user
      BY <2>1 DEF Kept, Inv, SessionRows, RefreshKeepsAccount
    <3> QED
      BY <2>1, <3>1 DEF Kept
  <2>2. CASE i \notin DOMAIN sessions
    BY <2>2 DEF NewSessionSound, Kept
  <2> QED
    BY <2>1, <2>2
<1>4. SessionsHaveAccounts'
  <2> SUFFICES ASSUME NEW i \in DOMAIN sessions', sessions'[i].exists
               PROVE  sessions'[i].user \in Accounts
    BY <1>1 DEF SessionsHaveAccounts, Exists
  <2>1. CASE i \in DOMAIN sessions
    BY <2>1 DEF Kept, Inv, SessionsHaveAccounts, Exists
  <2>2. CASE i \notin DOMAIN sessions
    BY <2>2 DEF NewSessionSound, Exists
  <2> QED
    BY <2>1, <2>2
<1>5. ResetEndsSessions'
  <2> SUFFICES ASSUME NEW i \in DOMAIN sessions', sessions'[i].exists,
                      ~sessions'[i].revoked
               PROVE  sessions'[i].since >= users[sessions'[i].user].resets
    BY DEF ResetEndsSessions
  <2>1. CASE i \in DOMAIN sessions
    BY <2>1 DEF Kept, Inv, ResetEndsSessions
  <2>2. CASE i \notin DOMAIN sessions
    BY <2>2 DEF NewSessionSound
  <2> QED
    BY <2>1, <2>2
<1> QED
  BY <1>2, <1>3, <1>4, <1>5 DEF Props
(* The columns of the rows. *)
LEMMA RowColumns ==
    ASSUME Inv
    PROVE  /\ Len(users) \in Nat /\ Len(sessions) \in Nat /\ Len(links) \in Nat
           /\ DOMAIN users = 1..Len(users) /\ DOMAIN sessions = 1..Len(sessions)
           /\ DOMAIN links = 1..Len(links)
           /\ \A u \in DOMAIN users : users[u] \in User /\ users[u].resets \in Nat
           /\ \A i \in DOMAIN sessions : sessions[i] \in Session /\ sessions[i].since \in Nat
           /\ \A i \in DOMAIN links : links[i] \in Link
<1>1. users \in Seq(User) /\ sessions \in Seq(Session) /\ links \in Seq(Link)
  BY DEF Inv
<1>2. /\ \A u \in DOMAIN users : users[u] \in User
      /\ \A i \in DOMAIN sessions : sessions[i] \in Session
      /\ \A i \in DOMAIN links : links[i] \in Link
  BY <1>1
<1>3. \A x \in User : x.resets \in Nat
  BY DEF User
<1>4. \A x \in Session : x.since \in Nat
  BY DEF Session
<1> QED
  BY <1>1, <1>2, <1>3, <1>4

-----------------------------------------------------------------------------
(* Requests that commit nothing, or only a link                            *)

LEMMA KeptSame == ASSUME NEW S  PROVE Kept(S, S)
BY DEF Kept

LEMMA QuietInv ==
    ASSUME Inv, NEW r \in Requests, NEW t, Moves(r, t), UNCHANGED <<users, sessions>>,
           links' \in Seq(Link), DOMAIN links \subseteq DOMAIN links',
           LinkRows(links', Len(users)), RequestSound(t, sessions, links', Len(users)),
           t.at = "listed" => t.resets = users[t.user].resets /\ ~ResetUnderWay(t.user)
    PROVE  Inv'
<1>1. users \in Seq(User) /\ sessions \in Seq(Session) /\ Len(users) \in Nat
  BY DEF Inv
<1>2. Kept(sessions, sessions') /\ DOMAIN sessions' \ DOMAIN sessions = {}
  BY KeptSame
<1>3. \A q \in Requests : NewAreLate(tx[q], sessions, sessions')
  BY <1>2 DEF NewAreLate
<1>4. RowsInv'
  BY <1>1, <1>2, <1>3, RowsKept
<1>5. Props'
  BY <1>2, PropsKept
<1>6. ResetsExclusive'
  BY ExclusiveKept
<1> QED
  BY <1>4, <1>5, <1>6, InvParts DEF Inv, RowsInv, Props

(* An idle request is sound. *)
LEMMA IdleSound ==
    ASSUME NEW S, NEW L, NEW n
    PROVE  RequestSound(Idle, S, L, n) /\ Idle.at # "listed"
<1>1. Idle \in Transaction /\ Idle.command = "none" /\ Idle.at = "idle" /\ Idle.listed = {}
  BY DEF Idle, Transaction, Nobody
<1> QED
  BY <1>1 DEF RequestSound, RowsFound, ListingSound

LEMMA LeaveInv == ASSUME Inv, NEW r \in Requests, Leave(r)  PROVE Inv'
<1>1. RequestSound(Idle, sessions, links, Len(users)) /\ Idle.at # "listed"
  BY IdleSound
<1> QED
  BY <1>1, QuietInv DEF Leave, Leaves, Inv

(* A request that has just looked up the rows it needs. *)
LEMMA BeginInv ==
    ASSUME Inv, NEW r \in Requests, NEW command \in Commands, NEW row \in Nat,
           NEW user \in 0..Len(users), Begin(r, command, row, user),
           command \in {"refresh", "logout"} =>
              row \in DOMAIN sessions /\ sessions[row].exists /\ ~sessions[row].revoked
                /\ user = sessions[row].user,
           command = "reset" => row \in DOMAIN links
    PROVE  Inv'
<1>1. users \in Seq(User) /\ Len(users) \in Nat /\ DOMAIN users = 1..Len(users)
  BY DEF Inv
<1>2. Resets(user) \in Nat
  <2>1. \A u \in DOMAIN users : users[u].resets \in Nat
    BY RowColumns
  <2> QED
    BY <1>1, <2>1 DEF Resets, Nobody
<1>3. PICK t : t = [Idle EXCEPT !.command = command, !.at = "loaded", !.row = row,
                                !.user = user, !.resets = Resets(user)]
  OBVIOUS
<1>4. /\ t \in Transaction
      /\ t.command = command /\ t.at = "loaded" /\ t.row = row /\ t.user = user
      /\ t.resets = Resets(user) /\ t.listed = {}
  <2>1. user \in Nat
    BY <1>1
  <2>2. t = [command |-> command, at |-> "loaded", row |-> row, user |-> user,
             resets |-> Resets(user), listed |-> {}]
    BY <1>3 DEF Idle
  <2> QED
    BY <1>2, <2>1, <2>2 DEF Transaction
<1>5. RowsFound(t, sessions, links)
  <2>1. ASSUME command = "refresh"
        PROVE  sessions[row].since >= Resets(user)
    <3>1. row \in DOMAIN sessions /\ user = sessions[row].user /\ user \in DOMAIN users
          /\ sessions[row].exists /\ ~sessions[row].revoked
      BY <2>1, <1>1 DEF Inv, SessionRows
    <3>2. Resets(user) = users[user].resets
      BY <1>1, <3>1 DEF Resets, Nobody
    <3>3. sessions[row].since \in Nat
      BY <3>1, RowColumns
    <3> QED
      BY <1>2, <3>1, <3>2, <3>3 DEF Inv, ResetEndsSessions
  <2> QED
    BY <1>4, <2>1 DEF RowsFound
<1>6. RequestSound(t, sessions, links, Len(users))
  BY <1>4, <1>5 DEF RequestSound, ListingSound
<1> QED
  BY <1>3, <1>4, <1>6, QuietInv DEF Begin, Inv

LEMMA AccountFound ==
    ASSUME Inv
    PROVE  /\ Account \in 0..Len(users)
           /\ Account # Nobody => Exists(Account)
           /\ Account = Nobody => Accounts = {}
           /\ \A u : Exists(u) => u \in 1..Len(users) /\ u = Account
<1>1. DOMAIN users = 1..Len(users) /\ Len(users) \in Nat
  BY DEF Inv
<1>2. Accounts # {} => Account \in Accounts
  BY DEF Account
<1>3. Accounts \subseteq 1..Len(users)
  BY <1>1 DEF Accounts
<1>4. \A u \in Accounts : u = Account
  BY <1>2 DEF Inv, OneAccount
<1>5. Accounts = {} => Account = Nobody
  BY DEF Account
<1>6. Account \in 0..Len(users)
  <2>1. 0 \in 0..Len(users) /\ 1..Len(users) \subseteq 0..Len(users)
    BY <1>1
  <2> QED
    BY <1>2, <1>3, <1>5, <2>1 DEF Nobody
<1>7. Account = Nobody => Accounts = {}
  BY <1>2, <1>3 DEF Nobody
<1> QED
  BY <1>2, <1>3, <1>4, <1>5, <1>6, <1>7 DEF Exists

LEMMA BeginsInv == ASSUME Inv, NEW r \in Requests, Begins(r)  PROVE Inv'
<1>0. /\ DOMAIN sessions \subseteq Nat /\ DOMAIN links \subseteq Nat /\ Len(users) \in Nat
      /\ \A i \in DOMAIN sessions : sessions[i].user \in 0..Len(users)
      /\ \A i \in DOMAIN links : links[i].user \in 0..Len(users)
      /\ Nobody \in 0..Len(users) /\ Nobody \in Nat
  BY DEF Inv, SessionRows, LinkRows, Nobody
<1>1. CASE BeginRegister(r)
  BY <1>0, <1>1, BeginInv DEF BeginRegister, Commands
<1>2. CASE \E command \in {"login", "forgot", "delete"} : BeginWithAccount(r, command)
  <2>1. PICK command \in {"login", "forgot", "delete"} : BeginWithAccount(r, command)
    BY <1>2
  <2>2. command \in Commands /\ command \notin {"refresh", "logout", "reset"}
    BY DEF Commands
  <2>3. Account \in 0..Len(users)
    BY AccountFound
  <2> QED
    BY <1>0, <2>1, <2>2, <2>3, BeginInv DEF BeginWithAccount
<1>3. CASE \E i \in DOMAIN sessions : BeginRefresh(r, i) \/ BeginLogout(r, i)
  <2>1. PICK i \in DOMAIN sessions : BeginRefresh(r, i) \/ BeginLogout(r, i)
    BY <1>3
  <2>2. PICK command \in {"refresh", "logout"} :
           /\ sessions[i].exists /\ ~sessions[i].revoked
           /\ Begin(r, command, i, sessions[i].user)
    BY <2>1 DEF BeginRefresh, BeginLogout
  <2>3. command \in Commands /\ command # "reset" /\ i \in Nat
    BY <1>0, <2>2 DEF Commands
  <2> QED
    BY <1>0, <2>2, <2>3, BeginInv
<1>4. CASE \E i \in DOMAIN links : BeginReset(r, i)
  <2>1. PICK i \in DOMAIN links : BeginReset(r, i)
    BY <1>4
  <2>2. "reset" \in Commands /\ i \in Nat
    BY <1>0 DEF Commands
  <2> QED
    BY <1>0, <2>1, <2>2, BeginInv DEF BeginReset
<1> QED
  BY <1>1, <1>2, <1>3, <1>4 DEF Begins

LEMMA CommitForgotInv == ASSUME Inv, NEW r \in Requests, CommitForgot(r)  PROVE Inv'
<1>1. tx[r].user \in 1..Len(users) /\ links \in Seq(Link) /\ Len(users) \in Nat
  BY AccountFound DEF CommitForgot, Inv
<1>2. PICK k \in Link : k = [user |-> tx[r].user, exists |-> TRUE, used |-> FALSE]
  <2>0. PICK u \in Nat : u = tx[r].user
    BY <1>1
  <2>1. PICK yes \in BOOLEAN, no \in BOOLEAN : yes = TRUE /\ no = FALSE
    OBVIOUS
  <2>2. [user |-> u, exists |-> yes, used |-> no] \in Link
    BY DEF Link
  <2> QED
    BY <2>0, <2>1, <2>2
<1>3. links' = Append(links, k) /\ k.user \in 1..Len(users)
  BY <1>1, <1>2 DEF CommitForgot
<1>4. /\ links' \in Seq(Link) /\ Len(links') = Len(links) + 1
      /\ \A i \in 1..Len(links) : links'[i] = links[i]
      /\ links'[Len(links) + 1] = k
  BY <1>1, <1>3, AppendProperties
<1>5. /\ DOMAIN links = 1..Len(links) /\ DOMAIN links' = 1..Len(links') /\ Len(links) \in Nat
      /\ DOMAIN links \subseteq DOMAIN links'
  BY <1>1, <1>4
<1>6. LinkRows(links', Len(users))
  BY <1>3, <1>4, <1>5 DEF LinkRows, Inv
<1>7. RequestSound(Idle, sessions, links', Len(users)) /\ Idle.at # "listed"
  BY IdleSound
<1> QED
  BY <1>4, <1>5, <1>6, <1>7, QuietInv DEF CommitForgot, Leaves

(* A reset lists every active session of the account. *)
LEMMA ListSessionsInv == ASSUME Inv, NEW r \in Requests, ListSessions(r)  PROVE Inv'
<1>1. PICK u : u = tx[r].user
  OBVIOUS
<1>2. RequestSound(tx[r], sessions, links, Len(users)) /\ tx[r].command = "reset"
  BY DEF Inv, ListSessions, Loaded
<1>3. u \in 1..Len(users) /\ sessions \in Seq(Session)
  BY <1>1, AccountFound DEF ListSessions, Inv
<1>4. PICK t : t = [tx[r] EXCEPT !.at = "listed", !.listed = ActiveSessions(u),
                                !.resets = users[u].resets]
  OBVIOUS
<1>5. ActiveSessions(u) \subseteq DOMAIN sessions /\ DOMAIN sessions \subseteq Nat
  BY <1>3 DEF ActiveSessions
<1>6. /\ t \in Transaction /\ t.command = "reset" /\ t.user = u /\ t.row = tx[r].row
      /\ t.listed = ActiveSessions(u) /\ t.resets = users[u].resets
  <2>1. users[u].resets \in Nat
    BY <1>3, RowColumns
  <2> QED
    BY <1>1, <1>2, <1>4, <1>5, <2>1 DEF RequestSound, Transaction
<1>7. RowsFound(t, sessions, links)
  BY <1>2, <1>6 DEF RequestSound, RowsFound
<1>8. ListingSound(t, sessions, Len(users))
  BY <1>3, <1>6 DEF ListingSound, ActiveSessions
<1>9. RequestSound(t, sessions, links, Len(users))
  BY <1>5, <1>6, <1>7, <1>8 DEF RequestSound
<1> QED
  BY <1>1, <1>4, <1>6, <1>9, QuietInv DEF ListSessions, Inv
-----------------------------------------------------------------------------
(* Requests that change sessions                                           *)

(* A session x is added, the others stay what they are or lose validity. *)
LEMMA AddSessionInv ==
    ASSUME Inv, NEW r \in Requests, NEW S \in Seq(Session), DOMAIN S = DOMAIN sessions,
           Kept(sessions, S), NEW x \in Session, sessions' = Append(S, x),
           UNCHANGED <<users, links>>, Leaves(r), NewSessionSound(x),
           ResetUnderWay(x.user) => x.since > users[x.user].resets
    PROVE  Inv'
<1>1. /\ Len(S) \in Nat /\ DOMAIN S = 1..Len(S)
      /\ sessions' \in Seq(Session) /\ Len(sessions') = Len(S) + 1
      /\ \A i \in 1..Len(S) : sessions'[i] = S[i]
      /\ sessions'[Len(S) + 1] = x
  BY AppendProperties
<1>2. DOMAIN sessions' = 1..(Len(S) + 1)
  BY <1>1
<1>3. DOMAIN sessions \subseteq DOMAIN sessions'
  BY <1>1, <1>2
<1>4. \A i \in DOMAIN sessions' \ DOMAIN sessions : sessions'[i] = x
  BY <1>1, <1>2
<1>5. Kept(sessions, sessions')
  BY <1>1, <1>3 DEF Kept
<1>6. x.user \in 1..Len(users)
  BY AccountFound DEF NewSessionSound
<1>7. \A i \in DOMAIN sessions' \ DOMAIN sessions :
         SessionRow(sessions'[i], sessions, Len(users))
  BY <1>4, <1>6 DEF SessionRow, NewSessionSound
<1>8. \A q \in Requests : NewAreLate(tx[q], sessions, sessions')
  BY <1>4 DEF NewAreLate, ResetUnderWay, Inv, ResetsExclusive
<1>9. RequestSound(Idle, sessions', links', Len(users'))
  BY IdleSound
<1>10. users \in Seq(User) /\ links \in Seq(Link) /\ LinkRows(links, Len(users))
       /\ Len(users) <= Len(users)
  BY RowColumns DEF Inv
<1>11. RowsInv'
  BY <1>1, <1>5, <1>7, <1>8, <1>9, <1>10, RowsKept DEF Leaves
<1>12. Props'
  BY <1>4, <1>5, PropsKept
<1>13. ResetsExclusive'
  BY IdleSound, ExclusiveKept DEF Leaves
<1> QED
  BY <1>11, <1>12, <1>13 DEF Inv, RowsInv, Props

(* The columns of a new session. *)
LEMMA NewSessionColumns ==
    ASSUME Inv, NEW r \in Requests, NEW user \in DOMAIN users, NEW parent \in Nat,
           NEW since \in Nat, NEW x, x = NewSession(r, user, parent, since),
           since >= tx[r].resets, tx[r].resets \in Nat
    PROVE  /\ x \in Session
           /\ x.user = user /\ x.parent = parent
           /\ x.since >= users[user].resets
           /\ ResetUnderWay(user) => x.since > users[user].resets
<1>1. PICK yes \in BOOLEAN, no \in BOOLEAN : yes = TRUE /\ no = FALSE
  OBVIOUS
<1>2. PICK n : n = users[user].resets
  OBVIOUS
<1>3. n \in Nat /\ user \in Nat
  BY <1>2, RowColumns
<1>4. PICK k : k = IF ResetUnderWay(user) THEN n + 1 ELSE IF tx[r].resets # n THEN n ELSE since
  OBVIOUS
<1>5. k \in Nat /\ k >= n /\ (ResetUnderWay(user) => k > n)
  BY <1>3, <1>4
<1>6. x = [user |-> user, parent |-> parent, exists |-> yes, revoked |-> no, since |-> k]
  BY <1>1, <1>2, <1>4 DEF NewSession
<1>7. x \in Session
  BY <1>3, <1>5, <1>6 DEF Session
<1>8. x.user = user /\ x.parent = parent /\ x.since = k
  BY <1>6
<1> QED
  BY <1>2, <1>5, <1>7, <1>8

(* login: the new session knows of every reset so far, or overlapped it. *)
LEMMA CommitLoginInv == ASSUME Inv, NEW r \in Requests, CommitLogin(r)  PROVE Inv'
<1>1. PICK u, n : u = tx[r].user /\ n = tx[r].resets
  OBVIOUS
<1>2. u \in 1..Len(users) /\ u \in Nat /\ n \in Nat /\ Nobody \in Nat /\ Exists(u)
  <2>1. tx[r] \in Transaction
    BY DEF Inv
  <2>2. u \in Nat /\ n \in Nat
    BY <1>1, <2>1 DEF Transaction
  <2> QED
    BY <1>1, <2>2, AccountFound DEF CommitLogin, Nobody
<1>3. PICK x : x = NewSession(r, u, Nobody, n)
  OBVIOUS
<1>4. /\ x \in Session
      /\ x.user = u /\ x.parent = Nobody
      /\ x.since >= users[u].resets
      /\ ResetUnderWay(u) => x.since > users[u].resets
  <2>1. u \in DOMAIN users /\ n >= tx[r].resets
    BY <1>1, <1>2, RowColumns
  <2> QED
    BY <1>1, <1>2, <1>3, <2>1, NewSessionColumns
<1>5. NewSessionSound(x)
  BY <1>2, <1>4 DEF NewSessionSound
<1>6. sessions' = Append(sessions, x) /\ sessions \in Seq(Session)
  BY <1>1, <1>3 DEF CommitLogin, Inv
<1> QED
  BY <1>4, <1>5, <1>6, KeptSame, AddSessionInv DEF CommitLogin

(* Updating a row leaves the other rows alone. *)
LEMMA UpdatedRow ==
    ASSUME NEW R, NEW S \in Seq(R), NEW i \in DOMAIN S, NEW x \in R,
           NEW T, T = [S EXCEPT ![i] = x]
    PROVE  /\ T \in Seq(R) /\ Len(T) = Len(S) /\ DOMAIN T = DOMAIN S
           /\ \A j \in DOMAIN S : T[j] = IF j = i THEN x ELSE S[j]
<1>1. DOMAIN S = 1..Len(S) /\ Len(S) \in Nat
  BY LenProperties
<1>2. T \in Seq(R) /\ Len(T) = Len(S)
  BY <1>1, ExceptSeq
<1> QED
  BY <1>1, <1>2, LenProperties

(* Revoking a session keeps its other columns. *)
LEMMA RevokeKept ==
    ASSUME Inv, NEW row \in DOMAIN sessions,
           NEW S, S = [sessions EXCEPT ![row].revoked = TRUE]
    PROVE  S \in Seq(Session) /\ DOMAIN S = DOMAIN sessions /\ Kept(sessions, S)
<1>1. PICK x : x = [sessions[row] EXCEPT !.revoked = TRUE]
  OBVIOUS
<1>2. sessions[row] \in Session /\ sessions \in Seq(Session) /\ row \in 1..Len(sessions)
  BY RowColumns DEF Inv
<1>3. /\ x \in Session
      /\ x.user = sessions[row].user /\ x.parent = sessions[row].parent
      /\ x.since = sessions[row].since
      /\ x.exists = sessions[row].exists /\ x.revoked
  BY <1>1, <1>2 DEF Session
<1>4. S = [sessions EXCEPT ![row] = x]
  BY <1>1
<1>5. /\ S \in Seq(Session) /\ DOMAIN S = DOMAIN sessions
      /\ \A i \in DOMAIN sessions : S[i] = IF i = row THEN x ELSE sessions[i]
  <2>1. sessions \in Seq(Session) /\ x \in Session
    BY <1>2, <1>3
  <2>2. PICK T : T = [sessions EXCEPT ![row] = x]
    OBVIOUS
  <2>3. /\ T \in Seq(Session) /\ DOMAIN T = DOMAIN sessions
        /\ \A j \in DOMAIN sessions : T[j] = IF j = row THEN x ELSE sessions[j]
    BY <2>1, <2>2, UpdatedRow
  <2> QED
    BY <1>4, <2>2, <2>3
<1> QED
  BY <1>3, <1>5 DEF Kept

LEMMA CommitLogoutInv == ASSUME Inv, NEW r \in Requests, CommitLogout(r)  PROVE Inv'
<1>1. tx[r].row \in DOMAIN sessions
  BY DEF Inv, RequestSound, RowsFound, CommitLogout, Loaded
<1>2. /\ sessions' \in Seq(Session) /\ DOMAIN sessions' = DOMAIN sessions
      /\ Kept(sessions, sessions')
  BY <1>1, RevokeKept DEF CommitLogout
<1>3. RequestSound(Idle, sessions', links', Len(users'))
  BY IdleSound
<1>4. users \in Seq(User) /\ links \in Seq(Link) /\ LinkRows(links, Len(users))
       /\ Len(users) <= Len(users) /\ UNCHANGED <<users, links>>
  BY RowColumns DEF Inv, CommitLogout
<1>5. RowsInv'
  BY <1>2, <1>3, <1>4, RowsKept DEF CommitLogout, Leaves, NewAreLate
<1>6. Props'
  BY <1>2, <1>4, PropsKept
<1>7. ResetsExclusive'
  BY <1>4, IdleSound, ExclusiveKept DEF CommitLogout, Leaves
<1> QED
  BY <1>5, <1>6, <1>7 DEF Inv, RowsInv, Props

(* refresh: that the old session still exists makes the account found by   *)
(* e-mail the session's own.  The new session is as old as the one it      *)
(* continues, which was valid when the refresh began.                      *)
LEMMA CommitRefreshInv == ASSUME Inv, NEW r \in Requests, CommitRefresh(r)  PROVE Inv'
<1>1. PICK row, old : row = tx[r].row /\ old = sessions[row]
  OBVIOUS
<1>2. /\ tx[r] \in Transaction /\ row \in DOMAIN sessions /\ row \in Nat /\ old.exists
      /\ old.since >= tx[r].resets
  <2>1. tx[r] \in Transaction /\ row \in DOMAIN sessions
        /\ old.since >= tx[r].resets
    BY <1>1 DEF Inv, RequestSound, RowsFound, CommitRefresh, Loaded
  <2> QED
    BY <1>1, <2>1, RowColumns DEF CommitRefresh
<1>3. Exists(old.user) /\ Account = old.user /\ old.user \in 1..Len(users)
  BY <1>1, <1>2, AccountFound DEF Inv, SessionsHaveAccounts
<1>4. /\ old.since \in Nat /\ old.user \in Nat /\ users[old.user].resets \in Nat
      /\ tx[r].resets \in Nat
  <2>1. old \in Session /\ old.user \in DOMAIN users
    BY <1>1, <1>2, <1>3, RowColumns
  <2>2. old.since \in Nat /\ old.user \in Nat
    BY <2>1 DEF Session
  <2>3. tx[r].resets \in Nat
    BY <1>2 DEF Transaction
  <2> QED
    BY <2>1, <2>2, <2>3, RowColumns
<1>5. PICK S : S = [sessions EXCEPT ![row].revoked = TRUE]
  OBVIOUS
<1>6. S \in Seq(Session) /\ DOMAIN S = DOMAIN sessions /\ Kept(sessions, S)
  BY <1>2, <1>5, RevokeKept
<1>7. PICK x : x = NewSession(r, old.user, row, old.since)
  OBVIOUS
<1>8. /\ x \in Session
      /\ x.user = old.user /\ x.parent = row
      /\ x.since >= users[old.user].resets
      /\ ResetUnderWay(old.user) => x.since > users[old.user].resets
  <2>1. old.user \in DOMAIN users
    BY <1>3, RowColumns
  <2> QED
    BY <1>2, <1>4, <1>7, <2>1, NewSessionColumns
<1>9. NewSessionSound(x)
  BY <1>1, <1>2, <1>3, <1>4, <1>8 DEF NewSessionSound
<1>10. sessions' = Append(S, x)
  BY <1>1, <1>3, <1>5, <1>7 DEF CommitRefresh
<1> QED
  BY <1>6, <1>8, <1>9, <1>10, AddSessionInv DEF CommitRefresh
-----------------------------------------------------------------------------
(* Requests that change the account                                        *)

(* A row for every row. *)
LEMMA MappedRows ==
    ASSUME NEW R, NEW n \in Nat, NEW T \in [1..n -> R]
    PROVE  T \in Seq(R) /\ Len(T) = n /\ DOMAIN T = 1..n
OBVIOUS

(* register: while there is no account there are no sessions. *)
LEMMA CommitRegisterInv == ASSUME Inv, NEW r \in Requests, CommitRegister(r)  PROVE Inv'
<1>1. Accounts = {}
  BY AccountFound DEF CommitRegister, EmailFree
<1>2. PICK n : n = Len(users)
  OBVIOUS
<1>3. PICK x : x = [exists |-> TRUE, resets |-> 0]
  OBVIOUS
<1>4. x \in User
  <2>1. PICK yes \in BOOLEAN, zero \in Nat : yes = TRUE /\ zero = 0
    OBVIOUS
  <2>2. [exists |-> yes, resets |-> zero] \in User
    BY DEF User
  <2> QED
    BY <1>3, <2>1, <2>2
<1>5. /\ users \in Seq(User) /\ users' = Append(users, x) /\ n \in Nat
      /\ DOMAIN users = 1..n
  BY <1>2, <1>3, RowColumns DEF CommitRegister, Inv
<1>6. /\ users' \in Seq(User) /\ Len(users') = n + 1
      /\ \A u \in 1..n : users'[u] = users[u]
  BY <1>2, <1>4, <1>5, AppendProperties
<1>7. DOMAIN users' = 1..(n + 1) /\ n <= n + 1
  BY <1>5, <1>6
<1>8. sessions' = sessions /\ links' = links /\ Leaves(r)
  BY DEF CommitRegister
<1>9. LinkRows(links, n + 1)
  BY <1>2, <1>5 DEF Inv, LinkRows
<1>10. RequestSound(Idle, sessions', links', Len(users'))
  BY IdleSound
<1>11. sessions \in Seq(Session) /\ links \in Seq(Link) /\ Kept(sessions, sessions)
  BY KeptSame DEF Inv
<1>12. RowsInv'
  BY <1>2, <1>6, <1>7, <1>8, <1>9, <1>10, <1>11, RowsKept DEF Leaves, NewAreLate
<1>13. \A u \in Accounts' : u = n + 1
  BY <1>1, <1>5, <1>6, <1>7 DEF Accounts
<1>14. \A i \in DOMAIN sessions : ~sessions[i].exists
  BY <1>1 DEF Inv, SessionsHaveAccounts, Exists
<1>15. OneAccount'
  BY <1>13 DEF OneAccount
<1>16. RefreshKeepsAccount'
  BY <1>8 DEF Inv, RefreshKeepsAccount
<1>17. SessionsHaveAccounts' /\ ResetEndsSessions'
  BY <1>8, <1>14 DEF SessionsHaveAccounts, ResetEndsSessions
<1>18. ResetsExclusive'
  BY <1>5, <1>6, <1>8, IdleSound, ExclusiveKept DEF Leaves
<1> QED
  BY <1>12, <1>15, <1>16, <1>17, <1>18 DEF Inv, RowsInv

(* reset_password: the listed sessions are revoked with the commit, those  *)
(* opened since the listing may outlive this reset.                        *)
LEMMA CommitResetInv == ASSUME Inv, NEW r \in Requests, CommitReset(r)  PROVE Inv'
<1>1. PICK u, row, n, listed : /\ u = tx[r].user /\ row = tx[r].row /\ n = Len(users)
                               /\ listed = tx[r].listed
  OBVIOUS
<1>2. /\ u \in 1..n /\ n \in Nat /\ DOMAIN users = 1..n /\ users \in Seq(User)
      /\ row \in DOMAIN links /\ links \in Seq(Link)
      /\ \A i \in DOMAIN sessions :
            (sessions[i].user = u /\ sessions[i].exists /\ ~sessions[i].revoked
               /\ i \notin listed) => sessions[i].since > users[u].resets
  <2>1. RequestSound(tx[r], sessions, links, Len(users)) /\ tx[r].at = "listed"
        /\ tx[r].resets = users[u].resets
    BY <1>1 DEF Inv, ResetsExclusive, CommitReset
  <2> QED
    BY <1>1, <2>1, RowColumns DEF Inv, RequestSound, RowsFound, ListingSound
<1>3. PICK x, y : /\ x = [users[u] EXCEPT !.resets = @ + 1]
                  /\ y = [links[row] EXCEPT !.used = TRUE]
  OBVIOUS
<1>4. users[u] \in User /\ links[row] \in Link
  BY <1>2, RowColumns
<1>5. x \in User /\ x.exists = users[u].exists /\ x.resets = users[u].resets + 1
  BY <1>3, <1>4 DEF User
<1>6. y \in Link /\ y.user = links[row].user
  BY <1>3, <1>4 DEF Link
<1>7. /\ users' = [users EXCEPT ![u] = x] /\ links' = [links EXCEPT ![row] = y]
      /\ sessions' = [i \in DOMAIN sessions |->
                        IF i \in listed THEN [sessions[i] EXCEPT !.revoked = TRUE]
                        ELSE sessions[i]]
      /\ Leaves(r)
  BY <1>1, <1>3 DEF CommitReset
<1>8. /\ users' \in Seq(User) /\ Len(users') = n /\ DOMAIN users' = DOMAIN users
      /\ \A v \in DOMAIN users : users'[v] = IF v = u THEN x ELSE users[v]
  BY <1>1, <1>2, <1>5, <1>7, UpdatedRow
<1>9. /\ links' \in Seq(Link) /\ DOMAIN links' = DOMAIN links
      /\ \A j \in DOMAIN links : links'[j] = IF j = row THEN y ELSE links[j]
  BY <1>2, <1>6, <1>7, UpdatedRow
<1>10. \A i \in DOMAIN sessions :
          /\ sessions'[i] \in Session
          /\ sessions'[i].user = sessions[i].user
          /\ sessions'[i].parent = sessions[i].parent
          /\ sessions'[i].since = sessions[i].since
          /\ sessions'[i].exists = sessions[i].exists
          /\ ~sessions'[i].revoked => ~sessions[i].revoked /\ i \notin listed
  <2> SUFFICES ASSUME NEW i \in DOMAIN sessions
               PROVE  /\ sessions'[i] \in Session
                      /\ sessions'[i].user = sessions[i].user
                      /\ sessions'[i].parent = sessions[i].parent
                      /\ sessions'[i].since = sessions[i].since
                      /\ sessions'[i].exists = sessions[i].exists
                      /\ ~sessions'[i].revoked => ~sessions[i].revoked /\ i \notin listed
    OBVIOUS
  <2>1. sessions[i] \in Session
    BY RowColumns
  <2>2. CASE i \in listed
    <3>1. sessions'[i] = [sessions[i] EXCEPT !.revoked = TRUE]
      BY <1>7, <2>2
    <3> QED
      BY <2>1, <3>1 DEF Session
  <2>3. CASE i \notin listed
    <3>1. sessions'[i] = sessions[i]
      BY <1>7, <2>3
    <3> QED
      BY <2>1, <2>3, <3>1
  <2> QED
    BY <2>2, <2>3
<1>11. DOMAIN sessions' = DOMAIN sessions
  BY <1>7
<1>12. sessions' \in Seq(Session)
  <2>1. DOMAIN sessions = 1..Len(sessions) /\ Len(sessions) \in Nat
    BY RowColumns
  <2>2. sessions' \in [1..Len(sessions) -> Session]
    BY <1>7, <1>10, <2>1
  <2> QED
    BY <2>1, <2>2, MappedRows
<1>13. Kept(sessions, sessions')
  BY <1>10, <1>11 DEF Kept
<1>14. LinkRows(links', n)
  BY <1>1, <1>6, <1>9 DEF Inv, LinkRows
<1>15. RequestSound(Idle, sessions', links', Len(users'))
  BY IdleSound
<1>16. RowsInv'
  <2>1. Len(users) <= Len(users') /\ LinkRows(links', Len(users'))
    BY <1>1, <1>2, <1>8, <1>14
  <2>2. DOMAIN sessions' \ DOMAIN sessions = {} /\ DOMAIN links \subseteq DOMAIN links'
    BY <1>9, <1>11
  <2>3. \A q \in Requests : NewAreLate(tx[q], sessions, sessions')
    BY <2>2 DEF NewAreLate
  <2>4. Moves(r, Idle) /\ users' \in Seq(User) /\ links' \in Seq(Link)
    BY <1>7, <1>8, <1>9 DEF Leaves
  <2> QED
    BY <1>12, <1>13, <1>15, <2>1, <2>2, <2>3, <2>4, RowsKept
<1>17. Accounts' = Accounts
  BY <1>5, <1>8 DEF Accounts
<1>18. OneAccount'
  BY <1>17 DEF Inv, OneAccount
<1>19. RefreshKeepsAccount'
  BY <1>10, <1>11 DEF Inv, RefreshKeepsAccount, SessionRows
<1>20. SessionsHaveAccounts'
  BY <1>10, <1>11, <1>17 DEF Inv, SessionsHaveAccounts, Exists
<1>21. ResetEndsSessions'
  <2> SUFFICES ASSUME NEW i \in DOMAIN sessions, sessions'[i].exists,
                      ~sessions'[i].revoked
               PROVE  sessions'[i].since >= users'[sessions'[i].user].resets
    BY <1>11 DEF ResetEndsSessions
  <2>1. sessions[i].exists /\ ~sessions[i].revoked /\ i \notin listed
    BY <1>10
  <2>2. CASE sessions[i].user = u
    <3>1. sessions[i].since > users[u].resets
      BY <1>2, <2>1, <2>2
    <3>2. sessions[i].since \in Nat /\ users[u].resets \in Nat
      BY <1>2, RowColumns
    <3>3. users'[u].resets = users[u].resets + 1
      BY <1>2, <1>5, <1>8
    <3> QED
      BY <1>10, <2>2, <3>1, <3>2, <3>3
  <2>3. CASE sessions[i].user # u
    <3>1. sessions[i].user \in DOMAIN users
      BY <1>1, <1>2 DEF Inv, SessionRows
    <3>2. users'[sessions[i].user] = users[sessions[i].user]
      BY <1>8, <2>3, <3>1
    <3> QED
      BY <1>10, <2>1, <3>2 DEF Inv, ResetEndsSessions
  <2> QED
    BY <2>2, <2>3
<1>22. ResetsExclusive'
  <2>1. tx' = [tx EXCEPT ![r] = Idle] /\ tx \in [Requests -> Transaction]
    BY <1>7 DEF Leaves, Moves, Inv
  <2>2. ASSUME NEW q \in Requests, tx'[q].at = "listed"
        PROVE  /\ q # r /\ tx'[q] = tx[q]
               /\ users'[tx[q].user].resets = users[tx[q].user].resets
    <3>1. q # r /\ tx'[q] = tx[q]
      BY <2>1, <2>2, IdleSound
    <3>2. tx[q].user # u /\ tx[q].user \in DOMAIN users
      BY <1>1, <1>2, <2>2, <3>1 DEF Inv, ResetsExclusive, RequestSound, ListingSound, CommitReset
    <3> QED
      BY <1>8, <3>1, <3>2
  <2> QED
    BY <2>2 DEF Inv, ResetsExclusive
<1> QED
  BY <1>16, <1>18, <1>19, <1>20, <1>21, <1>22 DEF Inv, RowsInv
(* delete_auth_user: the sessions of the account go with it. *)
LEMMA CommitDeleteInv == ASSUME Inv, NEW r \in Requests, CommitDelete(r)  PROVE Inv'
<1>1. PICK u, n : u = tx[r].user /\ n = Len(users)
  OBVIOUS
<1>2. /\ n \in Nat /\ DOMAIN users = 1..n /\ users \in Seq(User) /\ links \in Seq(Link)
      /\ sessions \in Seq(Session)
  BY <1>1, RowColumns DEF Inv
<1>3. /\ users' = [users EXCEPT ![u].exists = FALSE]
      /\ sessions' = [i \in DOMAIN sessions |->
                        [sessions[i] EXCEPT !.exists = @ /\ sessions[i].user # u]]
      /\ links' = [i \in DOMAIN links |->
                     [links[i] EXCEPT !.exists = @ /\ links[i].user # u]]
      /\ Leaves(r)
  BY <1>1 DEF CommitDelete, Cascade
<1>4. /\ DOMAIN users' = DOMAIN users
      /\ \A v \in DOMAIN users :
            /\ users'[v] \in User /\ users'[v].resets = users[v].resets
            /\ users'[v].exists => v # u /\ users[v].exists
            /\ v # u /\ users[v].exists => users'[v].exists
  <2>1. DOMAIN users' = DOMAIN users
    BY <1>3
  <2>2. ASSUME NEW v \in DOMAIN users
        PROVE  /\ users'[v] \in User /\ users'[v].resets = users[v].resets
               /\ users'[v].exists => v # u /\ users[v].exists
               /\ v # u /\ users[v].exists => users'[v].exists
    <3>1. users[v] \in User
      BY RowColumns
    <3>2. CASE v = u
      <4>1. users'[v] = [users[v] EXCEPT !.exists = FALSE]
        BY <1>3, <3>2
      <4> QED
        BY <3>1, <3>2, <4>1 DEF User
    <3>3. CASE v # u
      <4>1. users'[v] = users[v]
        BY <1>3, <3>3
      <4> QED
        BY <3>1, <3>3, <4>1
    <3> QED
      BY <3>2, <3>3
  <2> QED
    BY <2>1, <2>2
<1>5. users' \in Seq(User) /\ Len(users') = n
  <2>1. users' \in [1..n -> User]
    BY <1>2, <1>3, <1>4
  <2> QED
    BY <1>2, <2>1, MappedRows
<1>6. /\ DOMAIN sessions' = DOMAIN sessions
      /\ \A i \in DOMAIN sessions :
            /\ sessions'[i] \in Session
            /\ sessions'[i].user = sessions[i].user
            /\ sessions'[i].parent = sessions[i].parent
            /\ sessions'[i].since = sessions[i].since
            /\ sessions'[i].exists => sessions[i].exists /\ sessions[i].user # u
            /\ ~sessions'[i].revoked => ~sessions[i].revoked
  <2>1. DOMAIN sessions' = DOMAIN sessions
    BY <1>3
  <2>2. ASSUME NEW i \in DOMAIN sessions
        PROVE  /\ sessions'[i] \in Session
               /\ sessions'[i].user = sessions[i].user
               /\ sessions'[i].parent = sessions[i].parent
               /\ sessions'[i].since = sessions[i].since
               /\ sessions'[i].exists => sessions[i].exists /\ sessions[i].user # u
               /\ ~sessions'[i].revoked => ~sessions[i].revoked
    <3>1. sessions[i] \in Session
      BY RowColumns
    <3>2. PICK there \in BOOLEAN : there = (sessions[i].exists /\ sessions[i].user # u)
      OBVIOUS
    <3>3. sessions'[i] = [sessions[i] EXCEPT !.exists = there]
      BY <1>3, <3>2
    <3> QED
      BY <3>1, <3>2, <3>3 DEF Session
  <2> QED
    BY <2>1, <2>2
<1>7. sessions' \in Seq(Session)
  <2>1. DOMAIN sessions = 1..Len(sessions) /\ Len(sessions) \in Nat
    BY RowColumns
  <2>2. sessions' \in [1..Len(sessions) -> Session]
    BY <1>3, <1>6, <2>1
  <2> QED
    BY <2>1, <2>2, MappedRows
<1>8. /\ DOMAIN links' = DOMAIN links
      /\ \A i \in DOMAIN links : links'[i] \in Link /\ links'[i].user = links[i].user
  <2>1. DOMAIN links' = DOMAIN links
    BY <1>3
  <2>2. ASSUME NEW i \in DOMAIN links
        PROVE  links'[i] \in Link /\ links'[i].user = links[i].user
    <3>1. links[i] \in Link
      BY RowColumns
    <3>2. PICK there \in BOOLEAN : there = (links[i].exists /\ links[i].user # u)
      OBVIOUS
    <3>3. links'[i] = [links[i] EXCEPT !.exists = there]
      BY <1>3, <3>2
    <3> QED
      BY <3>1, <3>3 DEF Link
  <2> QED
    BY <2>1, <2>2
<1>9. links' \in Seq(Link)
  <2>1. DOMAIN links = 1..Len(links) /\ Len(links) \in Nat
    BY RowColumns
  <2>2. links' \in [1..Len(links) -> Link]
    BY <1>3, <1>8, <2>1
  <2> QED
    BY <2>1, <2>2, MappedRows
<1>10. RowsInv'
  <2>1. Len(users) <= Len(users') /\ LinkRows(links', Len(users'))
    BY <1>1, <1>2, <1>5, <1>8 DEF Inv, LinkRows
  <2>2. DOMAIN sessions' \ DOMAIN sessions = {} /\ DOMAIN links \subseteq DOMAIN links'
    BY <1>6, <1>8
  <2>3. \A q \in Requests : NewAreLate(tx[q], sessions, sessions')
    BY <2>2 DEF NewAreLate
  <2>4. Moves(r, Idle) /\ users' \in Seq(User) /\ Kept(sessions, sessions')
    BY <1>3, <1>5, <1>6 DEF Leaves, Kept
  <2>5. RequestSound(Idle, sessions', links', Len(users'))
    BY IdleSound
  <2> QED
    BY <1>7, <1>9, <2>1, <2>2, <2>3, <2>4, <2>5, RowsKept
<1>11. OneAccount'
  BY <1>4 DEF Inv, OneAccount, Accounts
<1>12. RefreshKeepsAccount'
  <2> SUFFICES ASSUME NEW i \in DOMAIN sessions, sessions'[i].parent # Nobody
               PROVE  sessions'[i].user = sessions'[sessions'[i].parent].user
    BY <1>6 DEF RefreshKeepsAccount
  <2>1. PICK p : p = sessions[i].parent
    OBVIOUS
  <2>2. sessions'[i].parent = p /\ p \in DOMAIN sessions
        /\ sessions[i].user = sessions[p].user
    BY <1>6, <2>1 DEF Inv, RefreshKeepsAccount, SessionRows
  <2> QED
    BY <1>6, <2>2
<1>13. SessionsHaveAccounts'
  <2> SUFFICES ASSUME NEW i \in DOMAIN sessions, sessions'[i].exists
               PROVE  sessions[i].user \in Accounts'
    BY <1>6 DEF SessionsHaveAccounts, Exists
  <2>1. sessions[i].user \in Accounts /\ sessions[i].user # u
    BY <1>6 DEF Inv, SessionsHaveAccounts, Exists
  <2> QED
    BY <1>4, <2>1 DEF Accounts
<1>14. ResetEndsSessions'
  <2> SUFFICES ASSUME NEW i \in DOMAIN sessions, sessions'[i].exists,
                      ~sessions'[i].revoked
               PROVE  sessions'[i].since >= users'[sessions'[i].user].resets
    BY <1>6 DEF ResetEndsSessions
  <2>1. sessions[i].user \in DOMAIN users
    BY <1>1, <1>2 DEF Inv, SessionRows
  <2>2. users'[sessions[i].user].resets = users[sessions[i].user].resets
    BY <1>4, <2>1
  <2> QED
    BY <1>6, <2>2 DEF Inv, ResetEndsSessions
<1>15. ResetsExclusive'
  BY <1>3, <1>4, IdleSound, ExclusiveKept DEF Leaves
<1> QED
  BY <1>10, <1>11, <1>12, <1>13, <1>14, <1>15 DEF Inv, RowsInv

-----------------------------------------------------------------------------
(* Theorems                                                                *)

LEMMA InitInv == ASSUME Init  PROVE Inv
<1>1. users \in Seq(User) /\ sessions \in Seq(Session) /\ links \in Seq(Link)
      /\ DOMAIN users = {} /\ DOMAIN sessions = {} /\ DOMAIN links = {}
  BY DEF Init
<1>2. \A S, L, n : RequestSound(Idle, S, L, n)
  BY IdleSound
<1>3. tx \in [Requests -> Transaction]
      /\ \A r \in Requests : RequestSound(tx[r], sessions, links, Len(users))
  BY <1>2 DEF Init, RequestSound
<1>4. SessionRows(sessions, Len(users)) /\ LinkRows(links, Len(users))
  BY <1>1 DEF SessionRows, LinkRows
<1>5. OneAccount /\ RefreshKeepsAccount /\ SessionsHaveAccounts /\ ResetEndsSessions
  BY <1>1 DEF OneAccount, Accounts, RefreshKeepsAccount, SessionsHaveAccounts,
              ResetEndsSessions
<1>6. ResetsExclusive
  BY IdleSound DEF Init, ResetsExclusive
<1> QED
  BY <1>1, <1>3, <1>4, <1>5, <1>6 DEF Inv

LEMMA NextInv == ASSUME Inv, NEW r \in Requests, Begins(r) \/ Commits(r) \/ Leave(r)
                 PROVE  Inv'
BY BeginsInv, LeaveInv, CommitRegisterInv, CommitLoginInv, CommitRefreshInv,
   CommitLogoutInv, CommitForgotInv, ListSessionsInv, CommitResetInv, CommitDeleteInv
   DEF Commits

LEMMA StutterInv == ASSUME Inv, UNCHANGED vars  PROVE Inv'
<1>1. users' = users /\ sessions' = sessions /\ links' = links /\ tx' = tx
  BY DEF vars
<1>2. Accounts' = Accounts
  BY <1>1 DEF Accounts
<1> QED
  BY <1>1, <1>2 DEF Inv, ResetsExclusive, OneAccount, RefreshKeepsAccount,
                    SessionsHaveAccounts, ResetEndsSessions, Exists

(* However requests on the accounts and sessions overlap. *)
THEOREM AuthSafety == Spec => []Inv
<1>1. Init => Inv
  BY InitInv
<1>2. Inv /\ [Next]_vars => Inv'
  BY NextInv, StutterInv DEF Next
<1> QED
  BY <1>1, <1>2, PTL DEF Spec

(* refresh_tokens continues a session only within its account, although it *)
(* finds the account by the e-mail in the token.                           *)
THEOREM RefreshStaysInAccount == Spec => []RefreshKeepsAccount
BY AuthSafety, PTL DEF Inv

(* No session outlives its account: login and refresh_tokens never commit  *)
(* one for an account that delete_auth_user has removed meanwhile.         *)
THEOREM NoSessionWithoutAccount == Spec => []SessionsHaveAccounts
BY AuthSafety, PTL DEF Inv

(* Once reset_password has committed, the sessions from before it are not  *)
(* valid any more, except those opened or continued by a request that      *)
(* overlapped it.                                                          *)
THEOREM ResetRevokesSessions == Spec => []ResetEndsSessions
BY AuthSafety, PTL DEF Inv

(* Rows and requests keep their types, and every session names an account. *)
THEOREM AuthTypeCorrect == Spec => []TypeOK
<1>1. Inv => TypeOK
  <2> SUFFICES ASSUME Inv  PROVE TypeOK
    OBVIOUS
  <2>1. \A i \in DOMAIN sessions : sessions[i].user \in DOMAIN users
    BY RowColumns DEF Inv, SessionRows
  <2>2. \A r \in Requests : tx[r] \in Transaction /\ tx[r].listed \subseteq DOMAIN sessions
    BY DEF Inv, RequestSound
  <2>3. \A r \in Requests :
           tx[r] \in [command: Commands \cup {"none"}, at: {"idle", "loaded", "listed"},
                      row: Nat, user: Nat, resets: Nat, listed: SUBSET DOMAIN sessions]
    BY <2>2 DEF Transaction
  <2> QED
    BY <2>1, <2>3 DEF Inv, TypeOK
<1> QED
  BY <1>1, AuthSafety, PTL
==============================================================================
