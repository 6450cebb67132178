------------------------------- MODULE Access --------------------------------
(***************************************************************************)
(* Signing in with Google, sessions, and who owns what (app/auth.py,       *)
(* app/action_csrf.py, the OAuth part of app/gmail.py and their routes in  *)
(* app/main.py).  Browsers keep two cookies and may have several requests  *)
(* under way.  A request reads in one step and commits in a later one; a   *)
(* commit works on what its transaction read and fails when it would break *)
(* a unique key.                                                           *)
(*                                                                         *)
(* Before sign-in existed, one user, Demo, had connected Gmail accounts.   *)
(* The first of their holders to sign in takes over the mail that was      *)
(* imported then.                                                          *)
(***************************************************************************)
CONSTANTS
    None,
    Browsers,
    Requests,    \* web requests under way
    Sessions,    \* bound: rows of user_sessions
    States,      \* bound: rows of gmail_oauth_states
    People,      \* bound: rows of users, without the demo user
    OldPeople,   \* users from before google_subject
    Demo,
    Subjects,    \* Google accounts
    Addresses,
    Holder,      \* of an address: the account it belongs to at first
    Movable,     \* which other account may be given which address
    OldAddresses,  \* those the demo user had connected
    FirstAddress,
    Mail,        \* messages imported for the demo user
    Owner        \* of a message: the account whose mailbox it is in

Users == People \cup {Demo}

ASSUME AccessAssumption ==
    /\ Demo \notin People /\ OldPeople \subseteq People
    /\ None \notin Users \cup Subjects \cup Addresses \cup Sessions
                   \cup States
    /\ Holder \in [Addresses -> Subjects]
    /\ OldAddresses \subseteq Addresses
    /\ Owner \in [Mail -> Subjects]
    /\ FirstAddress \in [OldPeople -> Addresses]
    /\ \A p, r \in OldPeople : p # r => FirstAddress[p] # FirstAddress[r]

VARIABLES
    address,    \* of each Google account, now
    data,       \* users, connected accounts, and who has a copy of a message
    states,
    sessions,
    jar,        \* the cookies of a browser: its session, its OAuth state
    page,       \* the session that the form in a browser was rendered for
    request,
    passed,     \* history: addresses that went to another account
    signed,     \* history: which account signed in as which user
    left        \* history: sessions that were signed out or replaced

web  == <<states, sessions, jar, page, request>>
vars == <<address, data, web, passed, signed, left>>

NoUser == [email |-> None, subject |-> None]

Tables == [users : [People -> [email : Addresses \cup {None},
                               subject : Subjects \cup {None}]],
           accounts : SUBSET (Users \X Addresses),
           mail : [Mail -> SUBSET Users]]

NoTables == [users |-> [p \in People |-> NoUser], accounts |-> {},
             mail |-> [m \in Mail |-> {}]]

(* "tested" to "storing" are complete_oauth, "leaving" is disconnect_gmail.*)
Stages == {"idle", "tested", "exchanging", "known", "storing",
           "revoking", "creating", "answering", "leaving"}

Idle == [stage |-> "idle", by |-> None, cookie |-> None, state |-> None,
         subject |-> None, address |-> None, seen |-> NoTables,
         user |-> None, session |-> None]

Asks == [stage : Stages, by : Browsers \cup {None},
         cookie : Sessions \cup {None}, state : States \cup {None},
         subject : Subjects \cup {None}, address : Addresses \cup {None},
         seen : Tables, user : Users \cup {None},
         session : Sessions \cup {None}]

(* A cookie's session is a row.                                            *)
Made(s) == s = None \/ sessions[s].status # "free"

TypeOK ==
    /\ address \in [Subjects -> Addresses]
    /\ data \in Tables
    /\ states \in [States -> {"new", "open", "closed"}]
    /\ sessions \in [Sessions ->
                       [user : Users \cup {None},
                        status : {"free", "live", "ended"}]]
    /\ jar \in [Browsers -> [session : Sessions \cup {None},
                             state : States \cup {None}]]
    /\ page \in [Browsers -> Sessions \cup {None}]
    /\ request \in [Requests -> Asks]
    /\ passed \subseteq Subjects \X Addresses
    /\ signed \subseteq Subjects \X People
    /\ left \subseteq Sessions
    /\ \A b \in Browsers : Made(jar[b].session) /\ Made(page[b])
    /\ \A q \in Requests : Made(request[q].cookie) /\ Made(request[q].session)
    /\ \A s \in left : Made(s)

Init ==
    /\ address \in {f \in [Subjects -> Addresses] :
                      \A s \in Subjects : Holder[f[s]] = s}
    /\ data = [users |-> [p \in People |->
                            IF p \in OldPeople
                              THEN [email |-> FirstAddress[p],
                                    subject |-> None]
                              ELSE NoUser],
               accounts |-> {<<Demo, a>> : a \in OldAddresses},
               mail |-> [m \in Mail |-> {Demo}]]
    /\ states = [t \in States |-> "new"]
    /\ sessions = [s \in Sessions |-> [user |-> None, status |-> "free"]]
    /\ jar = [b \in Browsers |-> [session |-> None, state |-> None]]
    /\ page = [b \in Browsers |-> None]
    /\ request = [q \in Requests |-> Idle]
    /\ passed = {}
    /\ signed = {}
    /\ left = {}

Becomes(q, ask) == request' = [request EXCEPT ![q] = ask]

-----------------------------------------------------------------------------
(* The owner checks of the routes.                                         *)

Live(s) == s # None /\ sessions[s].status = "live"

(* The user a request with this cookie is served as, if any.               *)
CurrentUser(s) == IF Live(s) THEN sessions[s].user ELSE None

Personal(s) == CurrentUser(s) \notin {None, Demo}

(* Pages show a user the own messages, and in the demo only demo messages, *)
(* which these are not.                                                    *)
Owns(user, m) == user \in data.mail[m] /\ user # Demo

(* Fault: the form carries no token.                                       *)
AcceptsAny(b) == page[b] # None /\ Personal(jar[b].session)

(* The form in the browser is accepted: its token is that of the cookie.   *)
Accepts(b) ==
    /\ page[b] # None
    /\ page[b] = jar[b].session
    /\ Personal(jar[b].session)

-----------------------------------------------------------------------------
(* GET /auth/google/start and the callback up to the exchange.             *)

Start(b) ==
    \E t \in States :
        /\ states[t] = "new"
        /\ states' = [states EXCEPT ![t] = "open"]
        /\ jar' = [jar EXCEPT ![b] = [session |-> jar[b].session,
                                      state |-> t]]
        /\ UNCHANGED <<address, data, sessions, page, request,
                   passed, signed, left>>

(* Google sends the browser back with a state.  It has to be the one of    *)
(* the cookie, and the row must be unused.                                 *)
Callback(q, b) ==
    LET t == jar[b].state IN
    /\ request[q].stage = "idle"
    /\ t # None /\ states[t] = "open"
    /\ Becomes(q, [Idle EXCEPT !.stage = "tested", !.by = b, !.state = t,
                               !.cookie = jar[b].session])
    /\ UNCHANGED <<address, data, states, sessions, jar, page,
                   passed, signed, left>>

(* The state is marked in another statement than it was tested in.         *)
MarkUsed(q) ==
    /\ request[q].stage = "tested"
    /\ states' = [states EXCEPT ![request[q].state] = "closed"]
    /\ Becomes(q, [request[q] EXCEPT !.stage = "exchanging"])
    /\ UNCHANGED <<address, data, sessions, jar, page, passed, signed, left>>

(* Google says who granted access, by the account's address of now.        *)
Exchange(q) ==
    /\ request[q].stage = "exchanging"
    /\ \E s \in Subjects :
         Becomes(q, [request[q] EXCEPT !.stage = "known", !.subject = s,
                                       !.address = address[s]])
    /\ UNCHANGED <<address, data, states, sessions, jar, page,
                   passed, signed, left>>

-----------------------------------------------------------------------------
(* The last transaction of complete_oauth.                                 *)

(* Its reads.                                                              *)
Lookup(q) ==
    /\ request[q].stage = "known"
    /\ Becomes(q, [request[q] EXCEPT !.stage = "storing", !.seen = data])
    /\ UNCHANGED <<address, data, states, sessions, jar, page,
                   passed, signed, left>>

(* The user of the account, or else one that has its address.  The demo    *)
(* user's address is no Google account's.                                  *)
Found(tables, s, a) ==
    LET known == {u \in People : tables.users[u].subject = s} IN
    IF known # {} THEN known
    ELSE {u \in People : tables.users[u].email = a}

(* Fault: the subject is not kept with a user found by address.            *)
MergedUnlinked(old, now, s, a) ==
    [email   |-> IF old.email = a THEN now.email ELSE a,
     subject |-> IF old = NoUser THEN s ELSE now.subject]

(* Only the columns that change against what was read are written.         *)
Merged(old, now, s, a) ==
    [email   |-> IF old.email = a THEN now.email ELSE a,
     subject |-> IF old.subject = None THEN s ELSE now.subject]

(* Fault: whoever signs in takes over the old mail.                        *)
ClaimsAny(tables, a) == \E b \in Addresses : <<Demo, b>> \in tables.accounts

Claims(tables, a) == <<Demo, a>> \in tables.accounts

Copied(tables, u, m) ==
    Demo \in tables.mail[m] /\ u \notin tables.mail[m]

(* Fault: the old credential stays.                                        *)
AccountsKept(tables, u, a) == data.accounts \cup {<<u, a>>}

AccountsAfter(tables, u, a) ==
    (data.accounts \ IF Claims(tables, a) THEN {<<Demo, a>>} ELSE {})
        \cup {<<u, a>>}

(* The copies are added and the demo user's rows deleted.                  *)
MailAfter(tables, u, a) ==
    [m \in Mail |-> IF Claims(tables, a) /\ Demo \in tables.mail[m]
                      THEN (data.mail[m] \ {Demo}) \cup {u}
                      ELSE data.mail[m]]

(* No unique key is broken, and the credential that is updated is there.   *)
Commits(tables, u, row, a) ==
    /\ \A v \in People \ {u} : /\ data.users[v].email # row.email
                               /\ data.users[v].subject \notin
                                    {row.subject} \ {None}
    /\ <<u, a>> \in tables.accounts <=> <<u, a>> \in data.accounts
    /\ Claims(tables, a) =>
         \A m \in Mail : Copied(tables, u, m) => u \notin data.mail[m]

(* A user found in the snapshot, or a new one.                             *)
Candidates(tables, s, a) ==
    IF Found(tables, s, a) # {} THEN Found(tables, s, a)
    ELSE {u \in People : data.users[u] = NoUser}

Store(q) ==
    /\ request[q].stage = "storing"
    /\ LET s == request[q].subject
           a == request[q].address
           tables == request[q].seen
       IN \E u \in Candidates(tables, s, a) :
            LET row == Merged(tables.users[u], data.users[u], s, a) IN
            /\ Commits(tables, u, row, a)
            /\ data' = [users    |-> [data.users EXCEPT ![u] = row],
                        accounts |-> AccountsAfter(tables, u, a),
                        mail     |-> MailAfter(tables, u, a)]
            /\ signed' = signed \cup {<<s, u>>}
            /\ Becomes(q, [request[q] EXCEPT !.stage = "revoking", !.user = u,
                                             !.subject = None,
                                             !.address = None,
                                             !.seen = NoTables])
    /\ UNCHANGED <<address, states, sessions, jar, page, passed, left>>

-----------------------------------------------------------------------------
(* Sessions: the end of the callback, POST /demo and POST /logout.         *)

(* The demo has been prepared, and the session of the request is replaced. *)
StartDemo(q, b) ==
    /\ request[q].stage = "idle"
    /\ Becomes(q, [Idle EXCEPT !.stage = "revoking", !.by = b, !.user = Demo,
                               !.cookie = jar[b].session])
    /\ UNCHANGED <<address, data, states, sessions, jar, page,
                   passed, signed, left>>

Logout(q, b) ==
    /\ request[q].stage = "idle"
    /\ Becomes(q, [Idle EXCEPT !.stage = "revoking", !.by = b,
                               !.cookie = jar[b].session])
    /\ UNCHANGED <<address, data, states, sessions, jar, page,
                   passed, signed, left>>

(* The session that the request came with.                                 *)
Revoke(q) ==
    LET s == request[q].cookie IN
    /\ request[q].stage = "revoking"
    /\ sessions' = IF Live(s) THEN [sessions EXCEPT ![s].status = "ended"]
                   ELSE sessions
    /\ left' = IF s = None THEN left ELSE left \cup {s}
    /\ Becomes(q, [request[q] EXCEPT
                     !.cookie = None,
                     !.stage = IF request[q].user = None THEN "answering"
                               ELSE "creating"])
    /\ UNCHANGED <<address, data, states, jar, page, passed, signed>>

(* Fault: the new session is not committed.                                *)
CreateUncommitted(q) ==
    /\ request[q].stage = "creating"
    /\ \E s \in Sessions :
         /\ sessions[s].status = "free"
         /\ Becomes(q, [request[q] EXCEPT !.stage = "answering",
                                          !.user = None, !.session = s])
    /\ UNCHANGED <<address, data, states, sessions, jar, page,
                   passed, signed, left>>

Create(q) ==
    /\ request[q].stage = "creating"
    /\ \E s \in Sessions :
         /\ sessions[s].status = "free"
         /\ sessions' = [sessions EXCEPT
                           ![s] = [user |-> request[q].user,
                                   status |-> "live"]]
         /\ Becomes(q, [request[q] EXCEPT !.stage = "answering",
                                          !.user = None, !.session = s])
    /\ UNCHANGED <<address, data, states, jar, page, passed, signed, left>>

(* The answer sets the cookies, whatever they are by then.                 *)
Answer(q) ==
    LET b == request[q].by IN
    /\ request[q].stage = "answering"
    /\ jar' = [jar EXCEPT ![b] =
                 [session |-> request[q].session,
                  state |-> IF request[q].state = None THEN jar[b].state
                            ELSE None]]
    /\ Becomes(q, Idle)
    /\ UNCHANGED <<address, data, states, sessions, page,
                   passed, signed, left>>

(* Refused by Google or by a unique key, a process that ends, an answer    *)
(* that is lost: what was committed stays.                                 *)
Abort(q) ==
    /\ request[q].stage # "idle"
    /\ Becomes(q, Idle)
    /\ UNCHANGED <<address, data, states, sessions, jar, page,
                   passed, signed, left>>

-----------------------------------------------------------------------------
(* Pages, disconnecting, and what happens elsewhere.                       *)

OpenPage(b) ==
    /\ Personal(jar[b].session)
    /\ page' = [page EXCEPT ![b] = jar[b].session]
    /\ UNCHANGED <<address, data, states, sessions, jar, request,
                   passed, signed, left>>

(* POST /gmail/disconnect reads the credential, revokes the token at       *)
(* Google and deletes the row it read.                                     *)
BeginDisconnect(q, b) ==
    LET u == CurrentUser(jar[b].session) IN
    /\ request[q].stage = "idle" /\ Personal(jar[b].session)
    /\ \E a \in Addresses :
         /\ <<u, a>> \in data.accounts
         /\ Becomes(q, [Idle EXCEPT !.stage = "leaving", !.by = b,
                                    !.user = u, !.address = a])
    /\ UNCHANGED <<address, data, states, sessions, jar, page,
                   passed, signed, left>>

Disconnect(q) ==
    /\ request[q].stage = "leaving"
    /\ data' = [data EXCEPT !.accounts =
                  @ \ {<<request[q].user, request[q].address>>}]
    /\ Becomes(q, Idle)
    /\ UNCHANGED <<address, states, sessions, jar, page, passed, signed, left>>

(* An account that has had an address.                                     *)
Had(s, a) == Holder[a] = s \/ <<s, a>> \in passed

(* The sync worker stores a message of a connected account: that of the    *)
(* Google account that granted access with this address.                   *)
Import(u, a, m) ==
    /\ <<u, a>> \in data.accounts /\ u # Demo
    /\ Had(Owner[m], a)
    /\ data' = [data EXCEPT !.mail =
                  [data.mail EXCEPT ![m] = data.mail[m] \cup {u}]]
    /\ UNCHANGED <<address, web, passed, signed, left>>

(* A Google account gets another address: one of its own, or one that no   *)
(* other account has any more.                                             *)
Rename(s, a) ==
    /\ \A r \in Subjects : address[r] # a
    /\ Holder[a] = s \/ <<s, a>> \in Movable
    /\ address' = [address EXCEPT ![s] = a]
    /\ passed' = IF Holder[a] = s THEN passed ELSE passed \cup {<<s, a>>}
    /\ UNCHANGED <<data, web, signed, left>>

ExpireSession(s) ==
    /\ sessions[s].status = "live"
    /\ sessions' = [sessions EXCEPT ![s].status = "ended"]
    /\ UNCHANGED <<address, data, states, jar, page, request,
                   passed, signed, left>>

ExpireState(t) ==
    /\ states[t] = "open"
    /\ states' = [states EXCEPT ![t] = "closed"]
    /\ UNCHANGED <<address, data, sessions, jar, page, request,
                   passed, signed, left>>

RequestStep(q) ==
    \/ MarkUsed(q) \/ Exchange(q) \/ Lookup(q) \/ Store(q)
    \/ Revoke(q) \/ Create(q) \/ Answer(q) \/ Abort(q) \/ Disconnect(q)

BrowserStep(b) ==
    \/ Start(b) \/ OpenPage(b)
    \/ \E q \in Requests : \/ Callback(q, b) \/ StartDemo(q, b)
                           \/ Logout(q, b) \/ BeginDisconnect(q, b)

Elsewhere ==
    \/ \E u \in People, a \in Addresses, m \in Mail : Import(u, a, m)
    \/ \E s \in Subjects, a \in Addresses : Rename(s, a)
    \/ \E s \in Sessions : ExpireSession(s)
    \/ \E t \in States : ExpireState(t)

Next ==
    \/ \E q \in Requests : RequestStep(q)
    \/ \E b \in Browsers : BrowserStep(b)
    \/ Elsewhere

Spec == Init /\ [][Next]_vars

-----------------------------------------------------------------------------
(* Properties.                                                             *)

(* No address of the account was given to another, and it got none of      *)
(* another's: an address tells who it is.                                  *)
Clean(s) == \A p \in passed : p[1] # s /\ Holder[p[2]] # s

(* One account, as far as addresses can tell.                              *)
Same(s, r) == Clean(s) \/ Clean(r) => s = r

(* Whose the messages of the demo user were: its accounts are not kept     *)
(* apart.                                                                  *)
Entitled(m) == {Owner[m]} \cup {Holder[a] : a \in OldAddresses}

(* An account whose addresses are its own always signs in as the same user *)
(* and nobody else does, also when it changes its address, when its first  *)
(* sign-ins race, when one state is answered twice, when the user was      *)
(* there before, and when other accounts pass addresses on.                *)
OneUserPerSubject ==
    \A p, r \in signed : Clean(p[1]) => (p[1] = r[1] <=> p[2] = r[2])

(* Nobody reads another one's mail: a connected account is with the user   *)
(* of the Google account that holds the address, and a message with those  *)
(* of the account it came from and of the accounts of the demo user.       *)
MailIsItsHolders ==
    /\ \A u \in People, a \in Addresses :
         <<u, a>> \in data.accounts => Same(data.users[u].subject, Holder[a])
    /\ \A u \in Users, m \in Mail :
         Owns(u, m) => \E s \in Entitled(m) : Same(data.users[u].subject, s)

(* The old mail moves as a whole and with the first of its credentials,    *)
(* and none of it is lost, whatever requests and workers do meanwhile.     *)
MailMovesWhole ==
    \A m \in Mail :
        /\ data.mail[m] # {}
        /\ Demo \in data.mail[m] <=>
             \A a \in OldAddresses : <<Demo, a>> \in data.accounts

(* A form acts for the user it was shown to, also when other pages of the  *)
(* browser signed out or in since, and never in a session that was left.   *)
FormActsForItsReader ==
    \A b \in Browsers : Accepts(b) =>
        /\ sessions[page[b]].user = CurrentUser(jar[b].session)
        /\ jar[b].session \notin left
=============================================================================
