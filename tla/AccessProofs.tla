----------------------------- MODULE AccessProofs -----------------------------
(***************************************************************************)
(* Why signing in, sessions and the takeover of the old mail are safe:     *)
(* type correctness and the inductive invariant behind the properties of   *)
(* Access, proved for every value of the constants.                        *)
(***************************************************************************)
EXTENDS Access, TLAPS

(* What an address tells of an account: accounts whose addresses were      *)
(* passed on may be taken for each other, and only those.                  *)
Class == [s \in Subjects |-> IF Clean(s) THEN s ELSE None]

(* What a consistent set of tables says: a user's account holds the user's *)
(* address, and the demo user has all the old accounts or none of the mail.*)
Consistent(t) ==
    /\ \A u \in People : t.users[u].subject # None =>
         /\ t.users[u].email # None
         /\ Class[Holder[t.users[u].email]] = Class[t.users[u].subject]
    /\ \A a \in Addresses : <<Demo, a>> \in t.accounts => a \in OldAddresses
    /\ \A m \in Mail :
         Demo \in t.mail[m] <=> \A a \in OldAddresses : <<Demo, a>> \in t.accounts

(* What stays true of a table that a transaction has read: users stay, an  *)
(* address only changes within its account, an account is never replaced,  *)
(* and the demo user gets no more.                                         *)
Follows(t, d) ==
    /\ \A u \in People :
        /\ t.users[u].email # None =>
             /\ d.users[u].email # None
             /\ Class[Holder[d.users[u].email]] = Class[Holder[t.users[u].email]]
        /\ t.users[u].subject # None =>
             /\ d.users[u].subject # None
             /\ Class[d.users[u].subject] = Class[t.users[u].subject]
    /\ \A a \in Addresses :
         <<Demo, a>> \in d.accounts => <<Demo, a>> \in t.accounts

Asking(x, d) ==
    /\ x.stage \in {"known", "storing"} =>
         /\ x.subject \in Subjects /\ x.address \in Addresses
         /\ Class[Holder[x.address]] = Class[x.subject]
    /\ x.stage = "storing" => Consistent(x.seen) /\ Follows(x.seen, d)
    /\ x.stage = "leaving" => x.user \in People

AskInv ==
    /\ \A s \in Subjects : Class[Holder[address[s]]] = Class[s]
    /\ \A q \in Requests : Asking(request[q], data)

(* Emails and accounts are unique keys.                                    *)
Distinct(users) ==
    \A u, v \in People :
        /\ users[u].email # None /\ users[u].email = users[v].email => u = v
        /\ users[u].subject # None /\ users[u].subject = users[v].subject
             => u = v

(* A user belongs to an account, s as far as its addresses tell.           *)
OfClass(users, u, s) ==
    users[u].subject # None /\ Class[users[u].subject] = Class[s]

OwnInv ==
    /\ Consistent(data)
    /\ Distinct(data.users)
    /\ \A p \in signed : OfClass(data.users, p[2], p[1])
    /\ \A u \in People, a \in Addresses :
         <<u, a>> \in data.accounts => OfClass(data.users, u, Holder[a])
    /\ \A u \in People, m \in Mail :
         u \in data.mail[m] => \E s \in Entitled(m) : OfClass(data.users, u, s)
    /\ \A m \in Mail : data.mail[m] # {}

(* A session that was left never comes back.                               *)
LeftInv == \A s \in left : sessions[s].status = "ended"

-----------------------------------------------------------------------------
(* Types.                                                                  *)

UserRows == [email : Addresses \cup {None}, subject : Subjects \cup {None}]

LEMMA TablesHave ==
    ASSUME NEW t \in Tables
    PROVE  /\ t.users \in [People -> UserRows]
           /\ t.accounts \in SUBSET (Users \X Addresses)
           /\ t.mail \in [Mail -> SUBSET Users]
BY DEF Tables, UserRows

LEMMA TablesMade ==
    ASSUME NEW x \in [People -> UserRows],
           NEW y \in SUBSET (Users \X Addresses),
           NEW z \in [Mail -> SUBSET Users]
    PROVE  [users |-> x, accounts |-> y, mail |-> z] \in Tables
BY DEF Tables, UserRows

LEMMA NoTablesTyped == NoTables \in Tables
<1>1. [p \in People |-> NoUser] \in [People -> UserRows]
  BY DEF NoUser, UserRows
<1>2. [m \in Mail |-> {}] \in [Mail -> SUBSET Users]
  OBVIOUS
<1>3. QED
  BY <1>1, <1>2, TablesMade DEF NoTables

LEMMA IdleTyped ==
    /\ Idle \in Asks /\ Idle.cookie = None /\ Idle.session = None
    /\ Idle.stage = "idle"
BY NoTablesTyped DEF Idle, Asks, Stages

(* The ways a request is changed, field by field.                          *)
LEMMA AskSet ==
    ASSUME NEW x \in Asks
    PROVE  /\ [x EXCEPT !.stage = "exchanging"] \in Asks
           /\ \A s \in Subjects, a \in Addresses :
                [x EXCEPT !.stage = "known", !.subject = s, !.address = a]
                  \in Asks
           /\ \A t \in Tables :
                [x EXCEPT !.stage = "storing", !.seen = t] \in Asks
           /\ \A u \in Users :
                [x EXCEPT !.stage = "revoking", !.user = u, !.subject = None,
                          !.address = None, !.seen = NoTables] \in Asks
           /\ \A n \in {"answering", "creating"} :
                [x EXCEPT !.cookie = None, !.stage = n] \in Asks
           /\ \A s \in Sessions :
                [x EXCEPT !.stage = "answering", !.user = None,
                          !.session = s] \in Asks
<1>1. [x EXCEPT !.stage = "exchanging"] \in Asks
  BY DEF Asks, Stages
<1>2. ASSUME NEW s \in Subjects, NEW a \in Addresses
      PROVE  [x EXCEPT !.stage = "known", !.subject = s, !.address = a] \in Asks
  BY DEF Asks, Stages
<1>3. ASSUME NEW t \in Tables
      PROVE  [x EXCEPT !.stage = "storing", !.seen = t] \in Asks
  BY DEF Asks, Stages
<1>4. ASSUME NEW u \in Users
      PROVE  [x EXCEPT !.stage = "revoking", !.user = u, !.subject = None,
                       !.address = None, !.seen = NoTables] \in Asks
  BY NoTablesTyped DEF Asks, Stages
<1>5. ASSUME NEW n \in {"answering", "creating"}
      PROVE  [x EXCEPT !.cookie = None, !.stage = n] \in Asks
  BY DEF Asks, Stages
<1>6. ASSUME NEW s \in Sessions
      PROVE  [x EXCEPT !.stage = "answering", !.user = None, !.session = s]
               \in Asks
  BY DEF Asks, Stages
<1>7. QED
  BY <1>1, <1>2, <1>3, <1>4, <1>5, <1>6

LEMMA AskStarted ==
    ASSUME NEW b \in Browsers, NEW c \in Sessions \cup {None}
    PROVE  /\ \A t \in States :
                [Idle EXCEPT !.stage = "tested", !.by = b, !.state = t,
                             !.cookie = c] \in Asks
           /\ [Idle EXCEPT !.stage = "revoking", !.by = b, !.user = Demo,
                           !.cookie = c] \in Asks
           /\ [Idle EXCEPT !.stage = "revoking", !.by = b, !.cookie = c] \in Asks
           /\ \A u \in Users, a \in Addresses :
                [Idle EXCEPT !.stage = "leaving", !.by = b, !.user = u,
                             !.address = a] \in Asks
BY NoTablesTyped DEF Idle, Asks, Stages, Users

(* The rows of sessions are only ever added to.                            *)
Grow == \A s \in Sessions : Made(s) => Made(s)'

(* The part of the type invariant about requests and sessions.             *)
JarTypes  == [Browsers -> [session : Sessions \cup {None},
                           state : States \cup {None}]]
PageTypes == [Browsers -> Sessions \cup {None}]
SessionTypes == [Sessions -> [user : Users \cup {None},
                              status : {"free", "live", "ended"}]]

LEMMA BecomesEffect ==
    ASSUME TypeOK, NEW q \in Requests, NEW x, Becomes(q, x)
    PROVE  request'[q] = x /\ \A r \in Requests : r # q => request'[r] = request[r]
BY DEF TypeOK, Becomes

LEMMA TypeAsk ==
    ASSUME TypeOK, Grow, NEW q \in Requests, NEW x \in Asks, Becomes(q, x),
           x.cookie = None \/ sessions'[x.cookie].status # "free",
           x.session = None \/ sessions'[x.session].status # "free"
    PROVE  /\ request' \in [Requests -> Asks]
           /\ \A r \in Requests : /\ Made(request[r].cookie)'
                                  /\ Made(request[r].session)'
<1>1. request' \in [Requests -> Asks]
  BY DEF TypeOK, Becomes
<1>2. ASSUME NEW r \in Requests
      PROVE  /\ Made(request[r].cookie)'
             /\ Made(request[r].session)'
  <2>1. CASE r = q
    BY <2>1, BecomesEffect DEF Made
  <2>2. CASE r # q
    <3>1. request'[r] = request[r] /\ request[r] \in Asks
      BY <2>2, BecomesEffect DEF TypeOK
    <3>2. /\ request[r].cookie \in Sessions \cup {None}
          /\ request[r].session \in Sessions \cup {None}
      BY <3>1 DEF Asks
    <3>3. Made(request[r].cookie) /\ Made(request[r].session)
      BY DEF TypeOK
    <3>4. QED
      BY <3>1, <3>2, <3>3 DEF Grow, Made
  <2>3. QED
    BY <2>1, <2>2
<1>3. QED
  BY <1>1, <1>2

(* A step that leaves the sessions alone and puts into a request only      *)
(* sessions that some cookie or request already named.                     *)
LEMMA TypeSteps ==
    ASSUME TypeOK, sessions' = sessions, NEW q \in Requests, NEW x \in Asks,
           Becomes(q, x),
           x.cookie \in {None, request[q].cookie}
             \/ \E b \in Browsers : x.cookie = jar[b].session,
           x.session \in {None, request[q].session}
    PROVE  /\ request' \in [Requests -> Asks]
           /\ \A r \in Requests : /\ Made(request[r].cookie)'
                                  /\ Made(request[r].session)'
<1>1. Made(x.cookie) /\ Made(x.session)
  BY DEF TypeOK, Made
<1>2. Grow
  BY DEF Grow, Made
<1>3. QED
  BY <1>1, <1>2, TypeAsk DEF Made

LEMMA TypeRequests ==
    ASSUME TypeOK, NEW q \in Requests,
           MarkUsed(q) \/ Exchange(q) \/ Lookup(q) \/ Abort(q)
    PROVE  TypeOK'
<1> DEFINE x == request[q]
<1>1. x \in Asks
  BY DEF TypeOK
<1>2. /\ UNCHANGED <<address, data, sessions, jar, page, passed, signed, left>>
      /\ states' \in [States -> {"new", "open", "closed"}]
  BY DEF TypeOK, MarkUsed, Exchange, Lookup, Abort
<1>3. \E y \in Asks : /\ Becomes(q, y)
                      /\ y.cookie \in {None, x.cookie}
                      /\ y.session \in {None, x.session}
  <2>1. CASE MarkUsed(q)
    <3>1. [x EXCEPT !.stage = "exchanging"].cookie = x.cookie
          /\ [x EXCEPT !.stage = "exchanging"].session = x.session
      BY <1>1 DEF Asks
    <3>2. QED
      BY <1>1, <2>1, <3>1, AskSet DEF MarkUsed
  <2>2. CASE Exchange(q)
    <3>1. PICK s \in Subjects :
            Becomes(q, [x EXCEPT !.stage = "known", !.subject = s,
                                 !.address = address[s]])
      BY <2>2 DEF Exchange
    <3> DEFINE a == address[s]
               y == [x EXCEPT !.stage = "known", !.subject = s, !.address = a]
    <3>2. a \in Addresses
      BY DEF TypeOK
    <3>3. Becomes(q, y)
      BY <3>1
    <3> HIDE DEF a
    <3>4. y \in Asks
      BY <1>1, <3>2, AskSet
    <3>5. y.cookie = x.cookie /\ y.session = x.session
      BY <1>1 DEF Asks
    <3> HIDE DEF y
    <3>6. QED
      BY <3>3, <3>4, <3>5
  <2>3. CASE Lookup(q)
    <3> DEFINE y == [x EXCEPT !.stage = "storing", !.seen = data]
    <3>1. Becomes(q, y)
      BY <2>3 DEF Lookup
    <3>2. y \in Asks
      BY <1>1, AskSet DEF TypeOK
    <3>3. y.cookie = x.cookie /\ y.session = x.session
      BY <1>1 DEF Asks
    <3> HIDE DEF y
    <3>4. QED
      BY <3>1, <3>2, <3>3
  <2>4. CASE Abort(q)
    BY <2>4, IdleTyped DEF Abort
  <2>5. QED
    BY <2>1, <2>2, <2>3, <2>4
<1>4. /\ request' \in [Requests -> Asks]
      /\ \A r \in Requests : /\ Made(request[r].cookie)'
                             /\ Made(request[r].session)'
  BY <1>2, <1>3, TypeSteps
<1>5. QED
  BY <1>2, <1>4 DEF TypeOK, Made

LEMMA TypeBrowsers ==
    ASSUME TypeOK, NEW q \in Requests, NEW b \in Browsers,
           \/ Callback(q, b) \/ StartDemo(q, b) \/ Logout(q, b)
           \/ BeginDisconnect(q, b)
    PROVE  TypeOK'
<1>1. UNCHANGED <<address, data, states, sessions, jar, page, passed, signed, left>>
  BY DEF Callback, StartDemo, Logout, BeginDisconnect
<1>2. jar[b].session \in Sessions \cup {None}
  BY DEF TypeOK
<1>3. \E y \in Asks : /\ Becomes(q, y)
                      /\ y.cookie \in {None, jar[b].session}
                      /\ y.session = None
  <2> DEFINE c == jar[b].session
  <2>1. ASSUME NEW t \in States
        PROVE  /\ [Idle EXCEPT !.stage = "tested", !.by = b, !.state = t,
                               !.cookie = c].cookie = c
               /\ [Idle EXCEPT !.stage = "tested", !.by = b, !.state = t,
                               !.cookie = c].session = None
    BY DEF Idle
  <2>2. /\ [Idle EXCEPT !.stage = "revoking", !.by = b, !.user = Demo,
                        !.cookie = c].cookie = c
        /\ [Idle EXCEPT !.stage = "revoking", !.by = b, !.user = Demo,
                        !.cookie = c].session = None
        /\ [Idle EXCEPT !.stage = "revoking", !.by = b, !.cookie = c].cookie = c
        /\ [Idle EXCEPT !.stage = "revoking", !.by = b, !.cookie = c].session
             = None
    BY DEF Idle
  <2>3. ASSUME NEW u \in Users, NEW a \in Addresses
        PROVE  /\ [Idle EXCEPT !.stage = "leaving", !.by = b, !.user = u,
                               !.address = a].cookie = None
               /\ [Idle EXCEPT !.stage = "leaving", !.by = b, !.user = u,
                               !.address = a].session = None
    BY DEF Idle
  <2>4. CASE Callback(q, b)
    <3>1. jar[b].state \in States
      BY <2>4 DEF TypeOK, Callback
    <3>2. QED
      BY <1>2, <2>1, <2>4, <3>1, AskStarted DEF Callback
  <2>5. CASE StartDemo(q, b)
    BY <1>2, <2>2, <2>5, AskStarted DEF StartDemo
  <2>6. CASE Logout(q, b)
    BY <1>2, <2>2, <2>6, AskStarted DEF Logout
  <2>7. CASE BeginDisconnect(q, b)
    <3> DEFINE u == CurrentUser(jar[b].session)
    <3>1. PICK a \in Addresses :
            /\ <<u, a>> \in data.accounts
            /\ Becomes(q, [Idle EXCEPT !.stage = "leaving", !.by = b,
                                       !.user = u, !.address = a])
      BY <2>7 DEF BeginDisconnect
    <3>2. u \in Users
      BY <3>1, TablesHave DEF TypeOK
    <3> HIDE DEF u
    <3>3. QED
      BY <2>3, <3>1, <3>2, AskStarted
  <2>8. QED
    BY <2>4, <2>5, <2>6, <2>7
<1>4. /\ request' \in [Requests -> Asks]
      /\ \A r \in Requests : /\ Made(request[r].cookie)'
                             /\ Made(request[r].session)'
  BY <1>1, <1>3, TypeSteps
<1>5. QED
  BY <1>1, <1>4 DEF TypeOK, Made

(* What Store and the other writers leave in the tables.                   *)
LEMMA TypeMerged ==
    ASSUME NEW x \in UserRows, NEW y \in UserRows, NEW s \in Subjects,
           NEW a \in Addresses
    PROVE  Merged(x, y, s, a) \in UserRows
BY DEF Merged, UserRows

LEMMA TypeStored ==
    ASSUME NEW old \in Tables, NEW t \in Tables, NEW u \in People,
           NEW s \in Subjects, NEW a \in Addresses, old = data
    PROVE  /\ AccountsAfter(t, u, a) \in SUBSET (Users \X Addresses)
           /\ MailAfter(t, u, a) \in [Mail -> SUBSET Users]
           /\ [data.users EXCEPT ![u] = Merged(t.users[u], data.users[u], s, a)]
                \in [People -> UserRows]
<1>1. /\ data.accounts \in SUBSET (Users \X Addresses)
      /\ data.mail \in [Mail -> SUBSET Users]
      /\ data.users \in [People -> UserRows]
      /\ t.users[u] \in UserRows /\ u \in Users
  BY TablesHave DEF Users
<1>2. AccountsAfter(t, u, a) \in SUBSET (Users \X Addresses)
  BY <1>1 DEF AccountsAfter
<1>3. MailAfter(t, u, a) \in [Mail -> SUBSET Users]
  BY <1>1 DEF MailAfter
<1>4. Merged(t.users[u], data.users[u], s, a) \in UserRows
  BY <1>1, TypeMerged
<1>5. QED
  BY <1>1, <1>2, <1>3, <1>4

LEMMA CandidatesArePeople ==
    ASSUME NEW t, NEW s, NEW a
    PROVE  Candidates(t, s, a) \subseteq People
BY DEF Candidates, Found

LEMMA TypeStore ==
    ASSUME TypeOK, NEW q \in Requests, Asking(request[q], data), Store(q)
    PROVE  TypeOK'
<1> DEFINE x == request[q]
           s == x.subject
           a == x.address
           t == x.seen
<1>1. /\ x \in Asks /\ data \in Tables /\ t \in Tables
      /\ UNCHANGED <<address, states, sessions, jar, page, passed, left>>
      /\ s \in Subjects /\ a \in Addresses
  BY DEF TypeOK, Store, Asks, Asking
<1>2. PICK u \in Candidates(t, s, a) :
        /\ data' = [users    |-> [data.users EXCEPT
                                    ![u] = Merged(t.users[u], data.users[u], s, a)],
                    accounts |-> AccountsAfter(t, u, a),
                    mail     |-> MailAfter(t, u, a)]
        /\ signed' = signed \cup {<<s, u>>}
        /\ Becomes(q, [x EXCEPT !.stage = "revoking", !.user = u,
                                !.subject = None, !.address = None,
                                !.seen = NoTables])
  BY DEF Store
<1>3. u \in People /\ u \in Users
  BY CandidatesArePeople DEF Users
<1>4. data' \in Tables
  <2> HIDE DEF s, a, t
  <2>1. QED
    BY <1>1, <1>2, <1>3, TypeStored, TablesMade
<1>5. signed' \subseteq Subjects \X People
  BY <1>1, <1>2, <1>3 DEF TypeOK
<1> DEFINE y == [x EXCEPT !.stage = "revoking", !.user = u, !.subject = None,
                          !.address = None, !.seen = NoTables]
<1>6. y \in Asks
  BY <1>1, <1>3, AskSet
<1>7. y.cookie = x.cookie /\ y.session = x.session
  BY <1>1 DEF Asks
<1>8. Becomes(q, y)
  BY <1>2
<1> HIDE DEF y
<1>9. /\ request' \in [Requests -> Asks]
      /\ \A r \in Requests : /\ Made(request[r].cookie)'
                             /\ Made(request[r].session)'
  BY <1>1, <1>6, <1>7, <1>8, TypeSteps
<1>10. QED
  BY <1>1, <1>4, <1>5, <1>9 DEF TypeOK, Made

LEMMA TypeDisconnect ==
    ASSUME TypeOK, NEW q \in Requests, Disconnect(q)
    PROVE  TypeOK'
<1>1. UNCHANGED <<address, states, sessions, jar, page, passed, signed, left>>
      /\ Becomes(q, Idle) /\ data \in Tables
  BY DEF Disconnect, TypeOK
<1>2. data' \in Tables
  <2>1. data' = [data EXCEPT !.accounts =
                   data.accounts \ {<<request[q].user, request[q].address>>}]
    BY DEF Disconnect
  <2>2. QED
    BY <1>1, <2>1 DEF Tables
<1>3. /\ request' \in [Requests -> Asks]
      /\ \A r \in Requests : /\ Made(request[r].cookie)'
                             /\ Made(request[r].session)'
  BY <1>1, TypeSteps, IdleTyped
<1>4. QED
  BY <1>1, <1>2, <1>3 DEF TypeOK, Made

(* The cookies and pages of a state in which sessions were only added.     *)
LEMMA MadeGrows ==
    ASSUME TypeOK, Grow
    PROVE  /\ jar' = jar => \A b \in Browsers : Made(jar[b].session)'
           /\ page' = page => \A b \in Browsers : Made(page[b])'
           /\ left' = left => \A s \in left' : Made(s)'
BY DEF TypeOK, Grow, Made

LEMMA TypeRevoke ==
    ASSUME TypeOK, NEW q \in Requests, Revoke(q)
    PROVE  TypeOK'
<1> DEFINE s == request[q].cookie
           n == IF request[q].user = None THEN "answering" ELSE "creating"
           y == [request[q] EXCEPT !.cookie = None, !.stage = n]
<1>1. /\ request[q] \in Asks /\ s \in Sessions \cup {None} /\ Made(s)
      /\ UNCHANGED <<address, data, states, jar, page, passed, signed>>
  BY DEF TypeOK, Revoke, Asks
<1>2. /\ sessions' \in SessionTypes
      /\ \A v \in Sessions : sessions[v].status # "free"
                               => sessions'[v].status # "free"
  <2>1. CASE sessions' = sessions
    BY <2>1 DEF TypeOK, SessionTypes
  <2>2. CASE s \in Sessions
             /\ sessions' = [sessions EXCEPT ![s].status = "ended"]
    <3> HIDE DEF s
    <3>1. QED
      BY <2>2 DEF TypeOK, SessionTypes
  <2>3. QED
    BY <1>1, <2>1, <2>2 DEF Revoke, Live
<1>3. Grow
  BY <1>2 DEF Grow, Made
<1>4. left' \subseteq Sessions /\ \A v \in left' : Made(v)'
  BY <1>1, <1>3 DEF TypeOK, Revoke, Grow
<1>5. Becomes(q, y)
  BY DEF Revoke
<1>6. n \in {"answering", "creating"}
  OBVIOUS
<1> HIDE DEF n
<1>7. y \in Asks /\ y.cookie = None /\ y.session = request[q].session
  BY <1>1, <1>6, AskSet DEF Asks
<1> HIDE DEF y
<1>8. y.session = None \/ sessions'[y.session].status # "free"
  BY <1>1, <1>2, <1>7 DEF TypeOK, Made, Asks
<1>9. /\ request' \in [Requests -> Asks]
      /\ \A r \in Requests : /\ Made(request[r].cookie)'
                             /\ Made(request[r].session)'
  BY <1>3, <1>5, <1>7, <1>8, TypeAsk
<1>10. \A b \in Browsers : Made(jar[b].session)' /\ Made(page[b])'
  BY <1>1, <1>3, MadeGrows
<1>11. QED
  BY <1>1, <1>2, <1>4, <1>9, <1>10 DEF TypeOK, SessionTypes

LEMMA TypeCreate ==
    ASSUME TypeOK, NEW q \in Requests, Create(q)
    PROVE  TypeOK'
<1>1. PICK s \in Sessions :
        /\ sessions' = [sessions EXCEPT
                          ![s] = [user |-> request[q].user, status |-> "live"]]
        /\ Becomes(q, [request[q] EXCEPT !.stage = "answering",
                                         !.user = None, !.session = s])
  BY DEF Create
<1> DEFINE y == [request[q] EXCEPT !.stage = "answering", !.user = None,
                                   !.session = s]
<1>2. /\ request[q] \in Asks /\ request[q].user \in Users \cup {None}
      /\ UNCHANGED <<address, data, states, jar, page, passed, signed, left>>
      /\ Made(request[q].cookie)
  BY DEF TypeOK, Create, Asks
<1>3. /\ sessions' \in SessionTypes
      /\ \A v \in Sessions : sessions[v].status # "free"
                               => sessions'[v].status # "free"
      /\ sessions'[s].status # "free"
  BY <1>1, <1>2 DEF TypeOK, SessionTypes
<1>4. Grow
  BY <1>3 DEF Grow, Made
<1>5. y \in Asks /\ y.cookie = request[q].cookie /\ y.session = s
  <2>1. y \in Asks
    BY <1>2, AskSet
  <2>2. y.cookie = request[q].cookie /\ y.session = s
    BY <1>2 DEF Asks
  <2>3. QED
    BY <2>1, <2>2
<1>6. Becomes(q, y)
  BY <1>1
<1> HIDE DEF y
<1>7. y.cookie = None \/ sessions'[y.cookie].status # "free"
  BY <1>2, <1>3, <1>5 DEF Made, Asks
<1>8. /\ request' \in [Requests -> Asks]
      /\ \A r \in Requests : /\ Made(request[r].cookie)'
                             /\ Made(request[r].session)'
  BY <1>3, <1>4, <1>5, <1>6, <1>7, TypeAsk
<1>9. /\ \A b \in Browsers : Made(jar[b].session)' /\ Made(page[b])'
      /\ \A v \in left' : Made(v)'
  BY <1>2, <1>4, MadeGrows
<1>10. QED
  BY <1>2, <1>3, <1>8, <1>9 DEF TypeOK, SessionTypes

LEMMA TypeAnswer ==
    ASSUME TypeOK, NEW q \in Requests, Answer(q)
    PROVE  TypeOK'
<1> DEFINE b == request[q].by
           c == [session |-> request[q].session,
                 state   |-> IF request[q].state = None THEN jar[b].state
                             ELSE None]
<1>1. /\ UNCHANGED <<address, data, states, sessions, page, passed, signed, left>>
      /\ Becomes(q, Idle) /\ jar' = [jar EXCEPT ![b] = c]
      /\ request[q] \in Asks
  BY DEF Answer, TypeOK
<1>2. /\ request' \in [Requests -> Asks]
      /\ \A r \in Requests : /\ Made(request[r].cookie)'
                             /\ Made(request[r].session)'
  BY <1>1, TypeSteps, IdleTyped
<1>3. ASSUME b \in Browsers
      PROVE  c \in [session : Sessions \cup {None}, state : States \cup {None}]
  BY <1>1, <1>3 DEF TypeOK, Asks
<1>4. c.session = request[q].session
  OBVIOUS
<1> HIDE DEF c, b
<1>5. jar' \in JarTypes
  BY <1>1, <1>3 DEF TypeOK, JarTypes
<1>6. \A d \in Browsers : jar'[d].session \in {jar[d].session, request[q].session}
  BY <1>1, <1>4 DEF TypeOK
<1>7. \A d \in Browsers : Made(jar[d].session)'
  BY <1>1, <1>6 DEF TypeOK, Made
<1>8. QED
  BY <1>1, <1>2, <1>5, <1>7 DEF TypeOK, JarTypes, Made

LEMMA TypeElsewhere ==
    ASSUME TypeOK, \/ \E b \in Browsers : Start(b) \/ OpenPage(b)
                   \/ Elsewhere
    PROVE  TypeOK'
<1>1. ASSUME NEW b \in Browsers, Start(b)  PROVE TypeOK'
  <2>1. PICK t \in States :
          /\ states' = [states EXCEPT ![t] = "open"]
          /\ jar' = [jar EXCEPT ![b] = [session |-> jar[b].session,
                                        state |-> t]]
    BY <1>1 DEF Start
  <2>2. /\ states' \in [States -> {"new", "open", "closed"}]
        /\ jar[b].session \in Sessions \cup {None}
    BY <2>1 DEF TypeOK
  <2>3. /\ jar' \in JarTypes
        /\ \A d \in Browsers : jar'[d].session = jar[d].session
    BY <2>1, <2>2 DEF TypeOK, JarTypes
  <2>4. QED
    BY <1>1, <2>2, <2>3 DEF TypeOK, JarTypes, Made, Start
<1>2. ASSUME NEW b \in Browsers, OpenPage(b)  PROVE TypeOK'
  <2>1. /\ page' = [page EXCEPT ![b] = jar[b].session]
        /\ jar[b].session \in Sessions \cup {None}
    BY <1>2 DEF OpenPage, TypeOK
  <2>2. /\ page' \in PageTypes
        /\ \A d \in Browsers : page'[d] \in {page[d], jar[b].session}
    BY <2>1 DEF TypeOK, PageTypes
  <2>3. \A d \in Browsers : Made(page'[d])
    BY <2>2 DEF TypeOK
  <2>4. QED
    BY <1>2, <2>2, <2>3 DEF TypeOK, PageTypes, OpenPage, Made
<1>3. ASSUME NEW u \in People, NEW a \in Addresses, NEW m \in Mail,
             Import(u, a, m)
      PROVE  TypeOK'
  <2> DEFINE box == [data.mail EXCEPT ![m] = data.mail[m] \cup {u}]
  <2>1. data' = [data EXCEPT !.mail = box] /\ data \in Tables /\ u \in Users
    BY <1>3 DEF Import, TypeOK, Users
  <2>2. box \in [Mail -> SUBSET Users]
    BY <2>1, TablesHave
  <2> HIDE DEF box
  <2>3. data' \in Tables
    BY <2>1, <2>2 DEF Tables
  <2>4. QED
    BY <1>3, <2>3 DEF TypeOK, Import, web, Made
<1>4. ASSUME NEW s \in Subjects, NEW a \in Addresses, Rename(s, a)
      PROVE  TypeOK'
  BY <1>4 DEF TypeOK, Rename, web, Made
<1>5. ASSUME NEW s \in Sessions, ExpireSession(s)  PROVE TypeOK'
  <2>1. /\ sessions' = [sessions EXCEPT ![s].status = "ended"]
        /\ UNCHANGED <<address, data, states, jar, page, request, passed, signed, left>>
    BY <1>5 DEF ExpireSession
  <2>2. /\ sessions' \in SessionTypes
        /\ \A v \in Sessions : sessions[v].status # "free"
                                 => sessions'[v].status # "free"
    BY <2>1 DEF TypeOK, SessionTypes
  <2>3. \A v \in Sessions \cup {None} : Made(v) => Made(v)'
    BY <2>2 DEF Made
  <2>4. \A q \in Requests : /\ request[q].cookie \in Sessions \cup {None}
                            /\ request[q].session \in Sessions \cup {None}
    BY DEF TypeOK, Asks
  <2>5. QED
    BY <2>1, <2>2, <2>3, <2>4 DEF TypeOK, SessionTypes, Made
<1>6. ASSUME NEW t \in States, ExpireState(t)  PROVE TypeOK'
  BY <1>6 DEF TypeOK, ExpireState, Made
<1>7. QED
  BY <1>1, <1>2, <1>3, <1>4, <1>5, <1>6 DEF Elsewhere

LEMMA TypeInit == Init => TypeOK
<1> SUFFICES ASSUME Init  PROVE TypeOK
  OBVIOUS
<1>1. address \in [Subjects -> Addresses]
  BY DEF Init
<1>2. data \in Tables
  <2> DEFINE people == [p \in People |->
                          IF p \in OldPeople
                            THEN [email |-> FirstAddress[p], subject |-> None]
                            ELSE NoUser]
             box == [m \in Mail |-> {Demo}]
  <2>1. people \in [People -> UserRows]
    BY AccessAssumption DEF NoUser, UserRows
  <2>2. {<<Demo, a>> : a \in OldAddresses} \in SUBSET (Users \X Addresses)
    BY AccessAssumption DEF Users
  <2>3. box \in [Mail -> SUBSET Users]
    BY DEF Users
  <2>4. data = [users |-> people, accounts |-> {<<Demo, a>> : a \in OldAddresses},
                mail |-> box]
    BY DEF Init
  <2> HIDE DEF people, box
  <2>5. QED
    BY <2>1, <2>2, <2>3, <2>4, TablesMade
<1>3. /\ states \in [States -> {"new", "open", "closed"}]
      /\ sessions \in SessionTypes
      /\ jar \in JarTypes /\ page \in PageTypes
      /\ passed = {} /\ signed = {} /\ left = {}
  BY DEF Init, SessionTypes, JarTypes, PageTypes
<1>4. request \in [Requests -> Asks]
  BY IdleTyped DEF Init
<1>5. /\ \A b \in Browsers : jar[b].session = None /\ page[b] = None
      /\ \A q \in Requests : /\ request[q].cookie = None
                             /\ request[q].session = None
  BY IdleTyped DEF Init
<1>6. QED
  BY <1>1, <1>2, <1>3, <1>4, <1>5
     DEF TypeOK, Made, SessionTypes, JarTypes, PageTypes

LEMMA TypeStep ==
    ASSUME TypeOK, AskInv, [Next]_vars
    PROVE  TypeOK'
<1>1. CASE UNCHANGED vars
  BY <1>1 DEF TypeOK, vars, web, Made
<1>2. ASSUME NEW q \in Requests, Store(q)  PROVE TypeOK'
  BY <1>2, TypeStore DEF AskInv
<1>3. QED
  BY <1>1, <1>2, TypeRequests, TypeBrowsers, TypeDisconnect, TypeRevoke,
     TypeCreate, TypeAnswer, TypeElsewhere
     DEF Next, RequestStep, BrowserStep

-----------------------------------------------------------------------------
(* What addresses tell of accounts.                                        *)

LEMMA ClassMeans ==
    ASSUME NEW s \in Subjects, NEW r \in Subjects, Class[s] = Class[r]
    PROVE  Same(s, r)
BY AccessAssumption DEF Class, Same

LEMMA ClassStays ==
    ASSUME passed' = passed
    PROVE  Class' = Class
BY DEF Class, Clean

(* A passed address makes accounts less distinct, never more.              *)
LEMMA ClassBlurs ==
    ASSUME TypeOK, NEW s \in Subjects, NEW a \in Addresses, Rename(s, a)
    PROVE  /\ \A x, y \in Subjects : Class[x] = Class[y] => Class'[x] = Class'[y]
           /\ Class'[Holder[a]] = Class'[s]
<1>1. /\ passed \subseteq passed'
      /\ Holder[a] # s => <<s, a>> \in passed'
  BY DEF Rename
<1>2. \A x : Clean(x)' => Clean(x)
  BY <1>1 DEF Clean
<1>3. Holder[a] # s => ~Clean(s)' /\ ~Clean(Holder[a])'
  BY <1>1 DEF Clean
<1>4. Holder[a] \in Subjects
  BY AccessAssumption
<1>5. Class'[Holder[a]] = Class'[s]
  BY <1>3, <1>4 DEF Class
<1>6. ASSUME NEW x \in Subjects, NEW y \in Subjects, Class[x] = Class[y]
      PROVE  Class'[x] = Class'[y]
  <2>1. x = y \/ (~Clean(x) /\ ~Clean(y))
    BY <1>6, AccessAssumption DEF Class
  <2>2. x = y \/ (~Clean(x)' /\ ~Clean(y)')
    BY <1>2, <2>1
  <2>3. QED
    BY <2>2 DEF Class
<1>7. QED
  BY <1>5, <1>6

-----------------------------------------------------------------------------
(* The last transaction of a sign-in.                                      *)

LEMMA FollowsItself ==
    ASSUME NEW t
    PROVE  Follows(t, t)
BY DEF Follows

LEMMA FollowsOn ==
    ASSUME NEW t, NEW d, NEW e, Follows(t, d), Follows(d, e)
    PROVE  Follows(t, e)
BY DEF Follows

(* Whoever Store picks, the row it writes belongs to the account that      *)
(* signed in, and so did the row before, if it was anybody's.              *)
LEMMA StoredRow ==
    ASSUME NEW t \in Tables, NEW d \in Tables, d = data,
           Consistent(t), Consistent(d), Follows(t, d),
           NEW s \in Subjects, NEW a \in Addresses,
           Class[Holder[a]] = Class[s],
           NEW u \in Candidates(t, s, a)
    PROVE  LET row == Merged(t.users[u], d.users[u], s, a) IN
           /\ row.subject # None /\ Class[row.subject] = Class[s]
           /\ row.email # None /\ Class[Holder[row.email]] = Class[s]
           /\ d.users[u].subject # None => Class[d.users[u].subject] = Class[s]
           /\ d.users[u].email # None => Class[Holder[d.users[u].email]] = Class[s]
<1> DEFINE old == t.users[u]
           now == d.users[u]
<1>1. u \in People /\ None \notin Subjects /\ None \notin Addresses
  BY CandidatesArePeople, AccessAssumption
<1>2. /\ old \in UserRows /\ now \in UserRows
  BY <1>1, TablesHave
<1>3. /\ old.subject # None => /\ old.email # None
                               /\ Class[Holder[old.email]] = Class[old.subject]
                               /\ now.subject # None
                               /\ Class[now.subject] = Class[old.subject]
      /\ now.subject # None => /\ now.email # None
                               /\ Class[Holder[now.email]] = Class[now.subject]
      /\ old.email # None => /\ now.email # None
                             /\ Class[Holder[now.email]] = Class[Holder[old.email]]
  BY <1>1 DEF Consistent, Follows
<1>4. \/ old.subject = s
      \/ old.email = a
      \/ now = NoUser
  BY <1>1 DEF Candidates, Found
<1>5. CASE old.subject = s
  <2>1. /\ now.subject # None /\ Class[now.subject] = Class[s]
        /\ now.email # None /\ Class[Holder[now.email]] = Class[s]
    BY <1>1, <1>3, <1>5
  <2>2. QED
    BY <1>1, <1>2, <1>5, <2>1 DEF Merged, UserRows
<1>6. CASE old.email = a
  <2>1. /\ now.email # None /\ Class[Holder[now.email]] = Class[s]
        /\ now.subject # None => Class[now.subject] = Class[s]
        /\ old.subject # None => now.subject # None
    BY <1>1, <1>3, <1>6
  <2>2. QED
    BY <1>1, <1>2, <1>6, <2>1 DEF Merged, UserRows
<1>7. CASE now = NoUser
  <2>1. now.email = None /\ now.subject = None
    BY <1>7 DEF NoUser
  <2>2. old.email = None /\ old.subject = None
    BY <1>3, <2>1
  <2>3. QED
    BY <1>1, <1>2, <2>1, <2>2 DEF Merged, UserRows
<1>8. QED
  BY <1>4, <1>5, <1>6, <1>7

(* What a Store step does, for a user u and its new row.                   *)
Stored(t, u, row, s, a) ==
    /\ Class[Holder[a]] = Class[s]
    /\ row.subject # None /\ Class[row.subject] = Class[s]
    /\ row.email # None /\ Class[Holder[row.email]] = Class[s]
    /\ data.users[u].subject # None => Class[data.users[u].subject] = Class[s]
    /\ data.users[u].email # None => Class[Holder[data.users[u].email]] = Class[s]
    /\ \A v \in People \ {u} :
         /\ data.users[v].email # row.email
         /\ data.users[v].subject # row.subject
    /\ data'.users[u] = row
    /\ \A v \in People : v # u => data'.users[v] = data.users[v]
    /\ data'.accounts = AccountsAfter(t, u, a)
    /\ data'.mail = MailAfter(t, u, a)
    /\ signed' = signed \cup {<<s, u>>}

LEMMA StoreEffect ==
    ASSUME TypeOK, AskInv, OwnInv, NEW q \in Requests, Store(q)
    PROVE  \E u \in People, row \in UserRows, s \in Subjects, a \in Addresses :
             Stored(request[q].seen, u, row, s, a)
<1> DEFINE x == request[q]
           s == x.subject
           a == x.address
           t == x.seen
<1>1. /\ x \in Asks /\ data \in Tables /\ t \in Tables
      /\ s \in Subjects /\ a \in Addresses /\ Class[Holder[a]] = Class[s]
      /\ Consistent(t) /\ Follows(t, data) /\ Consistent(data)
  BY DEF TypeOK, Store, Asks, Asking, AskInv, OwnInv
<1>2. PICK u \in Candidates(t, s, a) :
        LET row == Merged(t.users[u], data.users[u], s, a) IN
        /\ Commits(t, u, row, a)
        /\ data' = [users    |-> [data.users EXCEPT ![u] = row],
                    accounts |-> AccountsAfter(t, u, a),
                    mail     |-> MailAfter(t, u, a)]
        /\ signed' = signed \cup {<<s, u>>}
  BY DEF Store
<1> DEFINE row == Merged(t.users[u], data.users[u], s, a)
<1>3. u \in People /\ data.users \in [People -> UserRows] /\ None \notin Subjects
  BY <1>1, CandidatesArePeople, TablesHave, AccessAssumption
<1> HIDE DEF s, a, t
<1>4. /\ row.subject # None /\ Class[row.subject] = Class[s]
      /\ row.email # None /\ Class[Holder[row.email]] = Class[s]
      /\ data.users[u].subject # None => Class[data.users[u].subject] = Class[s]
      /\ data.users[u].email # None
           => Class[Holder[data.users[u].email]] = Class[s]
  BY <1>1, StoredRow
<1>5. row \in UserRows
  BY <1>1, <1>3, TypeMerged, TablesHave
<1>6. /\ Commits(t, u, row, a)
      /\ data'.users = [data.users EXCEPT ![u] = row]
      /\ data'.accounts = AccountsAfter(t, u, a)
      /\ data'.mail = MailAfter(t, u, a)
      /\ signed' = signed \cup {<<s, u>>}
  BY <1>2
<1> HIDE DEF row
<1>7. /\ data'.users[u] = row
      /\ \A v \in People : v # u => data'.users[v] = data.users[v]
  BY <1>3, <1>6
<1>8. \A v \in People \ {u} : /\ data.users[v].email # row.email
                              /\ data.users[v].subject # row.subject
  BY <1>3, <1>4, <1>6, <1>1 DEF Commits
<1>9. Stored(t, u, row, s, a)
  BY <1>1, <1>4, <1>6, <1>7, <1>8 DEF Stored
<1>10. QED
  BY <1>1, <1>3, <1>5, <1>9 DEF t

LEMMA StoreFollows ==
    ASSUME TypeOK, AskInv, OwnInv, NEW q \in Requests, Store(q)
    PROVE  Follows(data, data')
<1>1. PICK u \in People, row \in UserRows, s \in Subjects, a \in Addresses :
        Stored(request[q].seen, u, row, s, a)
  BY StoreEffect
<1>2. Demo # u
  BY AccessAssumption
<1>3. \A b \in Addresses :
        <<Demo, b>> \in data'.accounts => <<Demo, b>> \in data.accounts
  BY <1>1, <1>2 DEF Stored, AccountsAfter
<1>4. QED
  BY <1>1, <1>3 DEF Stored, Follows

(* The mail of the demo user moves together with the first credential, and *)
(* only to the user of the account that has its address.                   *)
LEMMA StoreOwn ==
    ASSUME TypeOK, AskInv, OwnInv, NEW q \in Requests, Store(q)
    PROVE  OwnInv'
<1> DEFINE t == request[q].seen
<1>1. PICK u \in People, row \in UserRows, s \in Subjects, a \in Addresses :
        Stored(t, u, row, s, a)
  BY StoreEffect
<1>2. /\ Consistent(t) /\ Follows(t, data) /\ t \in Tables /\ data \in Tables
      /\ None \notin Subjects /\ Demo \notin People
  BY AccessAssumption DEF Store, AskInv, Asking, TypeOK, Asks
<1>3. /\ data.mail \in [Mail -> SUBSET Users]
      /\ data.accounts \in SUBSET (Users \X Addresses)
  BY <1>2, TablesHave
<1>0. Class' = Class
  BY ClassStays DEF Store
<1> HIDE DEF t
<1>10. ASSUME NEW v \in People, NEW k \in Subjects, OfClass(data.users, v, k)
       PROVE  OfClass(data'.users, v, k)
  BY <1>1, <1>10 DEF OfClass, Stored
<1>11. OfClass(data'.users, u, s) /\ OfClass(data'.users, u, Holder[a])
  BY <1>1 DEF OfClass, Stored
<1>4. Consistent(data') /\ \A m \in Mail : data'.mail[m] # {}
  <2>1. \A v \in People : data'.users[v].subject # None =>
          /\ data'.users[v].email # None
          /\ Class[Holder[data'.users[v].email]] = Class[data'.users[v].subject]
    BY <1>1 DEF OwnInv, Consistent, Stored
  <2>2. \A b \in Addresses : <<Demo, b>> \in data'.accounts => b \in OldAddresses
    BY <1>1, <1>2 DEF AccountsAfter, OwnInv, Consistent, Stored
  <2>3. CASE Claims(t, a)
    <3>1. a \in OldAddresses
      BY <1>2, <2>3 DEF Claims, Consistent
    <3>2. <<Demo, a>> \notin data'.accounts
      BY <1>1, <1>2, <2>3 DEF AccountsAfter, Stored
    <3>3. ASSUME NEW m \in Mail  PROVE Demo \notin data'.mail[m] /\ data'.mail[m] # {}
      <4>1. CASE Demo \in t.mail[m]
        <5>1. data'.mail[m] = (data.mail[m] \ {Demo}) \cup {u}
          BY <1>1, <2>3, <4>1 DEF MailAfter, Stored
        <5>2. QED
          BY <1>2, <5>1
      <4>2. CASE Demo \notin t.mail[m]
        <5>1. PICK b \in OldAddresses : <<Demo, b>> \notin t.accounts
          BY <1>2, <4>2 DEF Consistent
        <5>2. <<Demo, b>> \notin data.accounts
          BY <1>2, <5>1, AccessAssumption DEF Follows
        <5>3. Demo \notin data.mail[m]
          BY <5>1, <5>2 DEF OwnInv, Consistent
        <5>4. data'.mail[m] = data.mail[m]
          BY <1>1, <4>2 DEF MailAfter, Stored
        <5>5. QED
          BY <5>3, <5>4 DEF OwnInv
      <4>3. QED
        BY <4>1, <4>2
    <3>4. QED
      BY <2>1, <2>2, <3>1, <3>2, <3>3 DEF Consistent
  <2>4. CASE ~Claims(t, a)
    <3>1. \A b \in Addresses :
            <<Demo, b>> \in data'.accounts <=> <<Demo, b>> \in data.accounts
      BY <1>1, <1>2, <2>4 DEF AccountsAfter, Stored
    <3>2. \A m \in Mail : data'.mail[m] = data.mail[m]
      BY <1>1, <2>4 DEF MailAfter, Stored
    <3>3. QED
      BY <2>1, <2>2, <3>1, <3>2, AccessAssumption DEF Consistent, OwnInv
  <2>5. QED
    BY <2>3, <2>4
<1>5. Distinct(data'.users)
  BY <1>1, <1>2 DEF OwnInv, Distinct, Stored
<1>6. \A p \in signed' : OfClass(data'.users, p[2], p[1])
  <2>1. ASSUME NEW p \in signed  PROVE OfClass(data'.users, p[2], p[1])
    <3>1. /\ p[2] \in People /\ p[1] \in Subjects
          /\ OfClass(data.users, p[2], p[1])
      BY DEF TypeOK, OwnInv
    <3>2. QED
      BY <1>10, <3>1
  <2>2. QED
    BY <1>1, <1>11, <2>1 DEF Stored
<1>7. \A v \in People, b \in Addresses :
        <<v, b>> \in data'.accounts => OfClass(data'.users, v, Holder[b])
  <2>1. ASSUME NEW v \in People, NEW b \in Addresses, <<v, b>> \in data'.accounts
        PROVE  OfClass(data'.users, v, Holder[b])
    <3>1. CASE <<v, b>> \in data.accounts
      <4>1. OfClass(data.users, v, Holder[b]) /\ Holder[b] \in Subjects
        BY <3>1, AccessAssumption DEF OwnInv
      <4>2. QED
        BY <1>10, <4>1
    <3>2. CASE <<v, b>> = <<u, a>>
      BY <1>11, <3>2
    <3>3. QED
      BY <1>1, <2>1, <3>1, <3>2 DEF AccountsAfter, Stored
  <2>2. QED
    BY <2>1
<1>8. \A v \in People, m \in Mail :
        v \in data'.mail[m] => \E k \in Entitled(m) : OfClass(data'.users, v, k)
  <2>1. ASSUME NEW v \in People, NEW m \in Mail, v \in data'.mail[m]
        PROVE  \E k \in Entitled(m) : OfClass(data'.users, v, k)
    <3>1. CASE v \in data.mail[m]
      <4>1. PICK k \in Entitled(m) : OfClass(data.users, v, k)
        BY <3>1 DEF OwnInv
      <4>2. k \in Subjects
        BY AccessAssumption DEF Entitled
      <4>3. QED
        BY <1>10, <4>1, <4>2
    <3>2. CASE v \notin data.mail[m]
      <4>1. v = u /\ Claims(t, a)
        BY <1>1, <2>1, <3>2 DEF MailAfter, Stored
      <4>2. a \in OldAddresses
        BY <1>2, <4>1 DEF Claims, Consistent
      <4>3. Holder[a] \in Entitled(m)
        BY <4>2 DEF Entitled
      <4>4. QED
        BY <1>11, <4>1, <4>3
    <3>3. QED
      BY <3>1, <3>2
  <2>2. QED
    BY <2>1
<1>9. QED
  BY <1>0, <1>4, <1>5, <1>6, <1>7, <1>8 DEF OwnInv, Consistent, Distinct, OfClass

-----------------------------------------------------------------------------
(* The invariants.                                                         *)

(* What the other writers of the tables do.                                *)
LEMMA DisconnectOwn ==
    ASSUME TypeOK, AskInv, OwnInv, NEW q \in Requests, Disconnect(q)
    PROVE  OwnInv' /\ Follows(data, data')
<1> DEFINE gone == <<request[q].user, request[q].address>>
<1>1. /\ request[q].user \in People /\ Demo \notin People
      /\ signed' = signed /\ data \in Tables /\ Class' = Class
  BY AccessAssumption, ClassStays DEF Disconnect, AskInv, Asking, TypeOK
<1>2. /\ data'.users = data.users /\ data'.mail = data.mail
      /\ data'.accounts = data.accounts \ {gone}
  <2>1. data' = [data EXCEPT !.accounts = data.accounts \ {gone}]
    BY DEF Disconnect
  <2> HIDE DEF gone
  <2>2. QED
    BY <1>1, <2>1 DEF Tables
<1>3. \A b : <<Demo, b>> \in data'.accounts <=> <<Demo, b>> \in data.accounts
  BY <1>1, <1>2
<1>4. Consistent(data')
  BY <1>2, <1>3, AccessAssumption DEF OwnInv, Consistent
<1>5. Follows(data, data')
  BY <1>2, <1>3 DEF Follows
<1>6. QED
  BY <1>1, <1>2, <1>4, <1>5 DEF OwnInv, Distinct, Consistent, OfClass

LEMMA ImportOwn ==
    ASSUME TypeOK, OwnInv, NEW u \in People, NEW a \in Addresses, NEW m \in Mail,
           Import(u, a, m)
    PROVE  OwnInv' /\ Follows(data, data')
<1> DEFINE box == [data.mail EXCEPT ![m] = data.mail[m] \cup {u}]
<1>1. /\ data' = [data EXCEPT !.mail = box] /\ data \in Tables
      /\ signed' = signed /\ u # Demo /\ Class' = Class
      /\ OfClass(data.users, u, Holder[a]) /\ Had(Owner[m], a)
  BY ClassStays DEF Import, TypeOK, OwnInv
<1>2. /\ box[m] = data.mail[m] \cup {u}
      /\ \A n \in Mail : n # m => box[n] = data.mail[n]
  BY <1>1, TablesHave
<1> HIDE DEF box
<1>3. /\ data'.users = data.users /\ data'.accounts = data.accounts
      /\ data'.mail = box
  BY <1>1 DEF Tables
<1>4. \A n \in Mail : /\ Demo \in box[n] <=> Demo \in data.mail[n]
                      /\ box[n] # {} \/ data.mail[n] = {}
                      /\ \A v \in People : v \in box[n] => v = u
                                                       \/ v \in data.mail[n]
  BY <1>1, <1>2
<1>5. Consistent(data')
  BY <1>3, <1>4 DEF OwnInv, Consistent
<1>6. Follows(data, data')
  BY <1>3 DEF Follows
<1>8. OfClass(data.users, u, Owner[m]) /\ Owner[m] \in Entitled(m)
  <2>1. Owner[m] \in Subjects /\ Holder[a] \in Subjects
    BY AccessAssumption
  <2>2. Class[Owner[m]] = Class[Holder[a]]
    BY <1>1, <2>1 DEF Had, Class, Clean
  <2>3. QED
    BY <1>1, <2>2 DEF OfClass, Entitled
<1>9. \A v \in People, n \in Mail :
        v \in box[n] => \E k \in Entitled(n) : OfClass(data.users, v, k)
  <2>1. ASSUME NEW v \in People, NEW n \in Mail, v \in box[n]
        PROVE  \E k \in Entitled(n) : OfClass(data.users, v, k)
    <3>1. CASE v \in data.mail[n]
      BY <3>1 DEF OwnInv
    <3>2. CASE v \notin data.mail[n]
      BY <1>1, <1>2, <1>8, <2>1, <3>2
    <3>3. QED
      BY <3>1, <3>2
  <2>2. QED
    BY <2>1
<1>7. QED
  BY <1>1, <1>3, <1>4, <1>5, <1>6, <1>9
     DEF OwnInv, Distinct, Consistent, OfClass

(* A passed address only blurs who is who.                                 *)
LEMMA RenameOwn ==
    ASSUME TypeOK, OwnInv, NEW s \in Subjects, NEW a \in Addresses, Rename(s, a)
    PROVE  OwnInv' /\ Follows(data, data')
<1>1. /\ data' = data /\ signed' = signed
      /\ \A x, y \in Subjects : Class[x] = Class[y] => Class'[x] = Class'[y]
  BY ClassBlurs DEF Rename
<1>2. /\ \A u \in People : /\ data.users[u].subject \in Subjects \cup {None}
                            /\ data.users[u].email \in Addresses \cup {None}
      /\ \A b \in Addresses : Holder[b] \in Subjects
      /\ \A m \in Mail : Entitled(m) \subseteq Subjects
      /\ signed \subseteq Subjects \X People
  BY TablesHave, AccessAssumption DEF TypeOK, UserRows, Entitled
<1>3. ASSUME NEW u \in People, NEW k \in Subjects, OfClass(data.users, u, k)
      PROVE  OfClass(data.users, u, k)'
  BY <1>1, <1>2, <1>3 DEF OfClass
<1>4. Consistent(data)'
  BY <1>1, <1>2 DEF OwnInv, Consistent
<1>5. \A p \in signed : OfClass(data.users, p[2], p[1])'
  <2>1. ASSUME NEW p \in signed  PROVE OfClass(data.users, p[2], p[1])'
    <3>1. p[1] \in Subjects /\ p[2] \in People
      BY <1>2
    <3>2. OfClass(data.users, p[2], p[1])
      BY DEF OwnInv
    <3>3. /\ data.users[p[2]].subject # None
          /\ Class'[data.users[p[2]].subject] = Class'[p[1]]
      BY <1>1, <1>2, <3>1, <3>2 DEF OfClass
    <3>4. QED
      BY <1>1, <3>3 DEF OfClass
  <2>2. QED
    BY <2>1
<1>6. \A u \in People, b \in Addresses :
        <<u, b>> \in data.accounts => OfClass(data.users, u, Holder[b])'
  BY <1>1, <1>2 DEF OwnInv, OfClass
<1>7. \A u \in People, m \in Mail :
        u \in data.mail[m] => \E k \in Entitled(m) : OfClass(data.users, u, k)'
  <2>1. ASSUME NEW u \in People, NEW m \in Mail, u \in data.mail[m]
        PROVE  \E k \in Entitled(m) : OfClass(data.users, u, k)'
    <3>1. PICK k \in Entitled(m) : OfClass(data.users, u, k)
      BY <2>1 DEF OwnInv
    <3>2. /\ data.users[u].subject # None
          /\ Class'[data.users[u].subject] = Class'[k]
      BY <1>1, <1>2, <3>1 DEF OfClass
    <3>3. QED
      BY <1>1, <3>1, <3>2 DEF OfClass
  <2>2. QED
    BY <2>1
<1>8. OwnInv'
  BY <1>1, <1>4, <1>5, <1>6, <1>7 DEF OwnInv, Distinct, OfClass
<1>9. QED
  BY <1>1, <1>8, FollowsItself

LEMMA OwnStep ==
    ASSUME TypeOK, AskInv, OwnInv, [Next]_vars
    PROVE  OwnInv' /\ Follows(data, data')
<1>1. ASSUME data' = data, signed' = signed, passed' = passed
      PROVE  OwnInv' /\ Follows(data, data')
  <2>1. Class' = Class
    BY <1>1, ClassStays
  <2>2. QED
    BY <1>1, <2>1, FollowsItself DEF OwnInv, Consistent, Distinct, OfClass
<1>2. ASSUME NEW q \in Requests,
             \/ MarkUsed(q) \/ Exchange(q) \/ Lookup(q) \/ Revoke(q)
             \/ Create(q) \/ Answer(q) \/ Abort(q)
      PROVE  data' = data /\ signed' = signed /\ passed' = passed
  BY <1>2 DEF MarkUsed, Exchange, Lookup, Revoke, Create, Answer, Abort
<1>3. ASSUME NEW b \in Browsers, BrowserStep(b)
      PROVE  data' = data /\ signed' = signed /\ passed' = passed
  BY <1>3 DEF BrowserStep, Start, OpenPage, Callback, StartDemo, Logout,
              BeginDisconnect
<1>5. ASSUME NEW s, NEW t, ExpireSession(s) \/ ExpireState(t)
      PROVE  data' = data /\ signed' = signed /\ passed' = passed
  BY <1>5 DEF ExpireSession, ExpireState
<1>6. UNCHANGED vars => data' = data /\ signed' = signed /\ passed' = passed
  BY DEF vars
<1>7. QED
  BY <1>1, <1>2, <1>3, <1>5, <1>6, StoreOwn, StoreFollows,
     DisconnectOwn, ImportOwn, RenameOwn DEF Next, RequestStep, Elsewhere

(* A request between its reads and its commit sees data that only moved on.*)
LEMMA AskingOn ==
    ASSUME NEW x \in Asks, Asking(x, data), Follows(data, data')
    PROVE  Asking(x, data')
BY FollowsOn DEF Asking

LEMMA AskOne ==
    ASSUME TypeOK, AskInv, Follows(data, data'), address' = address,
           passed' = passed,
           NEW q \in Requests, NEW x, Becomes(q, x), Asking(x, data')
    PROVE  AskInv'
<1>1. ASSUME NEW r \in Requests  PROVE Asking(request'[r], data')
  BY BecomesEffect, AskingOn DEF AskInv, TypeOK
<1>2. Class' = Class
  BY ClassStays
<1>3. ASSUME NEW r \in Requests  PROVE Asking(request[r], data)'
  BY <1>1, <1>2 DEF Asking, Consistent, Follows
<1>4. (\A s \in Subjects : Class[Holder[address[s]]] = Class[s])'
  BY <1>2 DEF AskInv
<1>5. QED
  BY <1>3, <1>4 DEF AskInv

LEMMA AskNone ==
    ASSUME TypeOK, AskInv, Follows(data, data'), request' = request,
           passed' = passed, address' = address
    PROVE  AskInv'
<1>1. ASSUME NEW r \in Requests  PROVE Asking(request'[r], data')
  BY AskingOn DEF AskInv, TypeOK
<1>2. Class' = Class
  BY ClassStays
<1>3. QED
  BY <1>1, <1>2 DEF AskInv, Asking, Consistent, Follows

LEMMA AskRename ==
    ASSUME TypeOK, AskInv, NEW s \in Subjects, NEW a \in Addresses, Rename(s, a)
    PROVE  AskInv'
<1>1. /\ data' = data /\ request' = request
      /\ address' = [address EXCEPT ![s] = a]
      /\ \A x, y \in Subjects : Class[x] = Class[y] => Class'[x] = Class'[y]
      /\ Class'[Holder[a]] = Class'[s]
      /\ \A b \in Addresses : Holder[b] \in Subjects
  BY ClassBlurs, AccessAssumption DEF Rename, web
<1>2. \A r \in Subjects : Class'[Holder[address'[r]]] = Class'[r]
  BY <1>1 DEF AskInv, TypeOK
<1>3. ASSUME NEW t \in Tables, Consistent(t)  PROVE Consistent(t)'
  <2>1. \A u \in People : /\ t.users[u].subject \in Subjects \cup {None}
                          /\ t.users[u].email \in Addresses \cup {None}
    BY TablesHave DEF UserRows
  <2>2. QED
    BY <1>1, <1>3, <2>1 DEF Consistent
<1>4. ASSUME NEW t \in Tables, NEW d \in Tables, d = data, Follows(t, d)
      PROVE  Follows(t, data)'
  <2>1. \A u \in People : /\ t.users[u].subject \in Subjects \cup {None}
                          /\ t.users[u].email \in Addresses \cup {None}
                          /\ d.users[u].subject \in Subjects \cup {None}
                          /\ d.users[u].email \in Addresses \cup {None}
    BY TablesHave DEF UserRows
  <2>2. QED
    BY <1>1, <1>4, <2>1 DEF Follows
<1>5. ASSUME NEW q \in Requests  PROVE Asking(request[q], data)'
  <2>1. /\ request[q] \in Asks /\ data \in Tables /\ request[q].seen \in Tables
        /\ Asking(request[q], data)
    BY DEF TypeOK, Asks, AskInv
  <2>2. request[q].stage = "storing" =>
          Consistent(request[q].seen)' /\ Follows(request[q].seen, data)'
    BY <1>1, <1>3, <1>4, <2>1 DEF Asking, Consistent, Follows
  <2>3. request[q].stage \in {"known", "storing"} =>
          Class'[Holder[request[q].address]] = Class'[request[q].subject]
    BY <1>1, <2>1 DEF Asking
  <2>4. QED
    BY <1>1, <2>1, <2>2, <2>3 DEF Asking
<1>6. QED
  BY <1>2, <1>5 DEF AskInv

(* In the other stages nothing is asked of a request.                      *)
LEMMA AskFree ==
    ASSUME NEW x, x.stage \notin {"known", "storing", "leaving"}, NEW d
    PROVE  Asking(x, d)
BY DEF Asking

LEMMA AskStep ==
    ASSUME TypeOK, AskInv, OwnInv, [Next]_vars
    PROVE  AskInv'
<1>1. Follows(data, data')
  BY OwnStep
<1>2. ASSUME NEW q \in Requests, RequestStep(q)  PROVE AskInv'
  <2> DEFINE x == request[q]
  <2>1. x \in Asks /\ Asking(x, data)
    BY DEF TypeOK, AskInv
  <2>2. address' = address /\ passed' = passed
    BY <1>2 DEF RequestStep, MarkUsed, Exchange, Lookup, Store, Revoke, Create,
                Answer, Abort, Disconnect
  <2>3. ASSUME NEW y, Becomes(q, y),
               y.stage \notin {"known", "storing", "leaving"}
        PROVE  AskInv'
    BY <1>1, <2>2, <2>3, AskOne, AskFree
  <2>4. CASE MarkUsed(q)
    <3>1. [x EXCEPT !.stage = "exchanging"].stage = "exchanging"
      BY <2>1 DEF Asks
    <3>2. QED
      BY <2>3, <2>4, <3>1 DEF MarkUsed
  <2>5. CASE Exchange(q)
    <3>1. PICK s \in Subjects :
            Becomes(q, [x EXCEPT !.stage = "known", !.subject = s,
                                 !.address = address[s]])
      BY <2>5 DEF Exchange
    <3> DEFINE a == address[s]
               y == [x EXCEPT !.stage = "known", !.subject = s, !.address = a]
    <3>2. a \in Addresses /\ Class[Holder[a]] = Class[s]
      BY DEF TypeOK, AskInv
    <3>3. Becomes(q, y)
      BY <3>1
    <3> HIDE DEF a
    <3>4. y.stage = "known" /\ y.subject = s /\ y.address = a
      BY <2>1 DEF Asks
    <3> HIDE DEF y
    <3>5. Asking(y, data')
      BY <3>2, <3>4 DEF Asking
    <3>6. QED
      BY <1>1, <2>2, <3>3, <3>5, AskOne
  <2>6. CASE Lookup(q)
    <3> DEFINE y == [x EXCEPT !.stage = "storing", !.seen = data]
    <3>1. Becomes(q, y) /\ data' = data /\ x.stage = "known"
      BY <2>6 DEF Lookup
    <3>2. /\ y.stage = "storing" /\ y.subject = x.subject
          /\ y.address = x.address /\ y.seen = data
      BY <2>1 DEF Asks
    <3> HIDE DEF y
    <3>3. Asking(y, data)
      BY <2>1, <3>1, <3>2, FollowsItself DEF Asking, OwnInv
    <3>4. Asking(y, data')
      BY <3>1, <3>3
    <3>5. QED
      BY <1>1, <2>2, <3>1, <3>4, AskOne
  <2>7. CASE Store(q)
    <3>1. PICK u : Becomes(q, [x EXCEPT !.stage = "revoking", !.user = u,
                                        !.subject = None, !.address = None,
                                        !.seen = NoTables])
      BY <2>7 DEF Store
    <3>2. [x EXCEPT !.stage = "revoking", !.user = u, !.subject = None,
                    !.address = None, !.seen = NoTables].stage = "revoking"
      BY <2>1 DEF Asks
    <3>3. QED
      BY <2>3, <3>1, <3>2
  <2>8. CASE Revoke(q)
    <3> DEFINE n == IF x.user = None THEN "answering" ELSE "creating"
               y == [x EXCEPT !.cookie = None, !.stage = n]
    <3>1. Becomes(q, y)
      BY <2>8 DEF Revoke
    <3>2. n \in {"answering", "creating"}
      OBVIOUS
    <3> HIDE DEF n
    <3>3. y.stage = n
      BY <2>1 DEF Asks
    <3> HIDE DEF y
    <3>4. QED
      BY <2>3, <3>1, <3>2, <3>3
  <2>9. CASE Create(q)
    <3>1. PICK s : Becomes(q, [x EXCEPT !.stage = "answering", !.user = None,
                                        !.session = s])
      BY <2>9 DEF Create
    <3>2. [x EXCEPT !.stage = "answering", !.user = None, !.session = s].stage
            = "answering"
      BY <2>1 DEF Asks
    <3>3. QED
      BY <2>3, <3>1, <3>2
  <2>10. CASE Answer(q) \/ Abort(q) \/ Disconnect(q)
    <3>1. Becomes(q, Idle)
      BY <2>10 DEF Answer, Abort, Disconnect
    <3>2. QED
      BY <2>3, <3>1, IdleTyped
  <2>11. QED
    BY <1>2, <2>4, <2>5, <2>6, <2>7, <2>8, <2>9, <2>10 DEF RequestStep
<1>3. ASSUME NEW b \in Browsers, BrowserStep(b)  PROVE AskInv'
  <2>1. address' = address /\ passed' = passed
    BY <1>3 DEF BrowserStep, Start, OpenPage, Callback, StartDemo, Logout,
                BeginDisconnect
  <2>2. CASE Start(b) \/ OpenPage(b)
    BY <1>1, <2>1, <2>2, AskNone DEF Start, OpenPage, AskInv
  <2>3. ASSUME NEW q \in Requests,
               Callback(q, b) \/ StartDemo(q, b) \/ Logout(q, b)
        PROVE  AskInv'
    <3> DEFINE c == jar[b].session
               t == jar[b].state
               x == [Idle EXCEPT !.stage = "tested", !.by = b, !.state = t,
                                 !.cookie = c]
               y == [Idle EXCEPT !.stage = "revoking", !.by = b, !.user = Demo,
                                 !.cookie = c]
               z == [Idle EXCEPT !.stage = "revoking", !.by = b, !.cookie = c]
    <3>1. Becomes(q, x) \/ Becomes(q, y) \/ Becomes(q, z)
      BY <2>3 DEF Callback, StartDemo, Logout
    <3> HIDE DEF c, t
    <3>2. x.stage = "tested" /\ y.stage = "revoking" /\ z.stage = "revoking"
      BY DEF Idle
    <3> HIDE DEF x, y, z
    <3>3. QED
      BY <1>1, <2>1, <3>1, <3>2, AskOne, AskFree
  <2>4. ASSUME NEW q \in Requests, BeginDisconnect(q, b)  PROVE AskInv'
    <3> DEFINE u == CurrentUser(jar[b].session)
    <3>1. PICK a \in Addresses :
            /\ <<u, a>> \in data.accounts
            /\ Becomes(q, [Idle EXCEPT !.stage = "leaving", !.by = b,
                                       !.user = u, !.address = a])
      BY <2>4 DEF BeginDisconnect
    <3>2. u \in People
      BY <2>4, <3>1, TablesHave DEF BeginDisconnect, Personal, TypeOK, Users
    <3> HIDE DEF u
    <3> DEFINE y == [Idle EXCEPT !.stage = "leaving", !.by = b, !.user = u,
                                 !.address = a]
    <3>3. y.stage = "leaving" /\ y.user = u
      BY DEF Idle
    <3>4. Becomes(q, y)
      BY <3>1
    <3> HIDE DEF y
    <3>5. Asking(y, data')
      BY <3>2, <3>3 DEF Asking
    <3>6. QED
      BY <1>1, <2>1, <3>4, <3>5, AskOne
  <2>5. QED
    BY <1>3, <2>2, <2>3, <2>4 DEF BrowserStep
<1>4. CASE Elsewhere
  <2>1. ASSUME NEW u, NEW a, NEW m, NEW k, NEW t,
               Import(u, a, m) \/ ExpireSession(k) \/ ExpireState(t)
        PROVE  request' = request /\ address' = address /\ passed' = passed
    BY <2>1 DEF Import, ExpireSession, ExpireState, web
  <2>2. QED
    BY <1>1, <1>4, <2>1, AskNone, AskRename DEF Elsewhere
<1>5. CASE UNCHANGED vars
  BY <1>1, <1>5, AskNone DEF vars, web, AskInv
<1>6. QED
  BY <1>2, <1>3, <1>4, <1>5 DEF Next

LEMMA LeftStep ==
    ASSUME TypeOK, LeftInv, [Next]_vars
    PROVE  LeftInv'
<1>1. ASSUME left' = left, sessions' = sessions  PROVE LeftInv'
  BY <1>1 DEF LeftInv
<1>2. \A s \in left : s \in Sessions /\ sessions[s].status = "ended"
  BY DEF TypeOK, LeftInv
<1>3. ASSUME NEW q \in Requests, Revoke(q)  PROVE LeftInv'
  <2> DEFINE s == request[q].cookie
  <2>1. s \in Sessions \cup {None} /\ Made(s)
    BY DEF TypeOK, Asks
  <2>2. CASE s = None
    BY <1>1, <1>3, <2>2 DEF Revoke, Live
  <2>3. CASE s # None
    <3>1. left' = left \cup {s} /\ s \in Sessions
      BY <1>3, <2>1, <2>3 DEF Revoke
    <3>2. sessions[s].status \in {"live", "ended"}
      BY <2>1, <2>3, <3>1 DEF TypeOK, Made
    <3>3. \/ sessions[s].status = "ended" /\ sessions' = sessions
          \/ sessions' = [sessions EXCEPT ![s].status = "ended"]
      BY <1>3, <2>3, <3>2 DEF Revoke, Live
    <3> HIDE DEF s
    <3>4. /\ sessions'[s].status = "ended"
          /\ \A v \in Sessions : v # s => sessions'[v] = sessions[v]
      BY <3>1, <3>3 DEF TypeOK
    <3>5. QED
      BY <1>2, <3>1, <3>4 DEF LeftInv
  <2>4. QED
    BY <2>2, <2>3
<1>4. ASSUME NEW q \in Requests, Create(q)  PROVE LeftInv'
  <2>1. PICK s \in Sessions :
          /\ sessions[s].status = "free"
          /\ sessions' = [sessions EXCEPT
                            ![s] = [user |-> request[q].user, status |-> "live"]]
    BY <1>4 DEF Create
  <2>2. left' = left /\ \A v \in Sessions : v # s => sessions'[v] = sessions[v]
    BY <1>4, <2>1 DEF TypeOK, Create
  <2>3. QED
    BY <1>2, <2>1, <2>2 DEF LeftInv
<1>5. ASSUME NEW s \in Sessions, ExpireSession(s)  PROVE LeftInv'
  <2>1. left' = left /\ sessions' = [sessions EXCEPT ![s].status = "ended"]
    BY <1>5 DEF ExpireSession
  <2>2. /\ sessions'[s].status = "ended"
        /\ \A v \in Sessions : v # s => sessions'[v] = sessions[v]
    BY <2>1 DEF TypeOK
  <2>3. QED
    BY <1>2, <2>1, <2>2 DEF LeftInv
<1>6. ASSUME NEW q \in Requests,
             \/ MarkUsed(q) \/ Exchange(q) \/ Lookup(q) \/ Store(q)
             \/ Answer(q) \/ Abort(q) \/ Disconnect(q)
      PROVE  LeftInv'
  BY <1>1, <1>6 DEF MarkUsed, Exchange, Lookup, Store, Answer, Abort, Disconnect
<1>7. ASSUME NEW b \in Browsers, BrowserStep(b)  PROVE LeftInv'
  BY <1>1, <1>7 DEF BrowserStep, Start, OpenPage, Callback, StartDemo, Logout,
                    BeginDisconnect
<1>8. ASSUME NEW u, NEW a, NEW m, NEW s, NEW t,
             Import(u, a, m) \/ Rename(s, a) \/ ExpireState(t)
      PROVE  LeftInv'
  BY <1>1, <1>8 DEF Import, Rename, ExpireState, web
<1>9. CASE UNCHANGED vars
  BY <1>1, <1>9 DEF vars, web
<1>10. QED
  BY <1>3, <1>4, <1>5, <1>6, <1>7, <1>8, <1>9 DEF Next, RequestStep, Elsewhere

LEMMA InvInit == Init => AskInv /\ OwnInv /\ LeftInv
<1> SUFFICES ASSUME Init  PROVE AskInv /\ OwnInv /\ LeftInv
  OBVIOUS
<1>1. AskInv
  <2>1. \A q \in Requests : request[q].stage = "idle"
    BY IdleTyped DEF Init
  <2>2. \A s \in Subjects : Class[Holder[address[s]]] = Class[s]
    BY DEF Init
  <2>3. QED
    BY <2>1, <2>2 DEF AskInv, Asking
<1>2. /\ \A p \in People : data.users[p] =
           IF p \in OldPeople THEN [email |-> FirstAddress[p], subject |-> None]
                              ELSE NoUser
      /\ data.accounts = {<<Demo, a>> : a \in OldAddresses}
      /\ \A m \in Mail : data.mail[m] = {Demo}
      /\ signed = {} /\ left = {}
  <2> DEFINE people == [p \in People |->
                          IF p \in OldPeople
                            THEN [email |-> FirstAddress[p], subject |-> None]
                            ELSE NoUser]
             box == [m \in Mail |-> {Demo}]
  <2>1. data = [users |-> people, accounts |-> {<<Demo, a>> : a \in OldAddresses},
                mail |-> box]
    BY DEF Init
  <2>2. data.users = people /\ data.mail = box
    <3> HIDE DEF people, box
    <3>1. QED
      BY <2>1
  <2>3. data.accounts = {<<Demo, a>> : a \in OldAddresses}
    <3> HIDE DEF people, box
    <3>1. QED
      BY <2>1
  <2>4. signed = {} /\ left = {}
    BY DEF Init
  <2>5. \A p \in People : data.users[p] =
           IF p \in OldPeople THEN [email |-> FirstAddress[p], subject |-> None]
                              ELSE NoUser
    BY <2>2
  <2>6. \A m \in Mail : data.mail[m] = {Demo}
    BY <2>2
  <2>7. QED
    BY <2>3, <2>4, <2>5, <2>6
<1>3. ASSUME NEW p \in People  PROVE data.users[p].subject = None
  <2>1. CASE p \in OldPeople
    <3>1. data.users[p] = [email |-> FirstAddress[p], subject |-> None]
      BY <1>2, <2>1
    <3>2. QED
      BY <3>1
  <2>2. CASE p \notin OldPeople
    <3>1. data.users[p] = [email |-> None, subject |-> None]
      BY <1>2, <2>2 DEF NoUser
    <3>2. QED
      BY <3>1
  <2>3. QED
    BY <2>1, <2>2
<1>4. Consistent(data)
  <2>1. /\ \A a \in Addresses : <<Demo, a>> \in data.accounts => a \in OldAddresses
        /\ \A a \in OldAddresses : <<Demo, a>> \in data.accounts
    BY <1>2
  <2>2. QED
    BY <1>2, <1>3, <2>1 DEF Consistent
<1>5. Distinct(data.users)
  <2>1. ASSUME NEW p \in People, data.users[p].email # None
        PROVE  p \in OldPeople /\ data.users[p].email = FirstAddress[p]
    <3>1. CASE p \in OldPeople
      <4>1. data.users[p] = [email |-> FirstAddress[p], subject |-> None]
        BY <1>2, <3>1
      <4>2. QED
        BY <3>1, <4>1
    <3>2. CASE p \notin OldPeople
      <4>1. data.users[p] = [email |-> None, subject |-> None]
        BY <1>2, <3>2 DEF NoUser
      <4>2. QED
        BY <2>1, <4>1
    <3>3. QED
      BY <3>1, <3>2
  <2>2. QED
    BY <1>3, <2>1, AccessAssumption DEF Distinct
<1>6. OwnInv
  <2>1. Demo \notin People
    BY AccessAssumption
  <2>2. \A u \in People, a \in Addresses : <<u, a>> \notin data.accounts
    BY <1>2, <2>1
  <2>3. QED
    BY <1>2, <1>4, <1>5, <2>1, <2>2 DEF OwnInv
<1>7. LeftInv
  BY <1>2 DEF LeftInv
<1>8. QED
  BY <1>1, <1>6, <1>7

LEMMA InvAlways == Spec => [](TypeOK /\ AskInv /\ OwnInv /\ LeftInv)
<1>1. Init => TypeOK /\ AskInv /\ OwnInv /\ LeftInv
  BY TypeInit, InvInit
<1>2. TypeOK /\ AskInv /\ OwnInv /\ LeftInv /\ [Next]_vars
        => TypeOK' /\ AskInv' /\ OwnInv' /\ LeftInv'
  BY TypeStep, AskStep, OwnStep, LeftStep
<1>3. QED
  BY <1>1, <1>2, PTL DEF Spec

-----------------------------------------------------------------------------
(* Users, cookies, sessions and requests keep their types, and every       *)
(* session a cookie or a request names is a row of user_sessions.          *)
THEOREM AccessTypes == Spec => []TypeOK
BY InvAlways, PTL

(* However first sign-ins race, states are answered twice and accounts     *)
(* change or pass on their addresses, an account whose addresses are its   *)
(* own signs in as one user, and as that user nobody else does             *)
(* (complete_oauth, which finds a user by e-mail and compares no subject). *)
THEOREM OneUser == Spec => []OneUserPerSubject
<1>1. TypeOK /\ OwnInv => OneUserPerSubject
  <2> SUFFICES ASSUME TypeOK, OwnInv, NEW p \in signed, NEW r \in signed,
                      Clean(p[1])
               PROVE  p[1] = r[1] <=> p[2] = r[2]
    BY DEF OneUserPerSubject
  <2>1. /\ p[2] \in People /\ r[2] \in People
        /\ p[1] \in Subjects /\ r[1] \in Subjects
        /\ OfClass(data.users, p[2], p[1]) /\ OfClass(data.users, r[2], r[1])
        /\ \A u \in People : data.users[u].subject \in Subjects \cup {None}
    BY TablesHave DEF TypeOK, OwnInv, UserRows
  <2>2. \A s \in Subjects : Class[s] = Class[p[1]] => s = p[1]
    BY <2>1, ClassMeans DEF Same
  <2>3. data.users[p[2]].subject = p[1]
    BY <2>1, <2>2 DEF OfClass
  <2>4. ASSUME p[1] = r[1]  PROVE p[2] = r[2]
    <3>1. data.users[r[2]].subject = p[1]
      BY <2>1, <2>2, <2>4 DEF OfClass
    <3>2. QED
      BY <2>1, <2>3, <3>1 DEF OwnInv, Distinct, OfClass
  <2>5. ASSUME p[2] = r[2]  PROVE p[1] = r[1]
    BY <2>1, <2>2, <2>3, <2>5 DEF OfClass
  <2>6. QED
    BY <2>4, <2>5
<1>2. QED
  BY <1>1, InvAlways, PTL

(* A connected account is only ever with the user of the Google account    *)
(* that holds the address, and a message with the users of its own account *)
(* or of one the demo user had connected, as far as those accounts share   *)
(* no address (complete_oauth, _copy_legacy_gmail_data, which does not     *)
(* tell the demo user's accounts apart, disconnect_gmail).                 *)
THEOREM HoldersMail == Spec => []MailIsItsHolders
<1>1. TypeOK /\ OwnInv => MailIsItsHolders
  <2> SUFFICES ASSUME TypeOK, OwnInv  PROVE MailIsItsHolders
    OBVIOUS
  <2>1. ASSUME NEW u \in People, NEW s \in Subjects, OfClass(data.users, u, s)
        PROVE  Same(data.users[u].subject, s)
    <3>1. data.users[u].subject \in Subjects
      BY <2>1, TablesHave DEF TypeOK, UserRows, OfClass
    <3>2. QED
      BY <2>1, <3>1, ClassMeans DEF OfClass
  <2>2. ASSUME NEW u \in People, NEW a \in Addresses, <<u, a>> \in data.accounts
        PROVE  Same(data.users[u].subject, Holder[a])
    BY <2>1, <2>2, AccessAssumption DEF OwnInv
  <2>3. ASSUME NEW u \in Users, NEW m \in Mail, Owns(u, m)
        PROVE  \E s \in Entitled(m) : Same(data.users[u].subject, s)
    <3>1. u \in People /\ u \in data.mail[m]
      BY <2>3 DEF Owns, Users
    <3>2. PICK s \in Entitled(m) : OfClass(data.users, u, s)
      BY <3>1 DEF OwnInv
    <3>3. s \in Subjects
      BY AccessAssumption DEF Entitled
    <3>4. QED
      BY <2>1, <3>1, <3>2, <3>3
  <2>4. QED
    BY <2>2, <2>3 DEF MailIsItsHolders
<1>2. QED
  BY <1>1, InvAlways, PTL

(* The old mail moves as a whole, with the first of its credentials, and   *)
(* none is lost (_copy_legacy_gmail_data).                                 *)
THEOREM MovesWhole == Spec => []MailMovesWhole
<1>1. OwnInv => MailMovesWhole
  BY DEF OwnInv, Consistent, MailMovesWhole
<1>2. QED
  BY <1>1, InvAlways, PTL

(* A form is only accepted in the session it was rendered for, and never   *)
(* in one that was signed out or replaced (validate_action_csrf,           *)
(* revoke_request_session).                                                *)
THEOREM FormsActForTheirReader == Spec => []FormActsForItsReader
<1>1. TypeOK /\ LeftInv => FormActsForItsReader
  <2> SUFFICES ASSUME TypeOK, LeftInv, NEW b \in Browsers, Accepts(b)
               PROVE  /\ sessions[page[b]].user = CurrentUser(jar[b].session)
                      /\ jar[b].session \notin left
    BY DEF FormActsForItsReader
  <2>1. page[b] = jar[b].session /\ Live(jar[b].session)
    BY DEF Accepts, Personal, CurrentUser
  <2>2. QED
    BY <2>1 DEF CurrentUser, Live, LeftInv
<1>2. QED
  BY <1>1, InvAlways, PTL
=============================================================================
