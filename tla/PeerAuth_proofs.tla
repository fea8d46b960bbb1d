-------------------------- MODULE PeerAuth_proofs ---------------------------
(***************************************************************************)
(* Proofs about the authentication of two peers, for any number of peers,  *)
(* calls and sessions and any capacity of the SessionManagers.             *)
(***************************************************************************)
EXTENDS PeerAuth, TLAPS

Pcs == {"start", "keying", "waiting", "woken", "signing", "verifying", "claimed", "authenticated",
        "validated", "marking", "marked", "blocked", "ready"}
Procs == [job : {"call", "answer", "handler"}, at : Peers, with : Peers,
          subject : Calls \cup Messages, copy : 0..2, pc : Pcs,
          session : Nonces \cup {NoNonce}]

Typed ==
    /\ made \in [Peers -> 0..MaxNonces]
    /\ object \in [Nonces -> Sessions]
    /\ stored \in [Peers -> SUBSET Nonces]
    /\ claimed \in [Nonces -> SUBSET net]
    /\ requests \in [Peers -> SUBSET net]
    /\ net \subseteq Messages
    /\ copies \in [net -> 0..2]
    /\ proc \subseteq Procs
    /\ call \in [Calls -> {"active", "sent", "failed"}]
    /\ keyed \subseteq Peers
    /\ forgotten \subseteq Nonces /\ abandoned \subseteq Nonces /\ lapsed \subseteq Nonces

Created(n) == n \in Nonces /\ n[2] <= made[Creator(n)]

\* Session n is one that asked for a handshake; the others answered one.
Asked(n) == \E m \in net : m.type = "initialRequest" /\ m.initialNonce = n

\* Session n and the one it names have paired; the latter may have been paired
\* again if its request was answered again.
Paired(n) ==
    LET k == object[n].peerNonce
    IN /\ k # NoNonce
       /\ object[n].peer = Creator(k) /\ object[k].peer = Creator(n)
       /\ object[k].peerNonce # NoNonce /\ (object[k].peerNonce = n \/ k \in lapsed)

\* Session n asked for a handshake or has no session to name yet.
Open(n) == Asked(n) \/ object[n].peerNonce = NoNonce

(***************************************************************************)
(* A nonce that has not been created yet appears nowhere.                  *)
(***************************************************************************)
Fresh ==
    /\ \A n \in Nonces : ~Created(n) => object[n] = NoSession
    /\ \A n \in Nonces : object[n].peerNonce # NoNonce => Created(object[n].peerNonce)
    /\ \A p \in Peers : \A n \in stored[p] : Created(n) /\ Creator(n) = p
    /\ \A m \in net : m.type # "general" => Created(m.initialNonce)
    /\ \A m \in net : m.type # "initialRequest" => Created(m.yourNonce)

(***************************************************************************)
(* What a process is about.  A handler keeps the session it looked up, and *)
(* the object is the one of that session whether it is stored or not.      *)
(***************************************************************************)
Idle == {"start", "keying", "waiting", "woken", "signing"}
Proper(r) ==
    /\ r.job = "call" => r.subject \in Calls
    /\ r.job # "handler" <=> r.pc \in Idle
    /\ r.job = "handler" =>
          /\ r.subject \in net /\ r.subject.type # "initialRequest"
          /\ r.at = r.subject.to /\ r.with = r.subject.from
          /\ r.session = r.subject.yourNonce
          /\ 1 <= r.copy /\ r.copy <= copies[r.subject]
    /\ r.pc \in {"authenticated", "validated"} => r.subject.type = "initialResponse"
    /\ r.pc \in {"marking", "marked"} => r.subject.type # "initialResponse"
    /\ r.pc \in {"blocked", "ready"} => r.subject.type = "general"
    /\ r.pc # "start" =>
          Created(r.session) /\ Creator(r.session) = r.at /\ object[r.session].peer = r.with
    /\ r.pc \in {"signing", "authenticated", "validated", "marked", "blocked", "ready"} =>
          object[r.session].isAuthenticated
    /\ r.pc = "keying" => Open(r.session)

(***************************************************************************)
(* Handshakes.  A session that answers names the session that asked, which *)
(* names it in turn once the response has come.  It is the only one for    *)
(* its request as long as the claim of the request is not forgotten.       *)
(***************************************************************************)
RequestsSound ==
    /\ \A p \in Peers : \A m \in requests[p] : m.type = "initialRequest"
    /\ \A m \in net : m.type = "initialRequest" =>
        /\ m.from = Creator(m.initialNonce) /\ object[m.initialNonce].peer = m.to
        /\ \A k \in net : k.type = "initialRequest" /\ k.initialNonce = m.initialNonce => k = m

Answers(k, n) ==
    /\ Asked(n)
    /\ object[k].peer = Creator(n) /\ object[n].peer = Creator(k)
    /\ n \notin lapsed =>
          \E m \in requests[Creator(k)] : m.type = "initialRequest" /\ m.initialNonce = n

AnswersSound ==
    /\ \A k \in Nonces : ~Asked(k) /\ object[k].peerNonce # NoNonce =>
          Answers(k, object[k].peerNonce)
    /\ \A k, l \in Nonces : ~Asked(k) /\ ~Asked(l) /\ object[k].peerNonce # NoNonce
                               /\ object[k].peerNonce = object[l].peerNonce
          => k = l \/ object[k].peerNonce \in lapsed

ResponsesSound ==
    \A m \in net : m.type = "initialResponse" =>
        /\ ~Asked(m.initialNonce) /\ object[m.initialNonce].peerNonce = m.yourNonce
        /\ m.from = Creator(m.initialNonce) /\ m.to = Creator(m.yourNonce)

AskersPaired ==
    \A n \in Nonces : Asked(n) /\ object[n].peerNonce # NoNonce =>
        LET k == object[n].peerNonce IN Paired(n) /\ ~Asked(k) /\ object[k].peerNonce = n

OthersPaired ==
    /\ \A m \in net : m.type \in {"certificateResponse", "general"} => Paired(m.yourNonce)
    /\ \A n \in Nonces : object[n].isAuthenticated => Paired(n)

Pairing == RequestsSound /\ AnswersSound /\ ResponsesSound /\ AskersPaired /\ OthersPaired

SessionInv == Typed /\ Fresh /\ (\A r \in proc : Proper(r)) /\ Pairing

-----------------------------------------------------------------------------
\* Waiters for the validation of certificates.
Blocked ==
    \A r \in proc : r.pc = "blocked" =>
        r.at \in Requesters /\ ~object[r.session].certificatesValidated

-----------------------------------------------------------------------------
(***************************************************************************)
(* Deliveries of a general message.                                        *)
(***************************************************************************)
HandlerOf(r, m) == r.job = "handler" /\ r.subject = m

OneMessage ==
    /\ \A r, s \in proc : r.job = "call" /\ s.job = "call" /\ r.subject = s.subject => r = s
    /\ \A m \in net : m.type = "general" =>
          \A r \in proc : ~(r.job = "call" /\ r.subject = m.call)
    /\ \A m, k \in net : m.type = "general" /\ k.type = "general" /\ m.call = k.call => m = k

OneHandler ==
    \A r, s \in proc : r.job = "handler" /\ s.job = "handler" /\ r.subject = s.subject
                          /\ r.copy = s.copy => r = s

At(m, i) == IF \E r \in proc : HandlerOf(r, m) /\ r.copy = i THEN 1 ELSE 0

\* Every delivery is under way, dispatched or dropped.
Accounted ==
    /\ dispatched \in [Calls -> Nat]
    /\ \A m \in net : m.type = "general" =>
          dispatched[m.call] + At(m, 1) + At(m, 2) <= copies[m]
    /\ \A c \in Calls : dispatched[c] # 0 => \E m \in net : m.type = "general" /\ m.call = c

\* The handler has claimed the nonce of its message.
PastClaim(r) == r.pc \in {"claimed", "marking", "marked", "blocked", "ready"}

\* Session n is gone and no handler can store it again.
Dead(n) ==
    /\ n \notin stored[Creator(n)]
    /\ \A r \in proc : ~(r.job = "handler" /\ r.session = n)

ClaimedOnce ==
    \A m \in net : m.type = "general" /\ m.yourNonce \notin forgotten =>
        /\ \A r, s \in proc : HandlerOf(r, m) /\ PastClaim(r) /\ HandlerOf(s, m) /\ PastClaim(s)
              => r = s
        /\ dispatched[m.call] # 0 =>
              /\ dispatched[m.call] = 1
              /\ \A r \in proc : ~(HandlerOf(r, m) /\ PastClaim(r))
        /\ dispatched[m.call] # 0 \/ (\E r \in proc : HandlerOf(r, m) /\ PastClaim(r)) =>
              m \in claimed[m.yourNonce] \/ Dead(m.yourNonce)

DispatchInv == OneMessage /\ OneHandler /\ Accounted /\ ClaimedOnce

-----------------------------------------------------------------------------
(***************************************************************************)
(* Values.                                                                 *)
(***************************************************************************)
LEMMA NonceFacts ==
    /\ NoNonce \notin Nonces
    /\ \A n \in Nonces : n[1] \in Peers /\ n[2] \in Nat /\ Creator(n) = n[1]
    /\ \A p \in Peers : \A i \in 1..MaxNonces :
          <<p, i>> \in Nonces /\ <<p, i>>[1] = p /\ <<p, i>>[2] = i
  BY BoundsPositive DEF Nonces, NoNonce, None, Creator

LEMMA MessageFacts ==
    ASSUME NEW m \in Messages
    PROVE  /\ m.type \in {"initialRequest", "initialResponse", "certificateResponse", "general"}
           /\ m.from \in Peers /\ m.to \in Peers
           /\ m.type # "general" => m.initialNonce \in Nonces
           /\ m.type # "initialRequest" => m.yourNonce \in Nonces
           /\ m.type = "general" => m.call \in Calls
  BY DEF Messages

LEMMA ProcFacts ==
    ASSUME NEW r \in Procs, NEW pc \in Pcs
    PROVE  [r EXCEPT !.pc = pc] \in Procs
  BY DEF Procs

-----------------------------------------------------------------------------
LEMMA AdmitFacts ==
    ASSUME Typed, NEW p \in Peers, NEW n \in Nonces, NEW e \in Admit(p, n)
    PROVE  /\ e \subseteq stored[p] /\ n \notin e
           /\ \A k \in e : ~object[k].isAuthenticated
  BY DEF Admit, Typed

LEMMA StoreTyped ==
    ASSUME Typed, NEW p \in Peers, NEW n \in Nonces, NEW s \in Sessions, NEW e \in Admit(p, n),
           Store(p, n, s, e), net \subseteq net'
    PROVE  /\ object' \in [Nonces -> Sessions]
           /\ stored' \in [Peers -> SUBSET Nonces]
           /\ claimed' \in [Nonces -> SUBSET net']
           /\ forgotten' \subseteq Nonces
  BY AdmitFacts DEF Store, Typed

LEMMA EndedTyped ==
    ASSUME Typed, NEW r \in proc, Proper(r), NEW how \in {"sent", "failed"}, Ended(r, how)
    PROVE  call' \in [Calls -> {"active", "sent", "failed"}]
  BY DEF Ended, Typed, Proper

LEMMA TypedNext ==
    ASSUME SessionInv, [Next]_vars
    PROVE  Typed'
<1>0. /\ Typed /\ Fresh /\ \A r \in proc : r \in Procs /\ Proper(r)
      /\ RequestsSound /\ OthersPaired
  BY DEF SessionInv, Typed, Pairing
<1>1. ASSUME NEW m \in net, ProcessInitialRequest(m) PROVE Typed'
  <2> DEFINE p == m.to
             n == <<p, made[p] + 1>>
             response == [type |-> "initialResponse", from |-> p, to |-> m.from,
                          initialNonce |-> n, yourNonce |-> m.initialNonce,
                          certificates |-> m.from \in Requesters /\ p \in Certified]
             s == [peer |-> m.from, peerNonce |-> m.initialNonce, isAuthenticated |-> FALSE,
                   certificatesValidated |-> p \notin Requesters]
  <2>1. /\ m.type = "initialRequest" /\ copies[m] < Copies(m) /\ made[p] < MaxNonces
        /\ requests' = [requests EXCEPT ![p] = @ \cup {m}]
        /\ made' = [made EXCEPT ![p] = @ + 1]
        /\ UNCHANGED <<proc, call, abandoned, lapsed>>
    BY <1>1 DEF ProcessInitialRequest, Answer
  <2>2. p \in Peers /\ n \in Nonces /\ m.from \in Peers /\ m.initialNonce \in Nonces
    BY <1>0, <2>1, MessageFacts, NonceFacts, BoundsPositive DEF Typed
  <2>3. response \in Messages /\ s \in Sessions
    BY <2>2 DEF Messages, Sessions
  <2>4. made' \in [Peers -> 0..MaxNonces] /\ copies[m] + 1 \in 0..2
    BY <1>0, <2>1, <2>2, BoundsPositive DEF Typed, Copies
  <2>5. CASE \E e \in Admit(p, n), answered \in {{}, {response}} :
                /\ Store(p, n, s, e)
                /\ net' = net \cup answered
                /\ copies' = [k \in net \cup answered |->
                                IF k = m THEN copies[m] + 1
                                ELSE IF k \in net THEN copies[k] ELSE 0]
                /\ keyed' = IF answered = {} THEN keyed ELSE keyed \cup {p}
    <3>1. PICK e \in Admit(p, n), answered \in {{}, {response}} :
                /\ Store(p, n, s, e)
                /\ net' = net \cup answered
                /\ copies' = [k \in net \cup answered |->
                                IF k = m THEN copies[m] + 1
                                ELSE IF k \in net THEN copies[k] ELSE 0]
                /\ keyed' = IF answered = {} THEN keyed ELSE keyed \cup {p}
      BY <2>5
    <3> HIDE DEF p, n, s, response
    <3>2. /\ object' \in [Nonces -> Sessions] /\ stored' \in [Peers -> SUBSET Nonces]
          /\ claimed' \in [Nonces -> SUBSET net'] /\ forgotten' \subseteq Nonces
      BY <1>0, <2>2, <2>3, <3>1, StoreTyped
    <3>3. copies' \in [net' -> 0..2]
      BY <1>0, <2>4, <3>1 DEF Typed
    <3>4. requests' \in [Peers -> SUBSET net']
      BY <1>0, <2>1, <2>2, <3>1 DEF Typed
    <3>5. keyed' \subseteq Peers /\ net' \subseteq Messages
      BY <1>0, <2>2, <2>3, <3>1 DEF Typed, p
    <3> QED BY <1>0, <2>1, <2>4, <3>1, <3>2, <3>3, <3>4, <3>5 DEF Typed
  <2>6. CASE /\ copies' = [copies EXCEPT ![m] = @ + 1]
             /\ UNCHANGED <<object, stored, claimed, net, keyed, forgotten>>
    BY <1>0, <2>1, <2>2, <2>4, <2>6 DEF Typed
  <2> QED BY <1>1, <2>5, <2>6 DEF ProcessInitialRequest, Answer
<1>2. ASSUME NEW m \in net, Receive(m) PROVE Typed'
  <2>1. /\ m.type # "initialRequest" /\ copies[m] < Copies(m)
        /\ copies' = [copies EXCEPT ![m] = @ + 1]
        /\ UNCHANGED <<made, object, stored, claimed, requests, call, net, keyed, forgotten,
                       abandoned, lapsed>>
    BY <1>2 DEF Receive, Deliver, manager
  <2>2. copies[m] + 1 \in 0..2
    BY <1>0, <2>1 DEF Typed, Copies
  <2>3. Proc("handler", m.to, m.from, m, copies[m] + 1, "verifying", m.yourNonce) \in Procs
    BY <1>0, <2>1, <2>2, MessageFacts DEF Typed, Proc, Procs, Pcs
  <2> QED BY <1>0, <1>2, <2>1, <2>2, <2>3 DEF Typed, Receive
<1>3. ASSUME NEW r \in proc, Begin(r) PROVE Typed'
  <2>1. CASE \E n \in Best(r.at, r.with) :
               /\ object[n].isAuthenticated
               /\ IF MaySendIn(r, n)
                  THEN Becomes(r, {[r EXCEPT !.pc = "signing", !.session = n]}) /\ UNCHANGED call
                  ELSE Becomes(r, {}) /\ Ended(r, "failed")
               /\ UNCHANGED <<manager, requests, net, copies, dispatched>>
    <3>1. PICK n \in Best(r.at, r.with) :
               /\ IF MaySendIn(r, n)
                  THEN Becomes(r, {[r EXCEPT !.pc = "signing", !.session = n]}) /\ UNCHANGED call
                  ELSE Becomes(r, {}) /\ Ended(r, "failed")
               /\ UNCHANGED <<manager, requests, net, copies, dispatched>>
      BY <2>1
    <3>2. n \in Nonces
      BY <1>0 DEF Best, Typed, Procs
    <3>3. [r EXCEPT !.pc = "signing", !.session = n] \in Procs
      BY <1>0, <3>2 DEF Procs, Pcs
    <3>4. call' \in [Calls -> {"active", "sent", "failed"}] /\ proc' \subseteq Procs
      BY <1>0, <3>1, <3>3, EndedTyped DEF Becomes, Typed
    <3> QED BY <1>0, <3>1, <3>4 DEF Typed, manager
  <2>2. CASE InitiateHandshake(r)
    <3> DEFINE p == r.at
               n == <<p, made[p] + 1>>
               s == [peer |-> r.with, peerNonce |-> NoNonce, isAuthenticated |-> FALSE,
                     certificatesValidated |-> p \notin Requesters]
    <3>1. /\ made[p] < MaxNonces /\ made' = [made EXCEPT ![p] = @ + 1]
          /\ UNCHANGED <<requests, net, copies, dispatched, keyed, abandoned, lapsed>>
      BY <2>2 DEF InitiateHandshake
    <3>2. p \in Peers /\ r.with \in Peers /\ n \in Nonces
      BY <1>0, <3>1, NonceFacts, BoundsPositive DEF Typed, Procs
    <3>3. s \in Sessions /\ made' \in [Peers -> 0..MaxNonces]
      BY <1>0, <3>1, <3>2, BoundsPositive DEF Sessions, Typed
    <3>4. CASE \E e \in Admit(p, n) :
                 /\ Store(p, n, s, e)
                 /\ Becomes(r, {[r EXCEPT !.pc = "keying", !.session = n]})
                 /\ UNCHANGED call
      <4>1. PICK e \in Admit(p, n) :
                 /\ Store(p, n, s, e)
                 /\ Becomes(r, {[r EXCEPT !.pc = "keying", !.session = n]})
                 /\ UNCHANGED call
        BY <3>4
      <4> HIDE DEF p, n, s
      <4>2. [r EXCEPT !.pc = "keying", !.session = n] \in Procs
        BY <1>0, <3>2 DEF Procs, Pcs
      <4>3. /\ object' \in [Nonces -> Sessions] /\ stored' \in [Peers -> SUBSET Nonces]
            /\ claimed' \in [Nonces -> SUBSET net'] /\ forgotten' \subseteq Nonces
        BY <1>0, <3>1, <3>2, <3>3, <4>1, StoreTyped
      <4> QED BY <1>0, <3>1, <3>3, <4>1, <4>2, <4>3 DEF Typed, Becomes
    <3>5. CASE /\ Becomes(r, {}) /\ Ended(r, "failed")
               /\ UNCHANGED <<object, stored, claimed, forgotten>>
      BY <1>0, <3>1, <3>3, <3>5, EndedTyped DEF Typed, Becomes
    <3> QED BY <2>2, <3>4, <3>5 DEF InitiateHandshake
  <2> QED BY <1>3, <2>1, <2>2 DEF Begin, GetAuthenticatedSession
<1>4. ASSUME NEW r \in proc, Throw(r) PROVE Typed' \/ ~UNCHANGED manager
  BY <1>0, <1>4, EndedTyped DEF Throw, Becomes, Typed, manager
<1>5. ASSUME NEW r \in proc, SendInitialRequest(r) PROVE Typed'
  <2> DEFINE request == [type |-> "initialRequest", from |-> r.at, to |-> r.with,
                         initialNonce |-> r.session]
  <2>1. /\ r.pc = "keying" /\ keyed' = keyed \cup {r.at} /\ Send({request})
        /\ Becomes(r, {[r EXCEPT !.pc = "waiting"]})
        /\ UNCHANGED <<made, object, stored, claimed, requests, call, forgotten, abandoned, lapsed>>
    BY <1>5 DEF SendInitialRequest
  <2>2. request \in Messages /\ r.at \in Peers
    BY <1>0, <2>1 DEF Messages, Procs, Proper, Created
  <2>3. [r EXCEPT !.pc = "waiting"] \in Procs
    BY <1>0, ProcFacts DEF Pcs
  <2> HIDE DEF request
  <2> QED BY <1>0, <2>1, <2>2, <2>3 DEF Send, Becomes, Typed
<1>6. ASSUME NEW r \in proc, IdentityKeyFails(r) PROVE Typed'
  BY <1>0, <1>6, EndedTyped DEF IdentityKeyFails, Throw, Becomes, Typed, Proper, Created
<1>7. ASSUME NEW p \in Peers, NEW m \in net, ForgetRequest(p, m) PROVE Typed'
  <2>1. m.initialNonce \in Nonces
    BY <1>0, <1>7, MessageFacts DEF ForgetRequest, Typed, RequestsSound
  <2> QED BY <1>0, <1>7, <2>1 DEF ForgetRequest, Typed
<1>8. ASSUME NEW r \in proc, GiveUp(r) \/ ValidationTimesOut(r) PROVE Typed'
  <2>1. CASE GiveUp(r)
    BY <1>0, <2>1, EndedTyped DEF GiveUp, RemoveSession, Throw, Becomes, Typed, Procs, Proper, Created
  <2> QED BY <1>4, <1>8, <2>1 DEF ValidationTimesOut
<1>9. ASSUME NEW r \in proc, Resume(r) PROVE Typed'
  BY <1>0, <1>4, <1>9, ProcFacts DEF Resume, Becomes, Typed, manager, Pcs
<1>10. ASSUME NEW r \in proc, SendSigned(r) PROVE Typed'
  <2> DEFINE n == r.session
             general == [type |-> "general", from |-> r.at, to |-> r.with,
                         yourNonce |-> object[n].peerNonce, call |-> r.subject]
             response == [type |-> "certificateResponse", from |-> r.at, to |-> r.with,
                          initialNonce |-> n, yourNonce |-> object[n].peerNonce]
             m == IF r.job = "call" THEN general ELSE response
  <2>1. CASE Send({m}) /\ Becomes(r, {}) /\ Ended(r, "sent")
                /\ UNCHANGED <<requests, dispatched>> /\ UNCHANGED manager
    <3>1. r.pc = "signing" /\ n \in Nonces /\ object[n].peerNonce \in Nonces
      BY <1>0, <1>10 DEF SendSigned, Proper, OthersPaired, Paired, Created, Typed, Sessions
    <3>2. m \in Messages
      BY <1>0, <3>1 DEF Messages, Procs, Proper
    <3> HIDE DEF m, n
    <3> QED BY <1>0, <2>1, <3>2, EndedTyped DEF Send, Becomes, Typed, manager
  <2> QED BY <1>4, <1>10, <2>1 DEF SendSigned
<1>11. ASSUME NEW r \in proc, Claim(r) PROVE Typed'
  <2>1. r.session \in Nonces /\ r.subject \in net /\ [r EXCEPT !.pc = "claimed"] \in Procs
    BY <1>0, <1>11, ProcFacts DEF Claim, Proper, Created, Pcs, Idle
  <2>2. CASE r.session \in stored[r.at] /\ r.subject \notin claimed[r.session]
    BY <1>0, <1>11, <2>1, <2>2 DEF Claim, Becomes, Typed
  <2>3. CASE ~(r.session \in stored[r.at] /\ r.subject \notin claimed[r.session])
    BY <1>4, <1>11, <2>3 DEF Claim, manager
  <2> QED BY <2>2, <2>3
<1>12. ASSUME NEW r \in proc, NEW s \in Sessions, NEW next \in Pcs, Update(r, s, next),
             r.session \in Nonces
      PROVE  Typed'
  <2>1. ASSUME NEW e \in Admit(r.at, r.session),
               Store(r.at, r.session, s, e),
               Becomes(r, {[r EXCEPT !.pc = next]}),
               UNCHANGED <<made, requests, net, copies, call, dispatched, keyed, abandoned, lapsed>>
        PROVE  Typed'
    <3>1. r.at \in Peers /\ [r EXCEPT !.pc = next] \in Procs
      BY <1>0, <1>12, ProcFacts DEF Procs
    <3> QED BY <1>0, <1>12, <2>1, <3>1, StoreTyped DEF Becomes, Typed
  <2>2. CASE /\ object' = [object EXCEPT ![r.session] = s] /\ Throw(r)
             /\ UNCHANGED <<made, stored, claimed, keyed, forgotten, abandoned, lapsed>>
    BY <1>0, <1>12, <2>2, EndedTyped DEF Throw, Becomes, Typed
  <2> QED BY <1>12, <2>1, <2>2 DEF Update
<1>13. ASSUME NEW r \in proc, AuthenticateInitialResponse(r) PROVE Typed'
  BY <1>0, <1>12, <1>13, MessageFacts
  DEF AuthenticateInitialResponse, Proper, Idle, Created, Sessions, Procs, Pcs, Typed
<1>14. ASSUME NEW r \in proc, Marked(r) PROVE Typed'
  <2>1. /\ r.session \in Nonces /\ "marked" \in Pcs
        /\ [object[r.session] EXCEPT !.isAuthenticated = TRUE] \in Sessions
    BY <1>0, <1>14 DEF Marked, Proper, Created, Sessions, Pcs, Typed
  <2> QED BY <1>12, <1>14, <2>1 DEF Marked
<1>15. ASSUME NEW r \in proc, NEW from \in Pcs, NEW to \in Pcs
       PROVE  Woken(r, from, to) \subseteq Procs
  BY <1>0, ProcFacts DEF Woken
<1>16. ASSUME NEW r \in proc, r.session \in Nonces
       PROVE  [object EXCEPT ![r.session].certificatesValidated = TRUE] \in [Nonces -> Sessions]
  BY <1>0, <1>16 DEF Typed, Sessions
<1>17. ASSUME NEW r \in proc, CheckBrought(r) PROVE Typed'
  <2>1. r.session \in Nonces /\ [r EXCEPT !.pc = "validated"] \in Procs
    BY <1>0, <1>17, ProcFacts DEF CheckBrought, Proper, Created, Pcs
  <2> QED
    BY <1>0, <1>15, <1>16, <1>17, <2>1, EndedTyped DEF CheckBrought, Throw, Becomes, Typed, Pcs
<1>18. ASSUME NEW r \in proc, ReleaseWaiters(r) PROVE Typed'
  <2>1. Proc("answer", r.at, r.with, r.subject, r.copy, "start", NoNonce) \in Procs
    BY <1>0 DEF Proc, Procs, Pcs
  <2> QED BY <1>0, <1>15, <1>18, <2>1 DEF ReleaseWaiters, Typed, manager, Pcs
<1>19. ASSUME NEW r \in proc, MarkAuthenticated(r) PROVE Typed'
  BY <1>0, <1>4, <1>19, ProcFacts DEF MarkAuthenticated, Becomes, Typed, manager, Pcs
<1>20. ASSUME NEW r \in proc, ProcessCertificateResponse(r) PROVE Typed'
  <2>1. r.session \in Nonces
    BY <1>0, <1>20 DEF ProcessCertificateResponse, Proper, Created
  <2> QED BY <1>0, <1>15, <1>16, <1>20, <2>1, EndedTyped
          DEF ProcessCertificateResponse, Validate, Throw, Becomes, Typed, Pcs
<1>21. ASSUME NEW r \in proc, ProcessGeneralMessage(r) PROVE Typed'
  BY <1>0, <1>4, <1>21, ProcFacts
  DEF ProcessGeneralMessage, Dispatch, Becomes, Typed, manager, Pcs
<1>22. ASSUME NEW r \in proc, DispatchReady(r) PROVE Typed'
  BY <1>0, <1>22 DEF DispatchReady, Dispatch, Becomes, Typed, manager
<1>23. ASSUME NEW p \in Peers, NEW n \in Nonces, Expire(p, n) PROVE Typed'
  BY <1>0, <1>23 DEF Expire, RemoveSession, Typed
<1>24. CASE UNCHANGED vars
  BY <1>0, <1>24 DEF Typed, vars
<1> QED BY <1>1, <1>2, <1>3, <1>8, <1>9, <1>10, <1>11, <1>13, <1>14, <1>17, <1>18, <1>19, <1>20,
           <1>21, <1>22, <1>23, <1>24, <1>5, <1>6, <1>7 DEF Next, Step, Timer

-----------------------------------------------------------------------------
(***************************************************************************)
(* What a step can do to sessions and messages; proc and the store aside,  *)
(* every step is one of these.                                             *)
(***************************************************************************)
NewSession(p, s) ==
    /\ made[p] < MaxNonces
    /\ made' = [made EXCEPT ![p] = @ + 1]
    /\ object' = [object EXCEPT ![<<p, made[p] + 1>>] = s]

SessionOf(q, k, b, v) ==
    [peer |-> q, peerNonce |-> k, isAuthenticated |-> b, certificatesValidated |-> v]

Opens ==
    /\ \E p, q \in Peers, v \in BOOLEAN : NewSession(p, SessionOf(q, NoNonce, FALSE, v))
    /\ UNCHANGED <<net, requests, lapsed>>

Asks ==
    \E n \in Nonces :
        /\ Created(n) /\ Open(n)
        /\ net' = net \cup {[type |-> "initialRequest", from |-> Creator(n),
                             to |-> object[n].peer, initialNonce |-> n]}
        /\ UNCHANGED <<made, object, requests, lapsed>>

AnswersRequest ==
    \E m \in net, v, b \in BOOLEAN :
        /\ m.type = "initialRequest" /\ m \notin requests[m.to]
        /\ NewSession(m.to, SessionOf(m.from, m.initialNonce, FALSE, v))
        /\ \/ net' = net \cup {[type |-> "initialResponse", from |-> m.to, to |-> m.from,
                                initialNonce |-> <<m.to, made[m.to] + 1>>,
                                yourNonce |-> m.initialNonce, certificates |-> b]}
           \/ net' = net
        /\ requests' = [requests EXCEPT ![m.to] = @ \cup {m}]
        /\ lapsed' = lapsed

Refuses ==
    /\ \E p \in Peers : made[p] < MaxNonces /\ made' = [made EXCEPT ![p] = @ + 1]
    /\ \A p \in Peers : requests[p] \subseteq requests'[p]
    /\ \A p \in Peers : \A m \in requests'[p] : m.type = "initialRequest"
    /\ UNCHANGED <<object, net, lapsed>>

Forgets ==
    \E p \in Peers, m \in net :
        /\ requests' = [requests EXCEPT ![p] = @ \ {m}]
        /\ lapsed' = lapsed \cup {m.initialNonce}
        /\ UNCHANGED <<made, object, net>>

HearsResponse ==
    \E m \in net, v \in BOOLEAN :
        /\ m.type = "initialResponse"
        /\ object[m.yourNonce].peer = m.from
        /\ object' = [object EXCEPT ![m.yourNonce] = SessionOf(m.from, m.initialNonce, TRUE, v)]
        /\ UNCHANGED <<made, net, requests, lapsed>>

HearsMessage ==
    \E n \in Nonces :
        /\ Paired(n)
        /\ object' = [object EXCEPT ![n].isAuthenticated = TRUE]
        /\ UNCHANGED <<made, net, requests, lapsed>>

HearsCertificates ==
    \E n \in Nonces :
        /\ Created(n)
        /\ object' = [object EXCEPT ![n].certificatesValidated = TRUE]
        /\ UNCHANGED <<made, net, requests, lapsed>>

Sends ==
    \E n \in Nonces, m \in Messages :
        /\ object[n].isAuthenticated /\ n[2] <= made[Creator(n)]
        /\ m.type \in {"certificateResponse", "general"}
        /\ m.yourNonce = object[n].peerNonce
        /\ m.type # "general" => m.initialNonce = n
        /\ net' = net \cup {m}
        /\ UNCHANGED <<made, object, requests, lapsed>>

Silent == UNCHANGED <<made, object, net, requests, lapsed>>

Effect ==
    \/ Opens \/ Asks \/ AnswersRequest \/ Refuses \/ Forgets \/ HearsResponse
    \/ HearsMessage \/ HearsCertificates \/ Sends \/ Silent

CopiesGrow == \A m \in net : m \in net' /\ copies[m] <= copies'[m]

LEMMA Effects ==
    ASSUME SessionInv, [Next]_vars
    PROVE  Effect /\ CopiesGrow
<1>0. /\ Typed /\ Fresh /\ \A r \in proc : r \in Procs /\ Proper(r)
      /\ RequestsSound /\ OthersPaired
  BY DEF SessionInv, Typed, Pairing
<1>1. ASSUME UNCHANGED <<net, copies>> PROVE CopiesGrow
  BY <1>0, <1>1 DEF CopiesGrow, Typed
<1>2. ASSUME NEW ms, Send(ms) PROVE CopiesGrow
  BY <1>0, <1>2 DEF CopiesGrow, Send, Typed
<1>3. ASSUME NEW m \in net, copies' = [copies EXCEPT ![m] = @ + 1], UNCHANGED net PROVE CopiesGrow
  BY <1>0, <1>3 DEF CopiesGrow, Typed
<1>4. ASSUME NEW m \in net, ProcessInitialRequest(m) PROVE Effect /\ CopiesGrow
  <2> DEFINE p == m.to
             n == <<p, made[p] + 1>>
             b == m.from \in Requesters /\ p \in Certified
             v == p \notin Requesters
             response == [type |-> "initialResponse", from |-> p, to |-> m.from,
                          initialNonce |-> n, yourNonce |-> m.initialNonce, certificates |-> b]
  <2>1. /\ m.type = "initialRequest" /\ made[p] < MaxNonces /\ m \notin requests[p]
        /\ requests' = [requests EXCEPT ![p] = @ \cup {m}]
        /\ made' = [made EXCEPT ![p] = @ + 1] /\ lapsed' = lapsed
    BY <1>4 DEF ProcessInitialRequest, Answer
  <2>2. p \in Peers /\ v \in BOOLEAN /\ b \in BOOLEAN
    BY <1>0, MessageFacts DEF Typed
  <2>3. ASSUME NEW e \in Admit(p, n), NEW answered \in {{}, {response}},
               Store(p, n, SessionOf(m.from, m.initialNonce, FALSE, v), e),
               net' = net \cup answered,
               copies' = [k \in net \cup answered |->
                                IF k = m THEN copies[m] + 1
                                ELSE IF k \in net THEN copies[k] ELSE 0]
        PROVE  Effect /\ CopiesGrow
    <3>1. CopiesGrow
      <4> HIDE DEF response
      <4> QED BY <1>0, <2>3 DEF CopiesGrow, Typed
    <3>2. NewSession(m.to, SessionOf(m.from, m.initialNonce, FALSE, v))
      BY <2>1, <2>3 DEF Store, NewSession
    <3>3. AnswersRequest
      BY <2>1, <2>2, <2>3, <3>2 DEF AnswersRequest
    <3> QED BY <3>1, <3>3 DEF Effect
  <2>4. CASE /\ copies' = [copies EXCEPT ![m] = @ + 1]
             /\ UNCHANGED <<object, stored, claimed, net, keyed, forgotten>>
    <3>1. \A q \in Peers : requests[q] \subseteq requests'[q]
      BY <1>0, <2>1 DEF Typed
    <3>2. \A q \in Peers : \A k \in requests'[q] : k.type = "initialRequest"
      BY <1>0, <2>1 DEF Typed, RequestsSound
    <3>3. Refuses
      BY <2>1, <2>2, <2>4, <3>1, <3>2 DEF Refuses
    <3> QED BY <1>3, <2>4, <3>3 DEF Effect
  <2> QED BY <1>4, <2>3, <2>4 DEF ProcessInitialRequest, Answer, SessionOf
<1>5. ASSUME NEW m \in net, Receive(m) PROVE Effect /\ CopiesGrow
  BY <1>3, <1>5 DEF Receive, Deliver, manager, Effect, Silent
<1>6. ASSUME NEW r \in proc, Begin(r) PROVE Effect /\ CopiesGrow
  <2>1. CASE UNCHANGED <<manager, requests, net, copies, dispatched>>
    BY <1>1, <2>1 DEF manager, Effect, Silent
  <2>2. CASE InitiateHandshake(r)
    <3> DEFINE p == r.at
               n == <<p, made[p] + 1>>
               v == p \notin Requesters
    <3>1. /\ made[p] < MaxNonces /\ made' = [made EXCEPT ![p] = @ + 1]
          /\ UNCHANGED <<requests, net, copies, lapsed>>
          /\ p \in Peers /\ r.with \in Peers /\ v \in BOOLEAN
      BY <1>0, <2>2 DEF InitiateHandshake, Procs
    <3>2. ASSUME NEW e \in Admit(p, n), Store(p, n, SessionOf(r.with, NoNonce, FALSE, v), e)
          PROVE  Effect /\ CopiesGrow
      <4>1. NewSession(p, SessionOf(r.with, NoNonce, FALSE, v))
        BY <3>1, <3>2 DEF Store, NewSession
      <4>2. Opens
        BY <3>1, <4>1 DEF Opens
      <4> QED BY <1>1, <3>1, <4>2 DEF Effect
    <3>3. CASE UNCHANGED <<object, stored, claimed, forgotten>>
      BY <1>0, <1>1, <3>1, <3>3 DEF Refuses, Effect, RequestsSound
    <3> QED BY <2>2, <3>2, <3>3 DEF InitiateHandshake, SessionOf
  <2> QED BY <1>6, <2>1, <2>2 DEF Begin, GetAuthenticatedSession
<1>7. ASSUME NEW r \in proc, SendSigned(r) PROVE Effect /\ CopiesGrow
  <2> DEFINE n == r.session
             general == [type |-> "general", from |-> r.at, to |-> r.with,
                         yourNonce |-> object[n].peerNonce, call |-> r.subject]
             response == [type |-> "certificateResponse", from |-> r.at, to |-> r.with,
                          initialNonce |-> n, yourNonce |-> object[n].peerNonce]
             m == IF r.job = "call" THEN general ELSE response
  <2>1. CASE Send({m}) /\ UNCHANGED <<requests, dispatched>> /\ UNCHANGED manager
    <3>1. /\ r.pc = "signing" /\ n \in Nonces /\ object[n].isAuthenticated
          /\ n[2] <= made[Creator(n)] /\ object[n].peerNonce \in Nonces
      BY <1>0, <1>7 DEF SendSigned, Proper, OthersPaired, Paired, Created, Typed, Sessions
    <3>2. /\ m \in Messages /\ m.type \in {"certificateResponse", "general"}
          /\ m.yourNonce = object[n].peerNonce
          /\ m.type # "general" => m.initialNonce = n
      BY <1>0, <3>1 DEF Messages, Procs, Proper
    <3> HIDE DEF m, n
    <3>3. Sends
      BY <2>1, <3>1, <3>2 DEF Sends, Send, manager
    <3> QED BY <1>2, <2>1, <3>3 DEF Effect
  <2>2. CASE UNCHANGED <<net, copies, requests>> /\ UNCHANGED manager
    BY <1>1, <2>2 DEF manager, Effect, Silent
  <2> QED BY <1>7, <2>1, <2>2 DEF SendSigned, Throw
<1>8. ASSUME NEW r \in proc, AuthenticateInitialResponse(r) PROVE Effect /\ CopiesGrow
  <2>1. /\ r.subject \in net /\ r.subject.type = "initialResponse"
        /\ object[r.session].peer = r.subject.from
        /\ r.session = r.subject.yourNonce /\ r.with = r.subject.from
        /\ (r.at \notin Requesters) \in BOOLEAN
    BY <1>0, <1>8 DEF AuthenticateInitialResponse, Proper, Idle
  <2>2. /\ object' = [object EXCEPT ![r.session] =
              SessionOf(r.with, r.subject.initialNonce, TRUE, r.at \notin Requesters)]
        /\ UNCHANGED <<made, net, requests, copies, lapsed>>
    BY <1>8 DEF AuthenticateInitialResponse, Update, Store, Throw, SessionOf
  <2>3. HearsResponse
    BY <2>1, <2>2 DEF HearsResponse
  <2> QED BY <1>1, <2>2, <2>3 DEF Effect
<1>9. ASSUME NEW r \in proc, Marked(r) PROVE Effect /\ CopiesGrow
  <2>1. r.session \in Nonces /\ Paired(r.session)
    BY <1>0, <1>9, MessageFacts DEF Marked, Proper, Idle, Created, OthersPaired, Typed
  <2>2. /\ object' = [object EXCEPT ![r.session].isAuthenticated = TRUE]
        /\ UNCHANGED <<made, net, requests, copies, lapsed>>
    BY <1>9 DEF Marked, Update, Store, Throw
  <2> QED BY <1>1, <2>1, <2>2 DEF Effect, HearsMessage
<1>10. ASSUME NEW r \in proc, CheckBrought(r) \/ ProcessCertificateResponse(r)
       PROVE  Effect /\ CopiesGrow
  <2>1. r.session \in Nonces /\ Created(r.session)
    BY <1>0, <1>10 DEF CheckBrought, ProcessCertificateResponse, Proper, Created
  <2>2. /\ UNCHANGED <<made, net, requests, copies, lapsed>>
        /\ object' = object \/ object' = [object EXCEPT ![r.session].certificatesValidated = TRUE]
    BY <1>10 DEF CheckBrought, ProcessCertificateResponse, Validate, Throw
  <2> QED BY <1>1, <2>1, <2>2 DEF Effect, HearsCertificates, Silent
<1>11. ASSUME NEW r \in proc, GiveUp(r) \/ Resume(r) \/ Claim(r)
       PROVE  Effect /\ CopiesGrow
  BY <1>1, <1>11 DEF GiveUp, RemoveSession, Resume, Claim, Throw, manager, Effect, Silent
<1>12. ASSUME NEW r \in proc, ReleaseWaiters(r) \/ MarkAuthenticated(r)
                                \/ ProcessGeneralMessage(r) \/ DispatchReady(r)
                                \/ ValidationTimesOut(r)
       PROVE  Effect /\ CopiesGrow
  BY <1>1, <1>12 DEF ReleaseWaiters, MarkAuthenticated, ProcessGeneralMessage, DispatchReady,
                     ValidationTimesOut, Dispatch, Throw, manager, Effect, Silent
<1>13. ASSUME NEW p \in Peers, NEW n \in Nonces, Expire(p, n) PROVE Effect /\ CopiesGrow
  BY <1>1, <1>13 DEF Expire, RemoveSession, Effect, Silent
<1>14. ASSUME NEW r \in proc, SendInitialRequest(r) PROVE Effect /\ CopiesGrow
  <2>1. /\ r.session \in Nonces /\ Created(r.session) /\ Open(r.session)
        /\ r.at = Creator(r.session) /\ r.with = object[r.session].peer
    BY <1>0, <1>14 DEF SendInitialRequest, Proper, Created
  <2>2. Asks
    BY <1>14, <2>1 DEF SendInitialRequest, Send, Asks
  <2> QED BY <1>2, <1>14, <2>2 DEF SendInitialRequest, Effect
<1>15. ASSUME NEW r \in proc, IdentityKeyFails(r) PROVE Effect /\ CopiesGrow
  BY <1>1, <1>15 DEF IdentityKeyFails, Throw, Effect, Silent
<1>16. ASSUME NEW p \in Peers, NEW m \in net, ForgetRequest(p, m) PROVE Effect /\ CopiesGrow
  BY <1>1, <1>16 DEF ForgetRequest, Effect, Forgets
<1>17. CASE UNCHANGED vars
  BY <1>1, <1>17 DEF vars, Effect, Silent
<1> QED BY <1>4, <1>5, <1>6, <1>7, <1>8, <1>9, <1>10, <1>11, <1>12, <1>13, <1>17,
           <1>14, <1>15, <1>16 DEF Next, Step, Timer

\* A new nonce was not created before, and no session or message names it.
LEMMA NewNonce ==
    ASSUME SessionInv, NEW p \in Peers, made[p] < MaxNonces,
           made' = [made EXCEPT ![p] = @ + 1],
           NEW n, n = <<p, made[p] + 1>>
    PROVE  /\ n \in Nonces /\ Creator(n) = p
           /\ ~Created(n) /\ Created(n)'
           /\ object[n] = NoSession /\ ~Asked(n)
           /\ \A k \in Nonces : Created(k) => Created(k)' /\ k # n
<1>1. made[p] \in Nat /\ made[p] + 1 \in 1..MaxNonces
  BY BoundsPositive DEF SessionInv, Typed
<1>2. n \in Nonces /\ Creator(n) = p /\ n[2] = made[p] + 1
  BY <1>1, NonceFacts
<1>3. made'[p] = made[p] + 1
  BY DEF SessionInv, Typed
<1>4. ~Created(n) /\ Created(n)'
  BY <1>1, <1>2, <1>3 DEF Created
<1>5. object[n] = NoSession /\ ~Asked(n)
  BY <1>2, <1>4 DEF SessionInv, Fresh, Asked
<1>6. \A k \in Nonces : Created(k) => Created(k)' /\ k # n
  BY <1>1, <1>4, NonceFacts DEF Created, SessionInv, Typed
<1> QED BY <1>2, <1>4, <1>5, <1>6

(***************************************************************************)
(* What no step undoes.                                                    *)
(***************************************************************************)
Kept ==
    /\ net \subseteq net' /\ lapsed \subseteq lapsed'
    /\ \A p \in Peers : \A m \in requests[p] : m \in requests'[p] \/ m.initialNonce \in lapsed'
    /\ \A n \in Nonces : Asked(n) => Asked(n)'
    /\ \A n \in Nonces : Created(n) =>
          /\ Created(n)'
          /\ object'[n].peer = object[n].peer
          /\ object[n].isAuthenticated => object'[n].isAuthenticated
          /\ Open(n) => Open(n)'
    /\ \A n \in Nonces : object[n].peerNonce # NoNonce =>
          /\ object'[n].peerNonce # NoNonce
          /\ object'[n].peerNonce = object[n].peerNonce \/ (Asked(n) /\ n \in lapsed)
          /\ ~Asked(n) => ~Asked(n)'
    /\ \A n \in Nonces : Paired(n) => Paired(n)'

LEMMA KeptByAll ==
    ASSUME SessionInv, Effect
    PROVE  Kept
<1>0. /\ Typed /\ Fresh /\ Pairing
      /\ \A m \in net : m \in Messages
      /\ NoNonce \notin Nonces
  BY NonceFacts DEF SessionInv, Typed
<1>a. ASSUME NEW n \in Nonces, Paired(n), object'[n].peerNonce = object[n].peerNonce,
             lapsed \subseteq lapsed',
             \A l \in Nonces : Created(l) => Created(l)' /\ object'[l].peer = object[l].peer,
             \A l \in Nonces : object[l].peerNonce # NoNonce =>
                /\ object'[l].peerNonce # NoNonce
                /\ object'[l].peerNonce = object[l].peerNonce \/ l \in lapsed
      PROVE  Paired(n)'
  <2>1. PICK k : k = object[n].peerNonce
    OBVIOUS
  <2>2. k \in Nonces /\ Created(k) /\ k # NoNonce /\ n # NoNonce
        /\ object[n].peer = Creator(k) /\ object[k].peer = Creator(n)
        /\ object[k].peerNonce # NoNonce /\ (object[k].peerNonce = n \/ k \in lapsed)
    BY <1>0, <1>a, <2>1 DEF Paired, Fresh, Created
  <2>3. Created(n)
    BY <1>0, <2>1, <2>2, <1>a DEF Fresh, NoSession
  <2>4. object'[n].peer = object[n].peer /\ object'[k].peer = object[k].peer
        /\ object'[k].peerNonce # NoNonce /\ (object'[k].peerNonce = n \/ k \in lapsed')
    BY <1>a, <2>2, <2>3
  <2> QED BY <1>a, <2>1, <2>2, <2>4 DEF Paired
<1>b. ASSUME net \subseteq net', \A m \in net' \ net : m.type # "initialRequest"
      PROVE  \A n : Asked(n)' <=> Asked(n)
  BY <1>b DEF Asked
\* Steps that leave the nonces of all sessions alone.
<1>c. ASSUME lapsed \subseteq lapsed',
             \A l \in Nonces : Created(l) => Created(l)' /\ object'[l].peer = object[l].peer,
             \A l \in Nonces : object[l].peerNonce # NoNonce =>
                                 object'[l].peerNonce = object[l].peerNonce
      PROVE  \A n \in Nonces : Paired(n) => Paired(n)'
  BY <1>a, <1>c DEF Paired
<1>1. CASE Opens
  <2>1. PICK p \in Peers, q \in Peers, v \in BOOLEAN :
           NewSession(p, SessionOf(q, NoNonce, FALSE, v))
    BY <1>1 DEF Opens
  <2> DEFINE n0 == <<p, made[p] + 1>>
  <2>2. /\ n0 \in Nonces /\ ~Created(n0) /\ object[n0] = NoSession
        /\ \A k \in Nonces : Created(k) => Created(k)' /\ k # n0
    BY <2>1, NewNonce DEF NewSession
  <2>3. object' = [object EXCEPT ![n0] = SessionOf(q, NoNonce, FALSE, v)]
        /\ UNCHANGED <<net, requests, lapsed>>
    BY <1>1, <2>1 DEF Opens, NewSession
  <2> HIDE DEF n0
  <2>4. \A n \in Nonces : n # n0 => object'[n] = object[n]
    BY <1>0, <2>3 DEF Typed
  <2>5. \A n : Asked(n)' <=> Asked(n)
    BY <1>b, <2>3
  <2>6. \A n \in Nonces : object[n].peerNonce # NoNonce =>
                              object'[n].peerNonce = object[n].peerNonce
    BY <2>2, <2>4 DEF NoSession
  <2>7. \A n \in Nonces : Paired(n) => Paired(n)'
    BY <1>c, <2>2, <2>3, <2>4, <2>6
  <2> QED BY <2>2, <2>3, <2>4, <2>5, <2>6, <2>7 DEF Kept, Open
<1>2. CASE Asks
  <2>1. PICK n0 \in Nonces :
           /\ Created(n0) /\ Open(n0)
           /\ net' = net \cup {[type |-> "initialRequest", from |-> Creator(n0),
                                to |-> object[n0].peer, initialNonce |-> n0]}
           /\ UNCHANGED <<made, object, requests, lapsed>>
    BY <1>2 DEF Asks
  <2>2. \A n \in Nonces : n # n0 => (Asked(n)' <=> Asked(n))
    BY <2>1 DEF Asked
  <2>3. \A n \in Nonces : Asked(n) => Asked(n)'
    BY <2>1 DEF Asked
  <2>4. \A n \in Nonces : object[n].peerNonce # NoNonce /\ ~Asked(n) => ~Asked(n)'
    BY <2>1, <2>2 DEF Open
  <2> QED BY <1>c, <2>1, <2>3, <2>4 DEF Kept, Open, Created
<1>3. CASE AnswersRequest
  <2>1. PICK m \in net, v \in BOOLEAN, b \in BOOLEAN :
           /\ NewSession(m.to, SessionOf(m.from, m.initialNonce, FALSE, v))
           /\ \/ net' = net \cup {[type |-> "initialResponse", from |-> m.to, to |-> m.from,
                                   initialNonce |-> <<m.to, made[m.to] + 1>>,
                                   yourNonce |-> m.initialNonce, certificates |-> b]}
              \/ net' = net
           /\ requests' = [requests EXCEPT ![m.to] = @ \cup {m}]
           /\ lapsed' = lapsed
    BY <1>3 DEF AnswersRequest
  <2> DEFINE n0 == <<m.to, made[m.to] + 1>>
             s0 == SessionOf(m.from, m.initialNonce, FALSE, v)
  <2>2. /\ n0 \in Nonces /\ ~Created(n0) /\ object[n0] = NoSession
        /\ \A k \in Nonces : Created(k) => Created(k)' /\ k # n0
    <3>1. m.to \in Peers
      BY <1>0, MessageFacts
    <3> QED BY <2>1, <3>1, NewNonce DEF NewSession
  <2>3. object' = [object EXCEPT ![n0] = s0]
    BY <2>1 DEF NewSession
  <2>4. net \subseteq net' /\ \A k \in net' \ net : k.type # "initialRequest"
    BY <2>1
  <2>5. \A p \in Peers : requests[p] \subseteq requests'[p]
    BY <1>0, <2>1 DEF Typed
  <2>6. \A n : Asked(n)' <=> Asked(n)
    BY <1>b, <2>4
  <2> HIDE DEF n0, s0
  <2>7. \A n \in Nonces : n # n0 => object'[n] = object[n]
    BY <1>0, <2>3 DEF Typed
  <2>8. \A n \in Nonces : object[n].peerNonce # NoNonce =>
                              object'[n].peerNonce = object[n].peerNonce
    BY <2>2, <2>7 DEF NoSession
  <2>9. \A n \in Nonces : Paired(n) => Paired(n)'
    BY <1>c, <2>1, <2>2, <2>7, <2>8
  <2> QED BY <2>1, <2>2, <2>4, <2>5, <2>6, <2>7, <2>8, <2>9 DEF Kept, Open
<1>4. CASE Refuses
  <2>1. \A k \in Nonces : Created(k) => Created(k)'
    BY <1>4, NewNonce DEF Refuses
  <2>2. \A n : Asked(n)' <=> Asked(n)
    BY <1>b, <1>4 DEF Refuses
  <2>3. \A n \in Nonces : Paired(n) => Paired(n)'
    BY <1>4 DEF Refuses, Paired
  <2> QED BY <1>4, <2>1, <2>2, <2>3 DEF Refuses, Kept, Open
<1>5. CASE Forgets
  <2>1. PICK p \in Peers, m \in net :
           /\ requests' = [requests EXCEPT ![p] = @ \ {m}]
           /\ lapsed' = lapsed \cup {m.initialNonce}
           /\ UNCHANGED <<made, object, net>>
    BY <1>5 DEF Forgets
  <2>2. \A q \in Peers : \A k \in requests[q] : k \in requests'[q] \/ k.initialNonce \in lapsed'
    BY <1>0, <2>1 DEF Typed
  <2>3. \A n : (Asked(n)' <=> Asked(n)) /\ (Created(n)' <=> Created(n))
    BY <2>1 DEF Asked, Created
  <2> QED BY <1>c, <2>1, <2>2, <2>3 DEF Kept, Open
<1>6. CASE HearsResponse
  <2>1. PICK m \in net, v \in BOOLEAN :
           /\ m.type = "initialResponse"
           /\ object[m.yourNonce].peer = m.from
           /\ object' = [object EXCEPT ![m.yourNonce] = SessionOf(m.from, m.initialNonce, TRUE, v)]
           /\ UNCHANGED <<made, net, requests, lapsed>>
    BY <1>6 DEF HearsResponse
  <2> DEFINE n0 == m.yourNonce
             k0 == m.initialNonce
  <2>2. n0 \in Nonces /\ k0 \in Nonces /\ object[k0].peerNonce = n0 /\ ~Asked(k0)
    BY <1>0, <2>1, MessageFacts DEF Pairing, ResponsesSound
  <2>3. Asked(n0) /\ n0 # k0 /\ object[k0].peer = Creator(n0) /\ object[n0].peer = Creator(k0)
    BY <1>0, <2>2 DEF Pairing, AnswersSound, Answers
  <2>4. object[n0].peerNonce # NoNonce => object[n0].peerNonce = k0 \/ n0 \in lapsed
    <3> SUFFICES ASSUME object[n0].peerNonce # NoNonce
                 PROVE  object[n0].peerNonce = k0 \/ n0 \in lapsed
      OBVIOUS
    <3> DEFINE k == object[n0].peerNonce
    <3>1. k \in Nonces /\ ~Asked(k) /\ object[k].peerNonce = n0
      BY <1>0, <2>2, <2>3 DEF Pairing, AskersPaired, Fresh, Created
    <3>2. n0 # NoNonce
      BY <1>0, <2>2
    <3> QED BY <1>0, <2>2, <3>1, <3>2 DEF Pairing, AnswersSound
  <2>5. /\ object'[n0].peer = object[n0].peer /\ object'[n0].isAuthenticated
        /\ object'[n0].peerNonce = k0
    BY <1>0, <2>1, <2>2 DEF Typed, SessionOf
  <2>6. \A n \in Nonces : n # n0 => object'[n] = object[n]
    BY <1>0, <2>1 DEF Typed
  <2>7. \A n \in Nonces : Created(n) => Created(n)' /\ object'[n].peer = object[n].peer
    BY <2>1, <2>5, <2>6 DEF Created
  <2>8. \A n \in Nonces : object[n].peerNonce # NoNonce =>
            /\ object'[n].peerNonce # NoNonce
            /\ object'[n].peerNonce = object[n].peerNonce \/ (Asked(n) /\ n \in lapsed)
    BY <1>0, <2>2, <2>3, <2>4, <2>5, <2>6
  <2>9. \A n \in Nonces : Paired(n) => Paired(n)'
    <3>1. k0 # NoNonce /\ n0 # NoNonce /\ object'[k0] = object[k0]
      BY <1>0, <2>2, <2>3, <2>6
    <3>2. Paired(n0)'
      BY <2>2, <2>3, <2>5, <3>1 DEF Paired
    <3>3. ASSUME NEW n \in Nonces, Paired(n), n # n0 PROVE Paired(n)'
      BY <1>a, <2>1, <2>6, <2>7, <2>8, <3>3
    <3> QED BY <3>2, <3>3
  <2>10. \A n : Asked(n)' <=> Asked(n)
    BY <2>1 DEF Asked
  <2>11. \A n \in Nonces : object[n].isAuthenticated => object'[n].isAuthenticated
    BY <2>5, <2>6
  <2>12. \A n \in Nonces : Open(n) => Open(n)'
    BY <2>3, <2>6, <2>10 DEF Open
  <2> QED BY <2>1, <2>7, <2>8, <2>9, <2>10, <2>11, <2>12 DEF Kept
<1>7. CASE HearsMessage \/ HearsCertificates
  <2>1. /\ \A n \in Nonces : /\ object'[n].peer = object[n].peer
                             /\ object'[n].peerNonce = object[n].peerNonce
                             /\ object[n].isAuthenticated => object'[n].isAuthenticated
        /\ UNCHANGED <<made, net, requests, lapsed>>
    BY <1>0, <1>7 DEF HearsMessage, HearsCertificates, Typed, Sessions
  <2>2. \A n \in Nonces : Created(n) => Created(n)'
    BY <2>1 DEF Created
  <2>3. \A n \in Nonces : Paired(n) => Paired(n)'
    BY <1>c, <2>1, <2>2
  <2>4. \A n : Asked(n)' <=> Asked(n)
    BY <2>1 DEF Asked
  <2> QED BY <2>1, <2>2, <2>3, <2>4 DEF Kept, Open
<1>8. CASE Sends \/ Silent
  <2>1. net \subseteq net' /\ (\A m \in net' \ net : m.type # "initialRequest")
        /\ UNCHANGED <<made, object, requests, lapsed>>
    BY <1>8 DEF Sends, Silent
  <2> QED BY <1>b, <2>1 DEF Kept, Created, Paired, Open
<1> QED BY <1>1, <1>3, <1>4, <1>6, <1>7, <1>8, <1>2, <1>5 DEF Effect

-----------------------------------------------------------------------------
(***************************************************************************)
(* The parts of the invariant that speak of sessions and messages.         *)
(***************************************************************************)
FreshParts ==
    /\ \A n \in Nonces : ~Created(n) => object[n] = NoSession
    /\ \A n \in Nonces : object[n].peerNonce # NoNonce => Created(object[n].peerNonce)
    /\ \A m \in net : m.type # "general" => Created(m.initialNonce)
    /\ \A m \in net : m.type # "initialRequest" => Created(m.yourNonce)

\* No session learns the nonce of its peer in the step.
Plain == \A n \in Nonces : object'[n].peerNonce # NoNonce =>
            object[n].peerNonce = object'[n].peerNonce

LEMMA PairingNext ==
    ASSUME SessionInv, Effect
    PROVE  FreshParts' /\ Pairing'
<1>0. /\ Typed /\ Fresh /\ Pairing
      /\ \A m \in net : m \in Messages
      /\ NoNonce \notin Nonces
  BY NonceFacts DEF SessionInv, Typed
<1>k. Kept
  BY KeptByAll
<1>f. \A n \in Nonces : object[n].peerNonce # NoNonce =>
          Created(n) /\ object[n].peerNonce \in Nonces /\ Created(object[n].peerNonce)
  BY <1>0 DEF Fresh, NoSession, Created
<1>m. \A m \in net : /\ m.type # "general" => Created(m.initialNonce) /\ m.initialNonce \in Nonces
                     /\ m.type # "initialRequest" => Created(m.yourNonce) /\ m.yourNonce \in Nonces
  BY <1>0 DEF Fresh, Created
<1>n. \A k \in Nonces : /\ ~Asked(k)' => ~Asked(k)
                        /\ object[k].peerNonce # NoNonce => (Asked(k)' <=> Asked(k))
  BY <1>k DEF Kept
\* What holds of the messages and sessions that were there.
<1>1. \A m \in net : m.type = "initialRequest" =>
          /\ m.from = Creator(m.initialNonce) /\ object'[m.initialNonce].peer = m.to
          /\ \A k \in net : k.type = "initialRequest" /\ k.initialNonce = m.initialNonce => k = m
  BY <1>0, <1>k, <1>m DEF Kept, Pairing, RequestsSound
<1>2. \A m \in net : m.type = "initialResponse" =>
          /\ ~Asked(m.initialNonce)' /\ object'[m.initialNonce].peerNonce = m.yourNonce
          /\ m.from = Creator(m.initialNonce) /\ m.to = Creator(m.yourNonce)
  <2> SUFFICES ASSUME NEW m \in net, m.type = "initialResponse", NEW k, k = m.initialNonce
               PROVE  /\ ~Asked(k)' /\ object'[k].peerNonce = m.yourNonce
                      /\ m.from = Creator(k) /\ m.to = Creator(m.yourNonce)
    OBVIOUS
  <2>1. /\ ~Asked(k) /\ object[k].peerNonce = m.yourNonce /\ k \in Nonces
        /\ m.from = Creator(k) /\ m.to = Creator(m.yourNonce) /\ m.yourNonce \in Nonces
    BY <1>0, <1>m DEF Pairing, ResponsesSound
  <2>2. m.yourNonce # NoNonce
    BY <1>0, <2>1
  <2> QED BY <1>k, <2>1, <2>2 DEF Kept
<1>3. \A m \in net : m.type \in {"certificateResponse", "general"} => Paired(m.yourNonce)'
  BY <1>0, <1>k, <1>m DEF Kept, Pairing, OthersPaired
<1>4. \A k, n \in Nonces : Created(k) /\ Created(n) /\ Answers(k, n) => Answers(k, n)'
  <2> SUFFICES ASSUME NEW k \in Nonces, NEW n \in Nonces, Created(k), Created(n), Answers(k, n)
               PROVE  Answers(k, n)'
    OBVIOUS
  <2>1. Asked(n)' /\ object'[k].peer = Creator(n) /\ object'[n].peer = Creator(k)
    BY <1>k DEF Kept, Answers
  <2>2. CASE n \in lapsed
    BY <1>k, <2>1, <2>2 DEF Kept, Answers
  <2>3. CASE n \notin lapsed
    <3>1. PICK m \in requests[Creator(k)] : m.type = "initialRequest" /\ m.initialNonce = n
      BY <2>3 DEF Answers
    <3>2. Creator(k) \in Peers
      BY NonceFacts
    <3>3. m \in requests'[Creator(k)] \/ n \in lapsed'
      BY <1>k, <3>1, <3>2 DEF Kept
    <3> QED BY <2>1, <3>1, <3>3 DEF Answers
  <2> QED BY <2>2, <2>3
<1>5. \A m \in net : /\ m.type # "general" => Created(m.initialNonce)'
                     /\ m.type # "initialRequest" => Created(m.yourNonce)'
  BY <1>k, <1>m DEF Kept
<1>6. ASSUME Plain
      PROVE  AnswersSound' /\ AskersPaired'
             /\ \A n \in Nonces : object'[n].peerNonce # NoNonce => Created(object[n].peerNonce)'
  <2>1. \A k \in Nonces : ~Asked(k)' /\ object'[k].peerNonce # NoNonce =>
            Answers(k, object[k].peerNonce)'
    <3> SUFFICES ASSUME NEW k \in Nonces, NEW n, n = object'[k].peerNonce, ~Asked(k)', n # NoNonce
                 PROVE  Answers(k, n)'
      OBVIOUS
    <3>1. object[k].peerNonce = n /\ Created(k) /\ Created(n) /\ n \in Nonces
      BY <1>6, <1>f DEF Plain
    <3>2. Answers(k, n)
      BY <1>0, <1>n, <3>1 DEF Pairing, AnswersSound
    <3> QED BY <1>4, <3>1, <3>2
  <2>2. \A k, l \in Nonces : ~Asked(k)' /\ ~Asked(l)' /\ object'[k].peerNonce # NoNonce
                               /\ object'[k].peerNonce = object'[l].peerNonce
                               => k = l \/ object'[k].peerNonce \in lapsed'
    <3> SUFFICES ASSUME NEW k \in Nonces, NEW l \in Nonces, ~Asked(k)', ~Asked(l)',
                        object'[k].peerNonce # NoNonce, object'[k].peerNonce = object'[l].peerNonce
                 PROVE  k = l \/ object'[k].peerNonce \in lapsed'
      OBVIOUS
    <3>1. /\ object[k].peerNonce = object'[k].peerNonce /\ Created(k)
          /\ object[l].peerNonce = object'[l].peerNonce /\ Created(l)
      BY <1>6, <1>f DEF Plain
    <3>2. ~Asked(k) /\ ~Asked(l)
      BY <1>n
    <3>3. lapsed \subseteq lapsed'
      BY <1>k DEF Kept
    <3> QED BY <1>0, <3>1, <3>2, <3>3 DEF Pairing, AnswersSound
  <2>3. AskersPaired'
    <3> SUFFICES ASSUME NEW n \in Nonces, Asked(n)', NEW k, k = object'[n].peerNonce, k # NoNonce
                 PROVE  Paired(n)' /\ ~Asked(k)' /\ object'[k].peerNonce = n
      BY DEF AskersPaired
    <3>1. object[n].peerNonce = k /\ Created(n) /\ Created(k) /\ k \in Nonces
      BY <1>6, <1>f DEF Plain
    <3>2. Paired(n) /\ ~Asked(k) /\ object[k].peerNonce = n /\ n # NoNonce
      BY <1>0, <1>n, <3>1 DEF Pairing, AskersPaired
    <3> QED BY <1>k, <3>1, <3>2 DEF Kept
  <2>4. \A n \in Nonces : object'[n].peerNonce # NoNonce => Created(object[n].peerNonce)'
    <3> SUFFICES ASSUME NEW n \in Nonces, NEW k, k = object'[n].peerNonce, k # NoNonce
                 PROVE  Created(k)'
      OBVIOUS
    <3> QED BY <1>6, <1>f, <1>k DEF Plain, Kept
  <2> QED BY <2>1, <2>2, <2>3, <2>4 DEF AnswersSound
<1>7. CASE Opens
  <2>1. PICK p \in Peers, q \in Peers, v \in BOOLEAN :
           /\ NewSession(p, SessionOf(q, NoNonce, FALSE, v))
           /\ UNCHANGED <<net, requests, lapsed>>
    BY <1>7 DEF Opens
  <2>2. PICK n0 : n0 = <<p, made[p] + 1>>
    OBVIOUS
  <2>4. /\ n0 \in Nonces /\ Creator(n0) = p /\ ~Created(n0) /\ object[n0] = NoSession
        /\ Created(n0)' /\ \A k \in Nonces : Created(k) => Created(k)' /\ k # n0
    BY <2>1, <2>2, NewNonce DEF NewSession
  <2>6. /\ \A n \in Nonces : n # n0 => object'[n] = object[n]
        /\ object'[n0].peer = q /\ object'[n0].peerNonce = NoNonce
        /\ object'[n0].isAuthenticated = FALSE
    BY <1>0, <2>1, <2>2, <2>4 DEF NewSession, Typed, SessionOf
  <2>7. \A n \in Nonces : ~Created(n)' => object'[n] = NoSession
    BY <1>0, <2>4, <2>6 DEF Fresh
  <2>8. RequestsSound'
    BY <1>0, <1>1, <2>1 DEF Pairing, RequestsSound
  <2>9. Plain
    BY <2>6 DEF Plain
  <2>10. ResponsesSound' /\ OthersPaired'
    BY <1>0, <1>2, <1>3, <1>k, <2>1, <2>6 DEF ResponsesSound, OthersPaired, Kept, Pairing
  <2> QED BY <1>5, <1>6, <2>1, <2>7, <2>8, <2>9, <2>10 DEF FreshParts, Pairing
<1>8. CASE Asks
  <2>1. PICK n0 \in Nonces :
           /\ Created(n0) /\ Open(n0)
           /\ net' = net \cup {[type |-> "initialRequest", from |-> Creator(n0),
                                to |-> object[n0].peer, initialNonce |-> n0]}
           /\ UNCHANGED <<made, object, requests, lapsed>>
    BY <1>8 DEF Asks
  <2>2. PICK m0 : m0 = [type |-> "initialRequest", from |-> Creator(n0), to |-> object[n0].peer,
                        initialNonce |-> n0]
    OBVIOUS
  <2>3. /\ m0.type = "initialRequest" /\ m0.initialNonce = n0 /\ m0.from = Creator(n0)
        /\ m0.to = object[n0].peer /\ net' = net \cup {m0} /\ object' = object
    BY <2>1, <2>2
  <2>4. \A k \in net : k.type = "initialRequest" /\ k.initialNonce = n0 => k = m0
    <3> SUFFICES ASSUME NEW k \in net, k.type = "initialRequest", k.initialNonce = n0 PROVE k = m0
      OBVIOUS
    <3>1. k \in [type : {"initialRequest"}, from : Peers, to : Peers, initialNonce : Nonces]
      BY <1>0 DEF Messages
    <3>2. k.from = Creator(n0) /\ k.to = object[n0].peer
      BY <1>0 DEF Pairing, RequestsSound
    <3> QED BY <2>2, <3>1, <3>2
  <2>5. RequestsSound'
    <3>1. \A p \in Peers : \A m \in requests'[p] : m.type = "initialRequest"
      BY <1>0, <2>1 DEF Pairing, RequestsSound
    <3>2. \A m \in net' : m.type = "initialRequest" =>
             /\ m.from = Creator(m.initialNonce) /\ object'[m.initialNonce].peer = m.to
             /\ \A k \in net' : k.type = "initialRequest" /\ k.initialNonce = m.initialNonce => k = m
      BY <1>1, <2>3, <2>4
    <3> QED BY <3>1, <3>2 DEF RequestsSound
  <2>6. ResponsesSound' /\ OthersPaired'
    BY <1>0, <1>2, <1>3, <1>k, <2>3 DEF ResponsesSound, OthersPaired, Kept, Pairing
  <2>7. \A m \in net' : /\ m.type # "general" => Created(m.initialNonce)'
                        /\ m.type # "initialRequest" => Created(m.yourNonce)'
    BY <1>5, <2>1, <2>3 DEF Created
  <2>8. \A n \in Nonces : ~Created(n)' => object'[n] = NoSession
    BY <1>0, <2>1 DEF Fresh, Created
  <2>9. Plain
    BY <2>3 DEF Plain
  <2> QED BY <1>6, <2>5, <2>6, <2>7, <2>8, <2>9 DEF FreshParts, Pairing
<1>9. CASE AnswersRequest
  <2>1. PICK m \in net, v \in BOOLEAN, b \in BOOLEAN :
           /\ m.type = "initialRequest" /\ m \notin requests[m.to]
           /\ NewSession(m.to, SessionOf(m.from, m.initialNonce, FALSE, v))
           /\ \/ net' = net \cup {[type |-> "initialResponse", from |-> m.to, to |-> m.from,
                                   initialNonce |-> <<m.to, made[m.to] + 1>>,
                                   yourNonce |-> m.initialNonce, certificates |-> b]}
              \/ net' = net
           /\ requests' = [requests EXCEPT ![m.to] = @ \cup {m}]
           /\ lapsed' = lapsed
    BY <1>9 DEF AnswersRequest
  <2>2. PICK n0 : n0 = <<m.to, made[m.to] + 1>>
    OBVIOUS
  <2>3. PICK m0 : m0 = [type |-> "initialResponse", from |-> m.to, to |-> m.from,
                        initialNonce |-> n0, yourNonce |-> m.initialNonce, certificates |-> b]
    OBVIOUS
  <2>4. PICK a0 : a0 = m.initialNonce
    OBVIOUS
  <2>5. /\ m.to \in Peers /\ a0 \in Nonces /\ Created(a0) /\ Asked(a0)
        /\ m.from = Creator(a0) /\ object[a0].peer = m.to
    BY <1>0, <1>m, <2>1, <2>4, MessageFacts DEF Asked, Pairing, RequestsSound
  <2>6. /\ n0 \in Nonces /\ Creator(n0) = m.to /\ ~Created(n0) /\ object[n0] = NoSession
        /\ ~Asked(n0) /\ Created(n0)' /\ \A k \in Nonces : Created(k) => Created(k)' /\ k # n0
    <3>1. PICK p \in Peers : p = m.to
      BY <2>5
    <3>2. made[p] < MaxNonces /\ made' = [made EXCEPT ![p] = @ + 1] /\ n0 = <<p, made[p] + 1>>
      BY <2>1, <2>2, <3>1 DEF NewSession
    <3>3. /\ n0 \in Nonces /\ Creator(n0) = p /\ ~Created(n0) /\ object[n0] = NoSession
          /\ ~Asked(n0) /\ Created(n0)' /\ \A k \in Nonces : Created(k) => Created(k)' /\ k # n0
      BY <3>2, NewNonce
    <3> QED BY <3>1, <3>3
  <2>7. /\ m0.type = "initialResponse" /\ m0.initialNonce = n0 /\ m0.yourNonce = a0
        /\ m0.from = m.to /\ m0.to = m.from /\ net' \in {net, net \cup {m0}}
    BY <2>1, <2>2, <2>3, <2>4
  <2>8. /\ \A n \in Nonces : n # n0 => object'[n] = object[n]
        /\ object'[n0].peer = m.from /\ object'[n0].peerNonce = a0
        /\ object'[n0].isAuthenticated = FALSE
    BY <1>0, <2>1, <2>2, <2>4, <2>6 DEF NewSession, Typed, SessionOf
  <2>9. \A n \in Nonces : Asked(n)' <=> Asked(n)
    BY <2>7 DEF Asked
  <2>10. m \in requests'[m.to]
    BY <1>0, <2>1, <2>5 DEF Typed
  <2>11. \A n \in Nonces : ~Created(n)' => object'[n] = NoSession
    BY <1>0, <2>6, <2>8 DEF Fresh
  <2>12. RequestsSound'
    <3>1. \A p \in Peers : \A k \in requests'[p] : k.type = "initialRequest"
      BY <1>0, <2>1 DEF Pairing, RequestsSound, Typed
    <3> QED BY <1>1, <2>7, <3>1 DEF RequestsSound
  <2>13. Answers(n0, a0)'
    BY <2>1, <2>4, <2>5, <2>6, <2>8, <2>9, <2>10 DEF Answers
  <2>14. \A k \in Nonces : ~Asked(k)' /\ object'[k].peerNonce # NoNonce =>
            Answers(k, object[k].peerNonce)'
    <3> SUFFICES ASSUME NEW k \in Nonces, NEW n, n = object'[k].peerNonce, ~Asked(k)', n # NoNonce
                 PROVE  Answers(k, n)'
      OBVIOUS
    <3>1. CASE k = n0
      BY <2>8, <2>13, <3>1
    <3>2. CASE k # n0
      <4>1. object[k].peerNonce = n /\ Created(k) /\ Created(n) /\ n \in Nonces /\ ~Asked(k)
        BY <1>f, <2>8, <2>9, <3>2
      <4> QED BY <1>0, <1>4, <4>1 DEF Pairing, AnswersSound
    <3> QED BY <3>1, <3>2
  <2>15. a0 \notin lapsed => \A k \in Nonces : ~Asked(k) => object[k].peerNonce # a0
    <3> SUFFICES ASSUME a0 \notin lapsed, NEW k \in Nonces, ~Asked(k), object[k].peerNonce = a0
                 PROVE  FALSE
      OBVIOUS
    <3>1. Answers(k, a0)
      BY <1>0, <2>5 DEF Pairing, AnswersSound
    <3>2. PICK m1 \in requests[Creator(k)] : m1.type = "initialRequest" /\ m1.initialNonce = a0
      BY <3>1 DEF Answers
    <3>3. Creator(k) = m.to /\ m1 \in net
      BY <1>0, <2>5, <3>1, <3>2, NonceFacts DEF Answers, Typed
    <3> QED BY <1>0, <2>1, <2>4, <3>2, <3>3 DEF Pairing, RequestsSound
  <2>16. \A k, l \in Nonces : ~Asked(k)' /\ ~Asked(l)' /\ object'[k].peerNonce # NoNonce
                               /\ object'[k].peerNonce = object'[l].peerNonce
                               => k = l \/ object'[k].peerNonce \in lapsed'
    BY <1>0, <2>1, <2>8, <2>9, <2>15 DEF Pairing, AnswersSound
  <2>17. ResponsesSound'
    BY <1>2, <2>5, <2>6, <2>7, <2>8, <2>9 DEF ResponsesSound
  <2>18. AskersPaired'
    <3> SUFFICES ASSUME NEW n \in Nonces, Asked(n)', NEW k, k = object'[n].peerNonce, k # NoNonce
                 PROVE  Paired(n)' /\ ~Asked(k)' /\ object'[k].peerNonce = n
      BY DEF AskersPaired
    <3>1. n # n0 /\ object[n].peerNonce = k /\ k \in Nonces
      BY <1>f, <2>6, <2>8, <2>9
    <3>2. Paired(n) /\ ~Asked(k) /\ object[k].peerNonce = n /\ n # NoNonce
      BY <1>0, <2>9, <3>1 DEF Pairing, AskersPaired
    <3>3. k # n0
      BY <2>6, <3>2 DEF NoSession
    <3> QED BY <1>k, <2>8, <2>9, <3>1, <3>2, <3>3 DEF Kept
  <2>19. OthersPaired'
    BY <1>0, <1>3, <1>k, <2>7, <2>8 DEF OthersPaired, Kept, Pairing
  <2>20. \A n \in Nonces : object'[n].peerNonce # NoNonce => Created(object[n].peerNonce)'
    <3> SUFFICES ASSUME NEW n \in Nonces, NEW k, k = object'[n].peerNonce, k # NoNonce
                 PROVE  Created(k)'
      OBVIOUS
    <3> QED BY <1>f, <2>5, <2>6, <2>8
  <2>21. \A l \in net' : /\ l.type # "general" => Created(l.initialNonce)'
                         /\ l.type # "initialRequest" => Created(l.yourNonce)'
    BY <1>5, <2>5, <2>6, <2>7
  <2> QED BY <2>11, <2>12, <2>14, <2>16, <2>17, <2>18, <2>19, <2>20, <2>21
          DEF FreshParts, Pairing, AnswersSound
<1>10. CASE HearsResponse
  <2>1. PICK m \in net, v \in BOOLEAN :
           /\ m.type = "initialResponse"
           /\ object' = [object EXCEPT ![m.yourNonce] = SessionOf(m.from, m.initialNonce, TRUE, v)]
           /\ UNCHANGED <<made, net, requests, lapsed>>
    BY <1>10 DEF HearsResponse
  <2>2. PICK n0, k0 : n0 = m.yourNonce /\ k0 = m.initialNonce
    OBVIOUS
  <2>3. /\ n0 \in Nonces /\ k0 \in Nonces /\ Created(n0) /\ Created(k0)
        /\ object[k0].peerNonce = n0 /\ ~Asked(k0) /\ m.from = Creator(k0)
    BY <1>0, <1>m, <2>1, <2>2 DEF Pairing, ResponsesSound
  <2>4. Asked(n0) /\ n0 # k0 /\ object[k0].peer = Creator(n0)
    BY <1>0, <2>3 DEF Pairing, AnswersSound, Answers
  <2>5. /\ \A n \in Nonces : n # n0 => object'[n] = object[n]
        /\ object'[n0].peer = m.from /\ object'[n0].peerNonce = k0
    BY <1>0, <2>1, <2>2, <2>3 DEF Typed, SessionOf
  <2>6. \A n : (Asked(n)' <=> Asked(n)) /\ (Created(n)' <=> Created(n))
    BY <2>1 DEF Asked, Created
  <2>7. Paired(n0)' /\ object'[k0].peerNonce = n0 /\ ~Asked(k0)'
    BY <1>0, <2>3, <2>4, <2>5, <2>6 DEF Paired
  <2>8. FreshParts'
    <3>1. \A n \in Nonces : ~Created(n)' => object'[n] = NoSession
      BY <1>0, <2>3, <2>5, <2>6 DEF Fresh
    <3>2. \A n \in Nonces : object'[n].peerNonce # NoNonce => Created(object[n].peerNonce)'
      <4> SUFFICES ASSUME NEW n \in Nonces, NEW k, k = object'[n].peerNonce, k # NoNonce
                   PROVE  Created(k)'
        OBVIOUS
      <4> QED BY <1>f, <2>3, <2>5, <2>6
    <3> QED BY <1>5, <2>1, <3>1, <3>2 DEF FreshParts
  <2>9. RequestsSound' /\ ResponsesSound'
    BY <1>0, <1>1, <1>2, <2>1 DEF Pairing, RequestsSound, ResponsesSound
  <2>10. \A k \in Nonces : ~Asked(k)' /\ object'[k].peerNonce # NoNonce =>
            Answers(k, object[k].peerNonce)'
    <3> SUFFICES ASSUME NEW k \in Nonces, NEW n, n = object'[k].peerNonce, ~Asked(k)', n # NoNonce
                 PROVE  Answers(k, n)'
      OBVIOUS
    <3>1. object[k].peerNonce = n /\ Created(k) /\ Created(n) /\ n \in Nonces /\ ~Asked(k)
      BY <1>f, <2>4, <2>5, <2>6
    <3> QED BY <1>0, <1>4, <3>1 DEF Pairing, AnswersSound
  <2>11. \A k, l \in Nonces : ~Asked(k)' /\ ~Asked(l)' /\ object'[k].peerNonce # NoNonce
                               /\ object'[k].peerNonce = object'[l].peerNonce
                               => k = l \/ object'[k].peerNonce \in lapsed'
    <3> SUFFICES ASSUME NEW k \in Nonces, NEW l \in Nonces, ~Asked(k)', ~Asked(l)',
                        object'[k].peerNonce # NoNonce, object'[k].peerNonce = object'[l].peerNonce
                 PROVE  k = l \/ object'[k].peerNonce \in lapsed'
      OBVIOUS
    <3>1. ~Asked(k) /\ ~Asked(l) /\ object'[k] = object[k] /\ object'[l] = object[l]
      BY <2>4, <2>5, <2>6
    <3>2. object[k].peerNonce # NoNonce /\ object[k].peerNonce = object[l].peerNonce
      BY <3>1
    <3>3. k = l \/ object[k].peerNonce \in lapsed
      BY <1>0, <3>1, <3>2 DEF Pairing, AnswersSound
    <3>4. lapsed' = lapsed
      BY <2>1
    <3> QED BY <3>1, <3>3, <3>4
  <2>12. AskersPaired'
    <3> SUFFICES ASSUME NEW n \in Nonces, Asked(n)', NEW k, k = object'[n].peerNonce, k # NoNonce
                 PROVE  Paired(n)' /\ ~Asked(k)' /\ object'[k].peerNonce = n
      BY DEF AskersPaired
    <3>1. CASE n = n0
      BY <2>3, <2>5, <2>6, <2>7, <3>1
    <3>2. CASE n # n0
      <4>1. object[n].peerNonce = k /\ Asked(n)
        BY <2>5, <2>6, <3>2
      <4>2. Paired(n) /\ ~Asked(k) /\ object[k].peerNonce = n /\ k \in Nonces
        BY <1>0, <1>f, <4>1 DEF Pairing, AskersPaired
      <4>3. k # n0
        BY <2>4, <4>2
      <4> QED BY <1>k, <2>5, <2>6, <4>2, <4>3 DEF Kept
    <3> QED BY <3>1, <3>2
  <2>13. OthersPaired'
    <3>1. \A n \in Nonces : object'[n].isAuthenticated => Paired(n)'
      BY <1>0, <1>k, <2>5, <2>7 DEF OthersPaired, Kept, Pairing
    <3> QED BY <1>3, <2>1, <3>1 DEF OthersPaired
  <2> QED BY <2>8, <2>9, <2>10, <2>11, <2>12, <2>13 DEF Pairing, AnswersSound
\* The other effects leave the nonces of all sessions alone.
<1>11. CASE HearsMessage \/ HearsCertificates \/ Refuses \/ Forgets \/ Silent
  <2>1. /\ net' = net
        /\ \A n \in Nonces : /\ object'[n].peerNonce = object[n].peerNonce
                             /\ ~Created(n) => object'[n] = object[n]
                             /\ object'[n].isAuthenticated => object[n].isAuthenticated \/ Paired(n)
    <3>1. CASE HearsMessage
      <4>1. PICK n0 \in Nonces : Paired(n0) /\ net' = net
                                 /\ object' = [object EXCEPT ![n0].isAuthenticated = TRUE]
        BY <3>1 DEF HearsMessage
      <4>2. Created(n0)
        BY <1>f, <4>1 DEF Paired
      <4> QED BY <1>0, <4>1, <4>2 DEF Typed, Sessions
    <3>2. CASE HearsCertificates
      <4>1. PICK n0 \in Nonces : net' = net /\ Created(n0)
                                 /\ object' = [object EXCEPT ![n0].certificatesValidated = TRUE]
        BY <3>2 DEF HearsCertificates
      <4> QED BY <1>0, <4>1 DEF Typed, Sessions
    <3>3. CASE Refuses \/ Forgets \/ Silent
      BY <3>3 DEF Refuses, Forgets, Silent
    <3> QED BY <1>11, <3>1, <3>2, <3>3
  <2>2. Plain
    BY <2>1 DEF Plain
  <2>3. RequestsSound' /\ ResponsesSound'
    <3>1. \A p \in Peers : \A m \in requests'[p] : m.type = "initialRequest"
      BY <1>0, <1>11 DEF Pairing, RequestsSound, HearsMessage, HearsCertificates, Refuses, Forgets,
                         Silent, Typed
    <3> QED BY <1>1, <1>2, <2>1, <3>1 DEF RequestsSound, ResponsesSound
  <2>4. OthersPaired'
    BY <1>0, <1>3, <1>k, <2>1 DEF OthersPaired, Kept, Pairing
  <2>5. \A n \in Nonces : ~Created(n)' => object'[n] = NoSession
    BY <1>0, <1>k, <2>1 DEF Fresh, Kept
  <2> QED BY <1>5, <1>6, <2>1, <2>2, <2>3, <2>4, <2>5 DEF FreshParts, Pairing
<1>12. CASE Sends
  <2>1. PICK n0 \in Nonces, m0 \in Messages :
            /\ object[n0].isAuthenticated /\ n0[2] <= made[Creator(n0)]
            /\ m0.type \in {"certificateResponse", "general"}
            /\ m0.yourNonce = object[n0].peerNonce
            /\ m0.type # "general" => m0.initialNonce = n0
            /\ net' = net \cup {m0}
            /\ UNCHANGED <<made, object, requests, lapsed>>
    BY <1>12 DEF Sends
  <2>2. Paired(n0) /\ Created(n0)
    BY <1>0, <2>1 DEF Pairing, OthersPaired, Created
  <2>3. Created(m0.yourNonce) /\ Paired(m0.yourNonce)
    <3>1. PICK k0 : k0 = object[n0].peerNonce
      OBVIOUS
    <3>2. /\ k0 # NoNonce /\ k0 \in Nonces /\ Created(k0) /\ n0 # NoNonce
          /\ object[n0].peer = Creator(k0) /\ object[k0].peer = Creator(n0)
          /\ object[k0].peerNonce # NoNonce
      BY <1>0, <1>f, <2>2, <3>1 DEF Paired
    <3>3. CASE Asked(n0)
      <4>1. object[k0].peerNonce = n0
        BY <1>0, <3>1, <3>2, <3>3 DEF Pairing, AskersPaired
      <4>2. Paired(k0)
        BY <3>1, <3>2, <4>1 DEF Paired
      <4> QED BY <2>1, <3>1, <3>2, <4>2
    <3>4. CASE ~Asked(n0)
      <4>1. Asked(k0)
        BY <1>0, <3>1, <3>2, <3>4 DEF Pairing, AnswersSound, Answers
      <4>2. Paired(k0)
        BY <1>0, <3>2, <4>1 DEF Pairing, AskersPaired
      <4> QED BY <2>1, <3>1, <3>2, <4>2
    <3> QED BY <3>3, <3>4
  <2>4. RequestsSound' /\ ResponsesSound'
    BY <1>0, <1>1, <1>2, <2>1 DEF Pairing, RequestsSound, ResponsesSound
  <2>5. OthersPaired'
    BY <1>0, <1>3, <1>k, <2>1, <2>3 DEF OthersPaired, Kept, Pairing, Created
  <2>6. \A l \in net' : /\ l.type # "general" => Created(l.initialNonce)'
                        /\ l.type # "initialRequest" => Created(l.yourNonce)'
    BY <1>5, <2>1, <2>2, <2>3 DEF Created
  <2>7. \A n \in Nonces : ~Created(n)' => object'[n] = NoSession
    BY <1>0, <2>1 DEF Fresh, Created
  <2>8. Plain
    BY <2>1 DEF Plain
  <2> QED BY <1>6, <2>4, <2>5, <2>6, <2>7, <2>8 DEF FreshParts, Pairing
<1> QED BY <1>7, <1>9, <1>10, <1>11, <1>12, <1>8 DEF Effect

-----------------------------------------------------------------------------
LEMMA StoredNext ==
    ASSUME SessionInv, [Next]_vars
    PROVE  \A p \in Peers : \A n \in stored'[p] : Created(n)' /\ Creator(n) = p
<1>0. /\ Typed /\ Fresh /\ \A r \in proc : r \in Procs /\ Proper(r)
  BY DEF SessionInv, Typed
<1>1. Kept
  BY Effects, KeptByAll
<1>2. ASSUME \A p \in Peers : stored'[p] \subseteq stored[p]
      PROVE  \A p \in Peers : \A n \in stored'[p] : Created(n)' /\ Creator(n) = p
  BY <1>0, <1>1, <1>2 DEF Fresh, Kept, Typed
<1>3. ASSUME NEW p \in Peers, NEW n \in Nonces, NEW s, NEW e, Store(p, n, s, e),
             Created(n)', Creator(n) = p
      PROVE  \A q \in Peers : \A k \in stored'[q] : Created(k)' /\ Creator(k) = q
  <2>1. \A q \in Peers : stored'[q] \subseteq (stored[q] \cup {n}) /\ (q # p => n \notin stored'[q])
    BY <1>0, <1>3 DEF Store, Typed, Fresh
  <2> QED BY <1>0, <1>1, <1>3, <2>1 DEF Fresh, Kept, Typed
<1>4. ASSUME NEW m \in net, ProcessInitialRequest(m), stored' # stored
      PROVE  \A p \in Peers : \A n \in stored'[p] : Created(n)' /\ Creator(n) = p
  <2>1. PICK p \in Peers : p = m.to
    BY <1>0, MessageFacts DEF Typed
  <2>2. PICK n : n = <<p, made[p] + 1>>
    OBVIOUS
  <2>3. made[p] < MaxNonces /\ made' = [made EXCEPT ![p] = @ + 1]
        /\ \E s, e : Store(p, n, s, e)
    BY <1>4, <2>1, <2>2 DEF ProcessInitialRequest, Answer
  <2>4. n \in Nonces /\ Creator(n) = p /\ Created(n)'
    BY <2>2, <2>3, NewNonce
  <2> QED BY <1>3, <2>3, <2>4
<1>5. ASSUME NEW r \in proc, Begin(r), stored' # stored
      PROVE  \A p \in Peers : \A n \in stored'[p] : Created(n)' /\ Creator(n) = p
  <2>1. PICK p \in Peers : p = r.at
    BY <1>0 DEF Procs
  <2>2. PICK n : n = <<p, made[p] + 1>>
    OBVIOUS
  <2>3. made[p] < MaxNonces /\ made' = [made EXCEPT ![p] = @ + 1]
        /\ \E s, e : Store(p, n, s, e)
    BY <1>5, <2>1, <2>2 DEF Begin, GetAuthenticatedSession, InitiateHandshake, manager
  <2>4. n \in Nonces /\ Creator(n) = p /\ Created(n)'
    BY <2>2, <2>3, NewNonce
  <2> QED BY <1>3, <2>3, <2>4
<1>6. ASSUME NEW r \in proc, AuthenticateInitialResponse(r) \/ Marked(r), stored' # stored
      PROVE  \A p \in Peers : \A n \in stored'[p] : Created(n)' /\ Creator(n) = p
  <2>1. r.at \in Peers /\ r.session \in Nonces /\ Creator(r.session) = r.at /\ Created(r.session)'
    BY <1>0, <1>1, <1>6 DEF Procs, Proper, Kept, Created, AuthenticateInitialResponse, Marked
  <2>2. \E s, e : Store(r.at, r.session, s, e)
    BY <1>6 DEF AuthenticateInitialResponse, Marked, Update
  <2> QED BY <1>3, <2>1, <2>2
<1>7. ASSUME NEW r \in proc, GiveUp(r) PROVE \A p \in Peers : stored'[p] \subseteq stored[p]
  BY <1>0, <1>7 DEF GiveUp, RemoveSession, Typed
<1>8. ASSUME NEW p \in Peers, NEW n \in Nonces, Expire(p, n)
      PROVE  \A q \in Peers : stored'[q] \subseteq stored[q]
  BY <1>0, <1>8 DEF Expire, RemoveSession, Typed
<1>9. ASSUME NEW m \in net, Receive(m) PROVE stored' = stored
  BY <1>9 DEF Receive, manager
<1>10. ASSUME NEW r \in proc, Resume(r) \/ SendSigned(r) \/ Claim(r) \/ CheckBrought(r)
                \/ ReleaseWaiters(r) \/ MarkAuthenticated(r) \/ ProcessCertificateResponse(r)
                \/ ProcessGeneralMessage(r) \/ DispatchReady(r) \/ ValidationTimesOut(r)
       PROVE  stored' = stored
  BY <1>10 DEF Resume, SendSigned, Claim, CheckBrought, ReleaseWaiters, MarkAuthenticated,
               ProcessCertificateResponse, ProcessGeneralMessage, DispatchReady,
               ValidationTimesOut, manager
<1>11. ASSUME NEW r \in proc, SendInitialRequest(r) \/ IdentityKeyFails(r) PROVE stored' = stored
  BY <1>11 DEF SendInitialRequest, IdentityKeyFails
<1>12. ASSUME NEW p \in Peers, NEW m \in net, ForgetRequest(p, m) PROVE stored' = stored
  BY <1>12 DEF ForgetRequest
<1>13. CASE UNCHANGED vars
  BY <1>2, <1>13 DEF vars
<1> QED BY <1>2, <1>4, <1>5, <1>6, <1>7, <1>8, <1>9, <1>10, <1>13, <1>11, <1>12
        DEF Next, Step, Timer

-----------------------------------------------------------------------------
(***************************************************************************)
(* Processes.                                                              *)
(***************************************************************************)
LEMMA ProperKept ==
    ASSUME SessionInv, Kept, CopiesGrow, copies' \in [net' -> 0..2], NEW r \in proc
    PROVE  Proper(r)'
<1>1. r \in Procs /\ Proper(r) /\ net \subseteq Messages
  BY DEF SessionInv, Typed
<1>2. r.job = "handler" => r.subject \in net' /\ 1 <= r.copy /\ r.copy <= copies'[r.subject]
  BY <1>1 DEF Proper, Kept, CopiesGrow, Procs, SessionInv, Typed
<1>3. r.pc # "start" => /\ Created(r.session)' /\ Creator(r.session) = r.at
                        /\ object'[r.session].peer = r.with
  BY <1>1 DEF Proper, Kept, Created
<1>4. r.pc \in {"signing", "authenticated", "validated", "marked", "blocked", "ready"} =>
          object'[r.session].isAuthenticated
  BY <1>1 DEF Proper, Kept, Created
<1>5. r.pc = "keying" => Open(r.session)'
  BY <1>1 DEF Proper, Kept, Created
<1> QED BY <1>1, <1>2, <1>3, <1>4, <1>5 DEF Proper

LEMMA MovedProper ==
    ASSUME NEW q \in Procs, Proper(q)', NEW to \in Pcs \ {"start", "keying"}, q.pc # "start",
           to \in Idle <=> q.pc \in Idle,
           to \in {"authenticated", "validated"} => q.subject.type = "initialResponse",
           to \in {"marking", "marked"} => q.subject.type # "initialResponse",
           to \in {"blocked", "ready"} => q.subject.type = "general",
           to \in {"signing", "authenticated", "validated", "marked", "blocked", "ready"} =>
              object'[q.session].isAuthenticated
    PROVE  Proper([q EXCEPT !.pc = to])'
<1> DEFINE s == [q EXCEPT !.pc = to]
<1>1. /\ s.job = q.job /\ s.at = q.at /\ s.with = q.with /\ s.subject = q.subject
      /\ s.copy = q.copy /\ s.session = q.session /\ s.pc = to
  BY DEF Procs
<1> HIDE DEF s
<1>2. Proper(s)'
  BY <1>1 DEF Proper
<1> QED BY <1>2 DEF s

LEMMA ProperNext ==
    ASSUME SessionInv, [Next]_vars
    PROVE  \A r \in proc' : Proper(r)'
<1>0. /\ Typed /\ Fresh /\ \A r \in proc : r \in Procs /\ Proper(r)
  BY DEF SessionInv, Typed
<1>k. Kept /\ CopiesGrow /\ copies' \in [net' -> 0..2]
  BY Effects, KeptByAll, TypedNext DEF Typed
<1>p. \A r \in proc : Proper(r)'
  BY <1>k, ProperKept
<1>1. ASSUME proc' \subseteq proc PROVE \A r \in proc' : Proper(r)'
  BY <1>p, <1>1
<1>2. ASSUME NEW r \in proc, NEW s, Becomes(r, {s}), Proper(s)' PROVE \A q \in proc' : Proper(q)'
  BY <1>p, <1>2 DEF Becomes
<1>3. ASSUME NEW m \in net, Receive(m) PROVE \A r \in proc' : Proper(r)'
  <2>1. PICK s : s = Proc("handler", m.to, m.from, m, copies[m] + 1, "verifying", m.yourNonce)
    OBVIOUS
  <2>2. CASE Addressed(m)
    <3>1. copies'[m] = copies[m] + 1 /\ copies[m] \in Nat /\ m \in net' /\ m \in Messages
      BY <1>0, <1>3 DEF Receive, Deliver, Typed
    <3>2. /\ m.type # "initialRequest" /\ m.yourNonce \in stored[m.to] /\ m.to \in Peers
          /\ m.yourNonce \in Nonces /\ object[m.yourNonce].peer = m.from
      BY <1>3, <2>2, <3>1, MessageFacts DEF Receive, Addressed
    <3>3. /\ Created(m.yourNonce)' /\ Creator(m.yourNonce) = m.to
          /\ object'[m.yourNonce].peer = m.from
      BY <1>0, <1>k, <3>2 DEF Fresh, Kept
    <3>4. Proper(s)'
      BY <2>1, <3>1, <3>2, <3>3 DEF Proper, Proc, Idle
    <3> QED BY <1>3, <1>p, <2>1, <2>2, <3>4 DEF Receive
  <2> QED BY <1>1, <1>3, <2>2 DEF Receive
<1>4. ASSUME NEW r \in proc, Begin(r) PROVE \A q \in proc' : Proper(q)'
  <2>1. ASSUME NEW n \in Best(r.at, r.with), object[n].isAuthenticated,
               Becomes(r, {[r EXCEPT !.pc = "signing", !.session = n]}),
               UNCHANGED <<manager, requests, net, copies, dispatched>>
        PROVE  \A q \in proc' : Proper(q)'
    <3>1. PICK s : s = [r EXCEPT !.pc = "signing", !.session = n]
      OBVIOUS
    <3>2. /\ s.job = r.job /\ s.at = r.at /\ s.with = r.with /\ s.subject = r.subject
          /\ s.session = n /\ s.pc = "signing" /\ r.at \in Peers
      BY <1>0, <3>1 DEF Procs
    <3>3. n \in Nonces /\ n \in stored[r.at] /\ object[n].peer = r.with
      BY <1>0, <3>2 DEF Best, Typed
    <3>4. Created(n)' /\ Creator(n) = r.at /\ object'[n].peer = r.with
          /\ object'[n].isAuthenticated
      BY <1>0, <1>k, <2>1, <3>2, <3>3 DEF Fresh, Kept
    <3>5. Proper(s)'
      BY <1>4, <1>p, <3>2, <3>4 DEF Proper, Begin, Idle
    <3> QED BY <1>2, <2>1, <3>1, <3>5
  <2>2. ASSUME NEW n, n = <<r.at, made[r.at] + 1>>, NEW e,
               made[r.at] < MaxNonces, made' = [made EXCEPT ![r.at] = @ + 1],
               Store(r.at, n, [peer |-> r.with, peerNonce |-> NoNonce, isAuthenticated |-> FALSE,
                               certificatesValidated |-> r.at \notin Requesters], e),
               Becomes(r, {[r EXCEPT !.pc = "keying", !.session = n]})
        PROVE  \A q \in proc' : Proper(q)'
    <3>1. PICK s : s = [r EXCEPT !.pc = "keying", !.session = n]
      OBVIOUS
    <3>2. /\ s.job = r.job /\ s.at = r.at /\ s.with = r.with /\ s.subject = r.subject
          /\ s.session = n /\ s.pc = "keying" /\ r.at \in Peers
      BY <1>0, <3>1 DEF Procs
    <3>3. n \in Nonces /\ Creator(n) = r.at /\ Created(n)'
      BY <2>2, <3>2, NewNonce
    <3>4. object'[n].peer = r.with /\ Open(n)'
      BY <1>0, <2>2, <3>3 DEF Store, Typed, Open
    <3>5. Proper(s)'
      BY <1>4, <1>p, <3>2, <3>3, <3>4 DEF Proper, Begin, Idle
    <3> QED BY <1>2, <2>2, <3>1, <3>5
  <2>3. CASE Becomes(r, {})
    BY <1>1, <2>3 DEF Becomes
  <2> QED BY <1>4, <2>1, <2>2, <2>3 DEF Begin, GetAuthenticatedSession, InitiateHandshake
<1>5. ASSUME NEW r \in proc, Throw(r) \/ Dispatch(r) PROVE \A q \in proc' : Proper(q)'
  BY <1>1, <1>5 DEF Throw, Dispatch, Becomes
<1>6. ASSUME NEW r \in proc, Resume(r) PROVE \A q \in proc' : Proper(q)'
  <2>1. CASE Becomes(r, {[r EXCEPT !.pc = "signing"]}) /\ object[r.session].isAuthenticated
    <3>1. Proper([r EXCEPT !.pc = "signing"])'
      BY <1>0, <1>6, <1>p, <2>1, MovedProper DEF Resume, manager, Pcs, Idle
    <3> QED BY <1>2, <2>1, <3>1
  <2> QED BY <1>5, <1>6, <2>1 DEF Resume
<1>7. ASSUME NEW r \in proc, SendSigned(r) PROVE \A q \in proc' : Proper(q)'
  BY <1>1, <1>5, <1>7 DEF SendSigned, Becomes
<1>8. ASSUME NEW r \in proc, Claim(r) PROVE \A q \in proc' : Proper(q)'
  <2>1. CASE Becomes(r, {[r EXCEPT !.pc = "claimed"]})
    <3>1. Proper([r EXCEPT !.pc = "claimed"])'
      BY <1>0, <1>8, <1>p, MovedProper DEF Claim, Pcs, Idle
    <3> QED BY <1>2, <2>1, <3>1
  <2> QED BY <1>5, <1>8, <2>1 DEF Claim
<1>9. ASSUME NEW r \in proc, AuthenticateInitialResponse(r) PROVE \A q \in proc' : Proper(q)'
  <2>1. CASE Becomes(r, {[r EXCEPT !.pc = "authenticated"]})
    <3>1. r.session \in Nonces
      BY <1>0, <1>9 DEF AuthenticateInitialResponse, Proper, Created
    <3>2. object'[r.session].isAuthenticated
      BY <1>0, <1>9, <3>1 DEF AuthenticateInitialResponse, Update, Store, Typed
    <3>3. Proper([r EXCEPT !.pc = "authenticated"])'
      BY <1>0, <1>9, <1>p, <3>2, MovedProper DEF AuthenticateInitialResponse, Pcs, Idle
    <3> QED BY <1>2, <2>1, <3>3
  <2> QED BY <1>5, <1>9, <2>1 DEF AuthenticateInitialResponse, Update
<1>10. ASSUME NEW r \in proc, MarkAuthenticated(r) PROVE \A q \in proc' : Proper(q)'
  <2>1. CASE Becomes(r, {[r EXCEPT !.pc = "marking"]})
    <3>1. Proper([r EXCEPT !.pc = "marking"])'
      BY <1>0, <1>10, <1>p, MovedProper DEF MarkAuthenticated, Pcs, Idle
    <3> QED BY <1>2, <2>1, <3>1
  <2> QED BY <1>5, <1>10, <2>1 DEF MarkAuthenticated
<1>11. ASSUME NEW r \in proc, Marked(r) PROVE \A q \in proc' : Proper(q)'
  <2>1. CASE Becomes(r, {[r EXCEPT !.pc = "marked"]})
    <3>1. r.session \in Nonces /\ r.subject.type # "initialResponse"
      BY <1>0, <1>11 DEF Marked, Proper, Created
    <3>2. object'[r.session].isAuthenticated
      BY <1>0, <1>11, <3>1 DEF Marked, Update, Store, Typed, Sessions
    <3>3. Proper([r EXCEPT !.pc = "marked"])'
      BY <1>0, <1>11, <1>p, <3>1, <3>2, MovedProper DEF Marked, Pcs, Idle
    <3> QED BY <1>2, <2>1, <3>3
  <2> QED BY <1>5, <1>11, <2>1 DEF Marked, Update
<1>12. ASSUME NEW r \in proc PROVE \A q \in Woken(r, "blocked", "ready") : Proper(q)'
  <2> SUFFICES ASSUME NEW q \in proc, q.pc = "blocked" PROVE Proper([q EXCEPT !.pc = "ready"])'
    BY DEF Woken
  <2>1. q.subject.type = "general" /\ object'[q.session].isAuthenticated
    BY <1>p DEF Proper
  <2> QED BY <1>0, <1>p, <2>1, MovedProper DEF Pcs, Idle
<1>13. ASSUME NEW r \in proc PROVE \A q \in Woken(r, "waiting", "woken") : Proper(q)'
  <2> SUFFICES ASSUME NEW q \in proc, q.pc = "waiting" PROVE Proper([q EXCEPT !.pc = "woken"])'
    BY DEF Woken
  <2> QED BY <1>0, <1>p, MovedProper DEF Pcs, Idle
<1>14. ASSUME NEW r \in proc, CheckBrought(r) PROVE \A q \in proc' : Proper(q)'
  <2>1. Proper([r EXCEPT !.pc = "validated"])'
    <3>1. r.pc = "authenticated" /\ r.subject.type = "initialResponse"
          /\ object'[r.session].isAuthenticated
      BY <1>14, <1>p DEF CheckBrought, Proper
    <3> QED BY <1>0, <1>p, <3>1, MovedProper DEF Pcs, Idle
  <2> QED BY <1>5, <1>12, <1>14, <1>p, <2>1 DEF CheckBrought
<1>15. ASSUME NEW r \in proc, ReleaseWaiters(r) PROVE \A q \in proc' : Proper(q)'
  <2>1. PICK s : s = Proc("answer", r.at, r.with, r.subject, r.copy, "start", NoNonce)
    OBVIOUS
  <2>2. Proper(s)'
    BY <2>1 DEF Proper, Proc, Idle
  <2> QED BY <1>13, <1>15, <1>p, <2>1, <2>2 DEF ReleaseWaiters
<1>16. ASSUME NEW r \in proc, ProcessCertificateResponse(r) PROVE \A q \in proc' : Proper(q)'
  BY <1>5, <1>12, <1>16, <1>p DEF ProcessCertificateResponse, Validate
<1>17. ASSUME NEW r \in proc, ProcessGeneralMessage(r) PROVE \A q \in proc' : Proper(q)'
  <2>1. CASE Becomes(r, {[r EXCEPT !.pc = "blocked"]})
    <3>1. r.pc = "marked" /\ r.subject.type = "general" /\ object'[r.session].isAuthenticated
      BY <1>17, <1>p DEF ProcessGeneralMessage, Proper
    <3>2. Proper([r EXCEPT !.pc = "blocked"])'
      BY <1>0, <1>p, <3>1, MovedProper DEF Pcs, Idle
    <3> QED BY <1>2, <2>1, <3>2
  <2> QED BY <1>5, <1>17, <2>1 DEF ProcessGeneralMessage
<1>18. ASSUME NEW r \in proc, GiveUp(r) \/ ValidationTimesOut(r) \/ DispatchReady(r)
       PROVE  \A q \in proc' : Proper(q)'
  BY <1>5, <1>18 DEF GiveUp, ValidationTimesOut, DispatchReady
<1>19. ASSUME NEW m \in net, ProcessInitialRequest(m) PROVE \A q \in proc' : Proper(q)'
  BY <1>1, <1>19 DEF ProcessInitialRequest, Answer
<1>20. ASSUME NEW p \in Peers, NEW n \in Nonces, Expire(p, n) PROVE \A q \in proc' : Proper(q)'
  BY <1>1, <1>20 DEF Expire
<1>21. ASSUME NEW r \in proc, SendInitialRequest(r) PROVE \A q \in proc' : Proper(q)'
  <2>1. Proper([r EXCEPT !.pc = "waiting"])'
    BY <1>0, <1>21, <1>p, MovedProper DEF SendInitialRequest, Pcs, Idle
  <2> QED BY <1>2, <1>21, <2>1 DEF SendInitialRequest
<1>22. ASSUME NEW r \in proc, IdentityKeyFails(r) PROVE \A q \in proc' : Proper(q)'
  BY <1>5, <1>22 DEF IdentityKeyFails
<1>23. ASSUME NEW p \in Peers, NEW m \in net, ForgetRequest(p, m) PROVE \A q \in proc' : Proper(q)'
  BY <1>1, <1>23 DEF ForgetRequest
<1>24. CASE UNCHANGED vars
  BY <1>1, <1>24 DEF vars
<1> QED BY <1>3, <1>4, <1>6, <1>7, <1>8, <1>9, <1>10, <1>11, <1>14, <1>15, <1>16, <1>17, <1>18,
           <1>19, <1>20, <1>24, <1>21, <1>22, <1>23 DEF Next, Step, Timer

LEMMA SessionInvNext ==
    ASSUME SessionInv, [Next]_vars
    PROVE  SessionInv'
<1>1. Typed' /\ FreshParts' /\ Pairing' /\ \A r \in proc' : Proper(r)'
  BY TypedNext, Effects, PairingNext, ProperNext
<1>2. Fresh'
  BY <1>1, StoredNext DEF Fresh, FreshParts
<1> QED BY <1>1, <1>2 DEF SessionInv

\* The sessions, messages and processes of every reachable state fit together.
THEOREM SessionsSound == Spec => []SessionInv
<1>1. Init => SessionInv
  <2> SUFFICES ASSUME Init PROVE SessionInv
    OBVIOUS
  <2>1. Typed
    <3>1. NoSession \in Sessions
      BY DEF NoSession, Sessions
    <3>2. proc \subseteq Procs
      BY CallsHaveEnds DEF Init, Proc, Procs, Pcs
    <3> QED BY <3>1, <3>2, BoundsPositive DEF Init, Typed
  <2>2. Fresh
    BY DEF Init, Fresh, NoSession
  <2>3. \A r \in proc : Proper(r)
    BY DEF Init, Proc, Proper, Idle
  <2>4. Pairing
    BY DEF Init, Pairing, RequestsSound, AnswersSound, ResponsesSound, AskersPaired, OthersPaired,
           NoSession, Asked
  <2> QED BY <2>1, <2>2, <2>3, <2>4 DEF SessionInv
<1>2. SessionInv /\ [Next]_vars => SessionInv'
  BY SessionInvNext
<1> QED BY <1>1, <1>2, PTL DEF Spec

\* SessionsAgree, for any peers, calls and losses, repetitions and crossings of
\* messages: what authenticateInitialResponse and markSessionAuthenticated take
\* for authenticated is paired on both sides.
THEOREM PeersAgree == Spec => []SessionsAgree
<1>1. SessionInv => SessionsAgree
  <2> SUFFICES ASSUME SessionInv, NEW n \in Nonces, object[n].isAuthenticated,
                      NEW k, k = object[n].peerNonce
               PROVE  /\ k # NoNonce
                      /\ object[n].peer = Creator(k) /\ object[k].peer = Creator(n)
                      /\ \/ object[k].peerNonce = n
                         \/ k \in lapsed /\ Creator(object[k].peerNonce) = Creator(n)
    BY DEF SessionsAgree
  <2>1. Paired(n)
    BY DEF SessionInv, Pairing, OthersPaired
  <2>2. k \in Nonces /\ k # NoNonce
    BY <2>1 DEF Paired, SessionInv, Fresh, Created
  <2>3. CASE Asked(n)
    BY <2>1, <2>2, <2>3 DEF SessionInv, Pairing, AskersPaired, Paired
  <2>4. CASE ~Asked(n)
    <3>1. Asked(k)
      BY <2>2, <2>4 DEF SessionInv, Pairing, AnswersSound, Answers
    <3>2. Paired(k)
      BY <2>1, <2>2, <3>1 DEF SessionInv, Pairing, AskersPaired, Paired
    <3> QED BY <2>1, <2>2, <3>2 DEF Paired
  <2> QED BY <2>3, <2>4
<1> QED BY <1>1, SessionsSound, PTL

-----------------------------------------------------------------------------
(***************************************************************************)
(* Waiting: for certificates, and for the initial response.                *)
(***************************************************************************)
\* Process s is process q moved on to `to`.
Moved(q, s, to) ==
    /\ s.job = q.job /\ s.at = q.at /\ s.with = q.with /\ s.subject = q.subject
    /\ s.copy = q.copy /\ s.session = q.session /\ s.pc = to

LEMMA MovedUnique ==
    ASSUME NEW q, NEW s \in Procs, NEW t \in Procs, NEW to, Moved(q, s, to), Moved(q, t, to)
    PROVE  s = t
  BY DEF Moved, Procs

LEMMA BecomesMoved ==
    ASSUME NEW r \in proc, r \in Procs, NEW to \in Pcs, Becomes(r, {[r EXCEPT !.pc = to]})
    PROVE  \E s \in Procs : Moved(r, s, to) /\ proc' = (proc \ {r}) \cup {s}
<1>1. PICK s : s = [r EXCEPT !.pc = to]
  OBVIOUS
<1>2. s \in Procs /\ Moved(r, s, to)
  BY <1>1 DEF Procs, Moved
<1> QED BY <1>1, <1>2 DEF Becomes

LEMMA WokenMoved ==
    ASSUME proc \subseteq Procs, NEW r, NEW from \in Pcs, NEW to \in Pcs
    PROVE  /\ \A s \in Woken(r, from, to) : s \in Procs /\ \E q \in Sleeping(r, from) : Moved(q, s, to)
           /\ \A q \in Sleeping(r, from) : \E s \in Woken(r, from, to) : Moved(q, s, to)
<1>1. \A q \in Procs : [q EXCEPT !.pc = to] \in Procs /\ Moved(q, [q EXCEPT !.pc = to], to)
  BY DEF Procs, Moved
<1>2. /\ \A s \in Woken(r, from, to) : \E q \in Sleeping(r, from) : s = [q EXCEPT !.pc = to]
      /\ \A q \in Sleeping(r, from) : [q EXCEPT !.pc = to] \in Woken(r, from, to) /\ q \in Procs
  BY DEF Woken, Sleeping
<1> QED BY <1>1, <1>2

\* Process r takes session n and moves on to `to`.
LEMMA BecomesStarted ==
    ASSUME NEW r \in proc, r \in Procs, NEW to \in Pcs, NEW n,
           Becomes(r, {[r EXCEPT !.pc = to, !.session = n]})
    PROVE  \E s : /\ s.job = r.job /\ s.at = r.at /\ s.with = r.with /\ s.subject = r.subject
                  /\ s.copy = r.copy /\ s.session = n /\ s.pc = to
                  /\ proc' = (proc \ {r}) \cup {s}
<1>1. PICK s : s = [r EXCEPT !.pc = to, !.session = n]
  OBVIOUS
<1>2. /\ s.job = r.job /\ s.at = r.at /\ s.with = r.with /\ s.subject = r.subject
      /\ s.copy = r.copy /\ s.session = n /\ s.pc = to
  BY <1>1 DEF Procs
<1> QED BY <1>1, <1>2 DEF Becomes

LEMMA BlockedNext ==
    ASSUME SessionInv, Blocked, [Next]_vars
    PROVE  Blocked'
<1>0. /\ Typed /\ Fresh /\ \A r \in proc : r \in Procs /\ Proper(r)
  BY DEF SessionInv, Typed
<1>a. ASSUME \A n \in Nonces : Created(n) =>
                object'[n].certificatesValidated = object[n].certificatesValidated,
             \A q \in proc' : q.pc = "blocked" => q \in proc
      PROVE  Blocked'
  BY <1>0, <1>a DEF Blocked, Proper, Created
<1>b. ASSUME object' = object, \A q \in proc' : q.pc = "blocked" => q \in proc PROVE Blocked'
  BY <1>a, <1>b
<1>c. ASSUME NEW r \in proc, NEW to \in Pcs \ {"blocked"}, Becomes(r, {[r EXCEPT !.pc = to]})
      PROVE  \A q \in proc' : q.pc = "blocked" => q \in proc
  BY <1>0, <1>c, BecomesMoved DEF Moved
<1>d. ASSUME NEW r \in proc, Throw(r) PROVE \A q \in proc' : q.pc = "blocked" => q \in proc
  BY <1>d DEF Throw, Becomes
<1>1. ASSUME NEW m \in net, ProcessInitialRequest(m) PROVE Blocked'
  <2>1. PICK p \in Peers : p = m.to
    BY <1>0, MessageFacts DEF Typed
  <2>2. PICK n0 : n0 = <<p, made[p] + 1>>
    OBVIOUS
  <2>3. made[p] < MaxNonces /\ made' = [made EXCEPT ![p] = @ + 1]
        /\ (object' = object \/ \E s : object' = [object EXCEPT ![n0] = s]) /\ proc' = proc
    BY <1>1, <2>1, <2>2 DEF ProcessInitialRequest, Answer, Store
  <2>4. \A k \in Nonces : Created(k) => k # n0
    BY <2>2, <2>3, NewNonce
  <2> QED BY <1>0, <1>a, <2>3, <2>4 DEF Typed
<1>2. ASSUME NEW m \in net, Receive(m) PROVE Blocked'
  BY <1>2, <1>b DEF Receive, manager, Proc
<1>3. ASSUME NEW r \in proc, Begin(r) PROVE Blocked'
  <2>1. \A q \in proc' : q.pc = "blocked" => q \in proc
    <3>1. ASSUME NEW n, NEW to \in {"signing", "keying"},
                 Becomes(r, {[r EXCEPT !.pc = to, !.session = n]})
          PROVE  \A q \in proc' : q.pc = "blocked" => q \in proc
      <4>1. to \in Pcs /\ r \in Procs
        BY <1>0 DEF Pcs
      <4>2. PICK s : s.pc = to /\ proc' = (proc \ {r}) \cup {s}
        BY <3>1, <4>1, BecomesStarted
      <4> QED BY <4>2
    <3>2. CASE Becomes(r, {})
      BY <3>2 DEF Becomes
    <3> QED BY <1>3, <3>1, <3>2 DEF Begin, GetAuthenticatedSession, InitiateHandshake
  <2>2. CASE object' = object
    BY <1>b, <2>1, <2>2
  <2>3. CASE object' # object
    <3>1. PICK p \in Peers : p = r.at
      BY <1>0 DEF Procs
    <3>2. PICK n0 : n0 = <<p, made[p] + 1>>
      OBVIOUS
    <3>3. made[p] < MaxNonces /\ made' = [made EXCEPT ![p] = @ + 1]
          /\ \E s : object' = [object EXCEPT ![n0] = s]
      BY <1>3, <2>3, <3>1, <3>2
      DEF Begin, GetAuthenticatedSession, InitiateHandshake, Store, manager
    <3>4. \A k \in Nonces : Created(k) => k # n0
      BY <3>2, <3>3, NewNonce
    <3> QED BY <1>0, <1>a, <2>1, <3>3, <3>4 DEF Typed
  <2> QED BY <2>2, <2>3
<1>4. ASSUME NEW r \in proc, GiveUp(r) \/ ValidationTimesOut(r) \/ DispatchReady(r) \/ SendSigned(r)
      PROVE  Blocked'
  BY <1>4, <1>b DEF GiveUp, RemoveSession, ValidationTimesOut, DispatchReady, Dispatch, SendSigned,
                    Throw, Becomes, manager
<1>5. ASSUME NEW r \in proc, Resume(r) \/ Claim(r) \/ MarkAuthenticated(r) PROVE Blocked'
  BY <1>5, <1>b, <1>c, <1>d
  DEF Resume, Claim, MarkAuthenticated, manager, Pcs
<1>6. ASSUME NEW r \in proc, AuthenticateInitialResponse(r) PROVE Blocked'
  <2>1. r.session \in Nonces /\ Creator(r.session) = r.at
    BY <1>0, <1>6 DEF AuthenticateInitialResponse, Proper, Created
  <2>2. \A q \in proc' : q.pc = "blocked" => q \in proc
    BY <1>6, <1>c, <1>d DEF AuthenticateInitialResponse, Update, Pcs
  <2>3. /\ object'[r.session].certificatesValidated = (r.at \notin Requesters)
        /\ \A n \in Nonces : n # r.session => object'[n] = object[n]
    BY <1>0, <1>6, <2>1 DEF AuthenticateInitialResponse, Update, Store, Typed
  <2>4. \A q \in proc : q.pc = "blocked" => q.session \in Nonces /\ Creator(q.session) = q.at
    BY <1>0 DEF Proper, Created
  <2> QED BY <2>1, <2>2, <2>3, <2>4 DEF Blocked
<1>7. ASSUME NEW r \in proc, Marked(r) PROVE Blocked'
  <2>1. \A q \in proc' : q.pc = "blocked" => q \in proc
    BY <1>7, <1>c, <1>d DEF Marked, Update, Pcs
  <2>2. \A n \in Nonces : object'[n].certificatesValidated = object[n].certificatesValidated
    BY <1>0, <1>7 DEF Marked, Update, Store, Typed, Sessions
  <2> QED BY <1>a, <2>1, <2>2
<1>8. ASSUME NEW r \in proc, CheckBrought(r) \/ ProcessCertificateResponse(r) PROVE Blocked'
  <2>1. CASE object' = object /\ Throw(r)
    BY <1>b, <2>1 DEF Throw, Becomes
  <2>2. CASE object' = [object EXCEPT ![r.session].certificatesValidated = TRUE]
             /\ proc' \subseteq (proc \ Sleeping(r, "blocked")) \cup Woken(r, "blocked", "ready")
                                   \cup {[r EXCEPT !.pc = "validated"]}
    <3>1. \A q \in proc' : q.pc = "blocked" => q \in proc /\ q.session # r.session
      <4>1. \A s \in Woken(r, "blocked", "ready") : s.pc = "ready"
        BY <1>0, WokenMoved DEF Moved, Pcs, Typed
      <4>2. [r EXCEPT !.pc = "validated"].pc = "validated"
        BY <1>0 DEF Procs
      <4> QED BY <2>2, <4>1, <4>2 DEF Sleeping
    <3>2. \A n \in Nonces : n # r.session => object'[n] = object[n]
      BY <1>0, <2>2 DEF Typed
    <3>3. \A q \in proc : q.pc = "blocked" => q.session \in Nonces
      BY <1>0 DEF Proper, Created
    <3> QED BY <3>1, <3>2, <3>3 DEF Blocked
  <2> QED BY <1>8, <2>1, <2>2 DEF CheckBrought, ProcessCertificateResponse, Validate
<1>9. ASSUME NEW r \in proc, ReleaseWaiters(r) PROVE Blocked'
  <2>1. \A q \in proc' : q.pc = "blocked" => q \in proc
    <3>1. \A s \in Woken(r, "waiting", "woken") : s.pc = "woken"
      BY <1>0, WokenMoved DEF Moved, Pcs, Typed
    <3> QED BY <1>9, <3>1 DEF ReleaseWaiters, Proc
  <2> QED BY <1>9, <1>b, <2>1 DEF ReleaseWaiters, manager
<1>10. ASSUME NEW r \in proc, ProcessGeneralMessage(r) PROVE Blocked'
  <2>1. CASE ~Ready(r.session) /\ Becomes(r, {[r EXCEPT !.pc = "blocked"]}) /\ object' = object
    <3>1. r.session \in Nonces /\ Creator(r.session) = r.at /\ object[r.session].isAuthenticated
      BY <1>0, <1>10 DEF ProcessGeneralMessage, Proper, Created
    <3>2. r.at \in Requesters /\ ~object[r.session].certificatesValidated
      BY <2>1, <3>1 DEF Ready
    <3>3. PICK s \in Procs : Moved(r, s, "blocked") /\ proc' = (proc \ {r}) \cup {s}
      BY <1>0, <2>1, BecomesMoved DEF Pcs
    <3> QED BY <2>1, <3>2, <3>3 DEF Blocked, Moved
  <2>2. CASE object' = object /\ proc' \subseteq proc
    BY <1>b, <2>2
  <2> QED BY <1>10, <2>1, <2>2 DEF ProcessGeneralMessage, Dispatch, Throw, Becomes, manager
<1>11. ASSUME NEW p \in Peers, NEW n \in Nonces, Expire(p, n) PROVE Blocked'
  BY <1>11, <1>b DEF Expire, RemoveSession
<1>12. ASSUME NEW r \in proc, SendInitialRequest(r) \/ IdentityKeyFails(r) PROVE Blocked'
  BY <1>12, <1>b, <1>c, <1>d DEF SendInitialRequest, IdentityKeyFails, Pcs
<1>13. ASSUME NEW p \in Peers, NEW m \in net, ForgetRequest(p, m) PROVE Blocked'
  BY <1>13, <1>b DEF ForgetRequest
<1>14. CASE UNCHANGED vars
  BY <1>14, <1>b DEF vars
<1> QED BY <1>1, <1>2, <1>3, <1>4, <1>5, <1>6, <1>7, <1>8, <1>9, <1>10, <1>11, <1>14,
           <1>12, <1>13 DEF Next, Step, Timer

\* NoLostWakeup: waitForCertificateValidation and resolveCertificateValidation
\* do not miss each other, for any number of messages and sessions.
THEOREM NoWakeupLost == Spec => []NoLostWakeup
<1>1. Init => Blocked
  BY DEF Init, Blocked, Proc
<1>2. SessionInv /\ Blocked /\ [Next]_vars => Blocked'
  BY BlockedNext
<1>3. Blocked => NoLostWakeup
  BY DEF Blocked, NoLostWakeup
<1> QED BY <1>1, <1>2, <1>3, SessionsSound, PTL DEF Spec

\* Session n has a handshake under way, or had one that could not ask its wallet.
Held(n) == (\E q \in proc : q.session = n /\ q.pc \in {"keying", "waiting"}) \/ n \in abandoned

LEMMA TidyNext ==
    ASSUME SessionInv, HandshakeTidy, [Next]_vars
    PROVE  HandshakeTidy'
<1>0. /\ Typed /\ Fresh /\ \A r \in proc : r \in Procs /\ Proper(r)
      /\ \A n \in Nonces : object[n].isAuthenticated => object[n].peerNonce # NoNonce
      /\ NoNonce \notin Nonces
  BY NonceFacts DEF SessionInv, Typed, Pairing, OthersPaired, Paired
<1>k. Kept /\ SessionInv'
  BY Effects, KeptByAll, SessionInvNext
<1>a. ASSUME \A p \in Peers : \A n \in stored'[p] :
                n \in stored[p] \/ object'[n].peerNonce # NoNonce \/ Held(n)',
             \A n : Held(n) => \/ Held(n)'
                               \/ object'[n].peerNonce # NoNonce
                               \/ \A p \in Peers : n \notin stored'[p]
      PROVE  HandshakeTidy'
  <2> SUFFICES ASSUME NEW p \in Peers, NEW n \in stored'[p], object'[n].peerNonce = NoNonce
               PROVE  Held(n)'
    BY DEF HandshakeTidy, Held
  <2>1. CASE n \in stored[p]
    <3>1. n \in Nonces
      BY <1>0, <2>1 DEF Typed
    <3>2. object[n].peerNonce = NoNonce
      BY <1>k, <3>1 DEF Kept
    <3>3. Held(n)
      BY <2>1, <3>2 DEF HandshakeTidy, Held
    <3> QED BY <1>a, <3>3
  <2> QED BY <1>a, <2>1
<1>b. ASSUME NEW r \in proc, r.pc \notin {"keying", "waiting"}, NEW new, Becomes(r, new),
             abandoned' = abandoned
      PROVE  \A n : Held(n) => Held(n)'
  BY <1>b DEF Becomes, Held
<1>c. ASSUME NEW p \in Peers, NEW n, NEW s, NEW e, Store(p, n, s, e)
      PROVE  /\ \A q \in Peers : stored'[q] \subseteq stored[q] \cup {n}
             /\ n \in Nonces => object'[n] = s
  BY <1>0, <1>c DEF Store, Typed
<1>d. ASSUME abandoned' = abandoned, \A q \in proc : q.pc \in {"keying", "waiting"} => q \in proc'
      PROVE  \A n : Held(n) => Held(n)'
  BY <1>d DEF Held
<1>1. ASSUME NEW m \in net, ProcessInitialRequest(m) PROVE HandshakeTidy'
  <2>1. proc' = proc /\ abandoned' = abandoned
    BY <1>1 DEF ProcessInitialRequest, Answer
  <2>2. CASE stored' = stored
    BY <1>a, <1>d, <2>1, <2>2
  <2>3. CASE stored' # stored
    <3>1. PICK p \in Peers : p = m.to
      BY <1>0, MessageFacts DEF Typed
    <3>2. PICK n : n = <<p, made[p] + 1>>
      OBVIOUS
    <3>3. /\ made[p] < MaxNonces /\ made' = [made EXCEPT ![p] = @ + 1]
          /\ \E s, e : Store(p, n, s, e) /\ s.peerNonce = m.initialNonce
          /\ m.type = "initialRequest"
      BY <1>1, <2>3, <3>1, <3>2 DEF ProcessInitialRequest, Answer
    <3>4. n \in Nonces
      BY <3>2, <3>3, NewNonce
    <3>5. m.initialNonce # NoNonce
      BY <1>0, <3>3, MessageFacts DEF Typed
    <3>6. object'[n].peerNonce # NoNonce /\ \A q \in Peers : stored'[q] \subseteq stored[q] \cup {n}
      BY <1>c, <3>3, <3>4, <3>5
    <3> QED BY <1>a, <1>d, <2>1, <3>6
  <2> QED BY <2>2, <2>3
<1>2. ASSUME NEW m \in net, Receive(m) PROVE HandshakeTidy'
  <2>1. UNCHANGED <<stored, abandoned>> /\ proc \subseteq proc'
    BY <1>2 DEF Receive, manager
  <2> QED BY <1>a, <1>d, <2>1
<1>3. ASSUME NEW r \in proc, Begin(r) PROVE HandshakeTidy'
  <2>1. \A n : Held(n) => Held(n)'
    <3>1. r.pc \notin {"keying", "waiting"} /\ abandoned' = abandoned /\ \E new : Becomes(r, new)
      BY <1>3 DEF Begin, GetAuthenticatedSession, InitiateHandshake, manager
    <3> QED BY <1>b, <3>1
  <2>2. CASE stored' = stored
    BY <1>a, <2>1, <2>2
  <2>3. CASE stored' # stored
    <3>1. PICK p \in Peers : p = r.at
      BY <1>0 DEF Procs
    <3>2. PICK n : n = <<p, made[p] + 1>>
      OBVIOUS
    <3>3. /\ \E s, e : Store(p, n, s, e)
          /\ Becomes(r, {[r EXCEPT !.pc = "keying", !.session = n]})
      BY <1>3, <2>3, <3>1, <3>2 DEF Begin, GetAuthenticatedSession, InitiateHandshake, manager
    <3>4. \A q \in Peers : stored'[q] \subseteq stored[q] \cup {n}
      BY <1>c, <3>3
    <3>5. PICK s : s = [r EXCEPT !.pc = "keying", !.session = n]
      OBVIOUS
    <3>6. s.session = n /\ s.pc = "keying" /\ s \in proc'
      BY <1>0, <3>3, <3>5 DEF Procs, Becomes
    <3> QED BY <1>a, <2>1, <3>4, <3>6 DEF Held
  <2> QED BY <2>2, <2>3
<1>4. ASSUME NEW r \in proc, SendInitialRequest(r) PROVE HandshakeTidy'
  <2>1. PICK s : s = [r EXCEPT !.pc = "waiting"]
    OBVIOUS
  <2>2. s.session = r.session /\ s.pc = "waiting"
    BY <1>0, <2>1 DEF Procs
  <2>3. UNCHANGED <<stored, abandoned>> /\ proc' = (proc \ {r}) \cup {s}
    BY <1>4, <2>1 DEF SendInitialRequest, Becomes
  <2>4. \A n : Held(n) => Held(n)'
    BY <2>2, <2>3 DEF Held
  <2> QED BY <1>a, <2>3, <2>4
<1>5. ASSUME NEW r \in proc, IdentityKeyFails(r) PROVE HandshakeTidy'
  <2>1. stored' = stored /\ abandoned' = abandoned \cup {r.session} /\ proc' = proc \ {r}
    BY <1>5 DEF IdentityKeyFails, Throw, Becomes
  <2>2. \A n : Held(n) => Held(n)'
    BY <2>1 DEF Held
  <2> QED BY <1>a, <2>1, <2>2
<1>6. ASSUME NEW r \in proc, GiveUp(r) PROVE HandshakeTidy'
  <2>1. /\ r.pc = "waiting" /\ Creator(r.session) = r.at /\ r.at \in Peers
        /\ proc' = proc \ {r} /\ abandoned' = abandoned
        /\ stored' = [stored EXCEPT ![r.at] = @ \ {r.session}]
    BY <1>0, <1>6 DEF GiveUp, RemoveSession, Throw, Becomes, Proper, Procs
  <2>2. \A q \in Peers : r.session \notin stored'[q] /\ stored'[q] \subseteq stored[q]
    BY <1>0, <2>1 DEF Typed, Fresh
  <2>3. \A n : Held(n) => Held(n)' \/ n = r.session
    BY <2>1 DEF Held
  <2> QED BY <1>a, <2>2, <2>3
<1>7. ASSUME NEW r \in proc, Resume(r) \/ SendSigned(r) \/ Claim(r) \/ MarkAuthenticated(r)
                 \/ ProcessGeneralMessage(r) \/ DispatchReady(r) \/ ValidationTimesOut(r)
      PROVE  HandshakeTidy'
  <2>1. /\ UNCHANGED <<stored, abandoned>> /\ r.pc \notin {"keying", "waiting"}
        /\ \E new : Becomes(r, new)
    BY <1>7 DEF Resume, SendSigned, Claim, MarkAuthenticated, ProcessGeneralMessage,
                DispatchReady, ValidationTimesOut, Dispatch, Throw, manager
  <2> QED BY <1>a, <1>b, <2>1
<1>8. ASSUME NEW r \in proc, AuthenticateInitialResponse(r) \/ Marked(r) PROVE HandshakeTidy'
  <2>1. /\ r.pc \notin {"keying", "waiting"} /\ r.session \in Nonces /\ r.at \in Peers
        /\ abandoned' = abandoned /\ \E new : Becomes(r, new)
    BY <1>0, <1>8 DEF AuthenticateInitialResponse, Marked, Update, Throw, Proper, Created, Procs
  <2>2. stored' = stored \/ \E s, e : Store(r.at, r.session, s, e) /\ s.isAuthenticated
    BY <1>0, <1>8, <2>1
    DEF AuthenticateInitialResponse, Marked, Update, Typed, Sessions
  <2>3. \A n \in Nonces : object'[n].isAuthenticated => object'[n].peerNonce # NoNonce
    BY <1>k DEF SessionInv, Pairing, OthersPaired, Paired
  <2>4. \A n : Held(n) => Held(n)'
    BY <1>b, <2>1
  <2>5. \A p \in Peers : \A n \in stored'[p] : n \in stored[p] \/ object'[n].peerNonce # NoNonce
    BY <1>c, <2>1, <2>2, <2>3
  <2> QED BY <1>a, <2>4, <2>5
<1>9. ASSUME NEW r \in proc, CheckBrought(r) \/ ProcessCertificateResponse(r) PROVE HandshakeTidy'
  <2>1. /\ UNCHANGED <<stored, abandoned>>
        /\ \A q \in proc : q.pc \in {"keying", "waiting"} => q \in proc'
    BY <1>9 DEF CheckBrought, ProcessCertificateResponse, Validate, Throw, Becomes, Sleeping
  <2> QED BY <1>a, <1>d, <2>1
<1>10. ASSUME NEW r \in proc, ReleaseWaiters(r) PROVE HandshakeTidy'
  <2>1. r.pc \notin {"keying", "waiting"} /\ object[r.session].peerNonce # NoNonce
    BY <1>0, <1>10 DEF ReleaseWaiters, Proper, Created
  <2>2. UNCHANGED <<stored, object, abandoned>>
        /\ \A q \in proc : q.pc \in {"keying", "waiting"} /\ q.session # r.session => q \in proc'
    BY <1>10, <2>1 DEF ReleaseWaiters, Sleeping, manager
  <2>3. \A n : Held(n) => Held(n)' \/ n = r.session
    BY <2>2 DEF Held
  <2> QED BY <1>a, <2>1, <2>2, <2>3
<1>11. ASSUME NEW p \in Peers, NEW n \in Nonces, Expire(p, n) PROVE HandshakeTidy'
  <2>1. UNCHANGED <<proc, abandoned>> /\ \A q \in Peers : stored'[q] \subseteq stored[q]
    BY <1>0, <1>11 DEF Expire, RemoveSession, Typed
  <2> QED BY <1>a, <1>d, <2>1
<1>12. ASSUME NEW p \in Peers, NEW m \in net, ForgetRequest(p, m) PROVE HandshakeTidy'
  <2>1. UNCHANGED <<proc, abandoned, stored>>
    BY <1>12 DEF ForgetRequest
  <2> QED BY <1>a, <1>d, <2>1
<1>13. CASE UNCHANGED vars
  BY <1>13, <1>a, <1>d DEF vars
<1> QED BY <1>1, <1>2, <1>3, <1>4, <1>5, <1>6, <1>7, <1>8, <1>9, <1>10, <1>11, <1>12, <1>13
        DEF Next, Step, Timer

\* HandshakeTidy: initiateHandshake's cleanup leaves no half open session, in
\* whatever order timeouts, late responses and evictions come.
THEOREM HandshakesTidied == Spec => []HandshakeTidy
<1>1. Init => HandshakeTidy
  BY DEF Init, HandshakeTidy
<1>2. SessionInv /\ HandshakeTidy /\ [Next]_vars => HandshakeTidy'
  BY TidyNext
<1> QED BY <1>1, <1>2, SessionsSound, PTL DEF Spec

-----------------------------------------------------------------------------
\* EstablishedKept: addSession's eviction and the clean up of a handshake never
\* cost an authenticated session that somebody else uses.
THEOREM EstablishedStay == Spec => EstablishedKept
<1> DEFINE Lost == \A p \in Peers : \A n \in stored[p] \ stored'[p] : object[n].isAuthenticated =>
                     Expire(p, n) \/ \E r \in proc : r.session = n /\ GiveUp(r)
<1>1. SessionInv /\ [Next]_vars => [Lost]_vars
  <2> SUFFICES ASSUME SessionInv, Next PROVE Lost
    BY DEF vars
  <2>0. /\ Typed /\ Fresh /\ \A r \in proc : r \in Procs /\ Proper(r)
    BY DEF SessionInv, Typed
  <2>1. ASSUME stored' = stored PROVE Lost
    BY <2>1
  <2>2. ASSUME NEW p \in Peers, NEW n \in Nonces, NEW s, NEW e \in Admit(p, n), Store(p, n, s, e)
        PROVE  Lost
    <3>1. \A k \in e : ~object[k].isAuthenticated
      BY <2>0, AdmitFacts
    <3>2. \A q \in Peers : stored[q] \ stored'[q] \subseteq e
      BY <2>0, <2>2 DEF Store, Typed
    <3> QED BY <3>1, <3>2
  <2>3. ASSUME NEW m \in net, ProcessInitialRequest(m) PROVE Lost
    <3>1. CASE stored' = stored
      BY <2>1, <3>1
    <3>2. CASE stored' # stored
      <4>1. PICK p \in Peers : p = m.to
        BY <2>0, MessageFacts DEF Typed
      <4>2. PICK n : n = <<p, made[p] + 1>>
        OBVIOUS
      <4>3. /\ made[p] < MaxNonces /\ made' = [made EXCEPT ![p] = @ + 1]
            /\ \E s, e : e \in Admit(p, n) /\ Store(p, n, s, e)
        BY <2>3, <3>2, <4>1, <4>2 DEF ProcessInitialRequest, Answer
      <4>4. n \in Nonces
        BY <4>2, <4>3, NewNonce
      <4> HIDE DEF Lost
      <4> QED BY <2>2, <4>3, <4>4
    <3> QED BY <3>1, <3>2
  <2>4. ASSUME NEW m \in net, Receive(m) PROVE Lost
    BY <2>1, <2>4 DEF Receive, manager
  <2>5. ASSUME NEW r \in proc, Begin(r) PROVE Lost
    <3>1. CASE stored' = stored
      BY <2>1, <3>1
    <3>2. CASE stored' # stored
      <4>1. PICK p \in Peers : p = r.at
        BY <2>0 DEF Procs
      <4>2. PICK n : n = <<p, made[p] + 1>>
        OBVIOUS
      <4>3. /\ made[p] < MaxNonces /\ made' = [made EXCEPT ![p] = @ + 1]
            /\ \E s, e : e \in Admit(p, n) /\ Store(p, n, s, e)
        BY <2>5, <3>2, <4>1, <4>2 DEF Begin, GetAuthenticatedSession, InitiateHandshake, manager
      <4>4. n \in Nonces
        BY <4>2, <4>3, NewNonce
      <4> HIDE DEF Lost
      <4> QED BY <2>2, <4>3, <4>4
    <3> QED BY <3>1, <3>2
  <2>6. ASSUME NEW r \in proc, GiveUp(r) PROVE Lost
    <3>1. \A q \in Peers : stored[q] \ stored'[q] \subseteq {r.session}
      BY <2>0, <2>6 DEF GiveUp, RemoveSession, Typed
    <3> QED BY <2>6, <3>1
  <2>7. ASSUME NEW r \in proc, AuthenticateInitialResponse(r) \/ Marked(r) PROVE Lost
    <3>1. r.at \in Peers /\ r.session \in Nonces
      BY <2>0, <2>7 DEF AuthenticateInitialResponse, Marked, Procs, Proper, Created
    <3>2. stored' = stored \/ \E s, e : e \in Admit(r.at, r.session) /\ Store(r.at, r.session, s, e)
      BY <2>7 DEF AuthenticateInitialResponse, Marked, Update
    <3> HIDE DEF Lost
    <3> QED BY <2>1, <2>2, <3>1, <3>2
  <2>8. ASSUME NEW r \in proc, Resume(r) \/ SendSigned(r) \/ Claim(r) \/ CheckBrought(r)
                  \/ ReleaseWaiters(r) \/ MarkAuthenticated(r) \/ ProcessCertificateResponse(r)
                  \/ ProcessGeneralMessage(r) \/ DispatchReady(r) \/ ValidationTimesOut(r)
                  \/ SendInitialRequest(r) \/ IdentityKeyFails(r)
        PROVE  Lost
    <3>1. stored' = stored
      BY <2>8 DEF Resume, SendSigned, Claim, CheckBrought, ReleaseWaiters, MarkAuthenticated,
                  ProcessCertificateResponse, ProcessGeneralMessage, DispatchReady,
                  ValidationTimesOut, SendInitialRequest, IdentityKeyFails, manager
    <3> QED BY <2>1, <3>1
  <2>9. ASSUME NEW p \in Peers, NEW n \in Nonces, Expire(p, n) PROVE Lost
    <3>1. \A q \in Peers : q # p => stored'[q] = stored[q]
      BY <2>0, <2>9 DEF Expire, RemoveSession, Typed
    <3>2. stored[p] \ stored'[p] \subseteq {n}
      BY <2>0, <2>9 DEF Expire, RemoveSession, Typed
    <3> QED BY <2>9, <3>1, <3>2
  <2>10. ASSUME NEW p \in Peers, NEW m \in net, ForgetRequest(p, m) PROVE Lost
    <3>1. stored' = stored
      BY <2>10 DEF ForgetRequest
    <3> QED BY <2>1, <3>1
  <2> HIDE DEF Lost
  <2> QED BY <2>3, <2>4, <2>5, <2>6, <2>7, <2>8, <2>9, <2>10 DEF Next, Step, Timer
<1>2. [][Lost]_vars <=> EstablishedKept
  BY DEF EstablishedKept
<1> HIDE DEF Lost
<1> QED BY <1>1, <1>2, SessionsSound, PTL DEF Spec

-----------------------------------------------------------------------------
(***************************************************************************)
(* Deliveries.  Processes as a set evolve: what is new is a process that   *)
(* left, moved on, or an answer that begins.                               *)
(***************************************************************************)
Heir(q, s) ==
    /\ s.job = q.job /\ s.subject = q.subject /\ s.copy = q.copy
    /\ s.job = "handler" => s.session = q.session

Evolves ==
    /\ \A s \in proc' \ proc :
          \/ s.job = "answer"
          \/ \E q \in proc \ proc' : Heir(q, s) /\ (PastClaim(s) => PastClaim(q))
    /\ \A s, t \in proc' \ proc : \A q : s.job # "answer" /\ Heir(q, s) /\ Heir(q, t) => s = t

LEMMA ShrinkEvolves ==
    ASSUME proc' \subseteq proc
    PROVE  Evolves
  BY DEF Evolves

LEMMA BecomesEvolves ==
    ASSUME proc \subseteq Procs, NEW r \in proc, NEW to \in Pcs,
           Becomes(r, {[r EXCEPT !.pc = to]}),
           to \in {"claimed", "marking", "marked", "blocked", "ready"} => PastClaim(r)
    PROVE  Evolves
<1>1. PICK s \in Procs : Moved(r, s, to) /\ proc' = (proc \ {r}) \cup {s}
  BY BecomesMoved
<1>2. Heir(r, s) /\ (PastClaim(s) => PastClaim(r))
  BY <1>1 DEF Moved, Heir, PastClaim
<1> QED BY <1>1, <1>2 DEF Evolves

LEMMA StartEvolves ==
    ASSUME proc \subseteq Procs, NEW r \in proc, NEW to \in {"signing", "keying"}, NEW n,
           Becomes(r, {[r EXCEPT !.pc = to, !.session = n]}), Proper(r), r.pc = "start"
    PROVE  Evolves
<1>1. PICK s : s = [r EXCEPT !.pc = to, !.session = n]
  OBVIOUS
<1>2. s.job = r.job /\ s.subject = r.subject /\ s.copy = r.copy /\ s.pc = to
  BY <1>1 DEF Procs
<1>3. r.job # "handler" /\ ~PastClaim(s)
  BY <1>2 DEF Proper, Idle, PastClaim
<1>4. Heir(r, s)
  BY <1>2, <1>3 DEF Heir
<1> QED BY <1>1, <1>3, <1>4 DEF Evolves, Becomes

LEMMA WakeEvolves ==
    ASSUME proc \subseteq Procs, OneMessage, OneHandler, NEW r \in proc,
           NEW from \in Pcs, NEW to \in Pcs \ {from},
           to \in {"claimed", "marking", "marked", "blocked", "ready"} =>
              from \in {"claimed", "marking", "marked", "blocked", "ready"},
           NEW extra,
           \A s \in extra : \/ s.job = "answer" /\ s.pc # from
                            \/ Heir(r, s) /\ ~PastClaim(s) /\ s \notin proc /\ s.pc # from,
           \A s, t \in extra : s = t,
           r.pc # from, r.pc # to, r.job = "handler",
           proc' = (proc \ ({r} \cup Sleeping(r, from))) \cup Woken(r, from, to) \cup extra
    PROVE  Evolves
<1>1. \A s \in Woken(r, from, to) : s \in Procs /\ \E q \in Sleeping(r, from) : Moved(q, s, to)
  BY WokenMoved
<1>2. \A q \in proc : q.pc = from /\ q.session = r.session => q \notin proc' /\ q \in Sleeping(r, from)
  BY <1>1 DEF Moved, Sleeping
<1>3. \A s \in Woken(r, from, to) : \E q \in proc \ proc' :
         q.pc = from /\ Moved(q, s, to) /\ Heir(q, s) /\ (PastClaim(s) => PastClaim(q))
  BY <1>1, <1>2 DEF Moved, Heir, PastClaim, Sleeping
<1>4. \A s, t \in Woken(r, from, to) : \A q : s.job # "answer" /\ Heir(q, s) /\ Heir(q, t) => s = t
  <2> SUFFICES ASSUME NEW s \in Woken(r, from, to), NEW t \in Woken(r, from, to), NEW q,
                      s.job # "answer", Heir(q, s), Heir(q, t)
               PROVE  s = t
    OBVIOUS
  <2>1. PICK u \in proc, v \in proc : Moved(u, s, to) /\ Moved(v, t, to)
    BY <1>3
  <2>2. s \in Procs /\ t \in Procs
    BY <1>1
  <2>3. u.job = v.job /\ u.job \in {"call", "handler"} /\ u.subject = v.subject /\ u.copy = v.copy
    BY <2>1, <2>2 DEF Moved, Heir, Procs
  <2>4. u = v
    BY <2>3 DEF OneMessage, OneHandler
  <2> QED BY <2>1, <2>2, <2>4, MovedUnique
<1>5. \A s \in Woken(r, from, to), t \in extra : \A q :
         ~(s.job # "answer" /\ Heir(q, s) /\ Heir(q, t)) /\ ~(t.job # "answer" /\ Heir(q, s) /\ Heir(q, t))
  <2> SUFFICES ASSUME NEW s \in Woken(r, from, to), NEW t \in extra, NEW q,
                      s.job # "answer" \/ t.job # "answer", Heir(q, s), Heir(q, t)
               PROVE  FALSE
    OBVIOUS
  <2>1. PICK u \in proc : u.pc = from /\ Moved(u, s, to)
    BY <1>3
  <2>2. s.job = t.job /\ s.subject = t.subject /\ s.copy = t.copy /\ t.job # "answer"
    BY DEF Heir
  <2>3. u.job = "handler" /\ u.subject = r.subject /\ u.copy = r.copy
    BY <2>1, <2>2 DEF Moved, Heir
  <2>4. u = r
    BY <2>3 DEF OneHandler
  <2> QED BY <2>1, <2>4
<1>6. \A s \in extra : s \notin proc => s.job = "answer" \/ (Heir(r, s) /\ r \notin proc')
  <2>1. \A s \in Woken(r, from, to) : s # r
    BY <1>1 DEF Moved
  <2> QED BY <2>1
<1> QED BY <1>3, <1>4, <1>5, <1>6 DEF Evolves

Passive ==
    /\ dispatched' = dispatched /\ Evolves
    /\ \A m \in net' \ net : m.type # "general"

Claims(r) ==
    /\ r.pc = "verifying" /\ r.session \in stored[r.at] /\ r.subject \notin claimed[r.session]
    /\ claimed' = [claimed EXCEPT ![r.session] = @ \cup {r.subject}]
    /\ \E s \in Procs : Moved(r, s, "claimed") /\ proc' = (proc \ {r}) \cup {s}
    /\ UNCHANGED <<stored, forgotten, net, copies, dispatched>>

Dispatches(r) ==
    /\ r.job = "handler" /\ r.subject.type = "general" /\ PastClaim(r)
    /\ Dispatch(r)
    /\ UNCHANGED <<stored, claimed, forgotten, net, copies>>

SendsGeneral(r) ==
    /\ r.job = "call" /\ proc' = proc \ {r}
    /\ \E m : m.type = "general" /\ m.call = r.subject /\ net' = net \cup {m}
    /\ copies' = [k \in net' |-> IF k \in net THEN copies[k] ELSE 0]
    /\ UNCHANGED <<stored, claimed, forgotten, dispatched>>

LEMMA DeliverySteps ==
    ASSUME SessionInv, OneMessage, OneHandler, [Next]_vars
    PROVE  \/ Passive
           \/ \E m \in net : Receive(m) /\ Addressed(m)
           \/ \E r \in proc : Claims(r) \/ Dispatches(r) \/ SendsGeneral(r)
<1> DEFINE Goal == \/ Passive
                   \/ \E m \in net : Receive(m) /\ Addressed(m)
                   \/ \E r \in proc : Claims(r) \/ Dispatches(r) \/ SendsGeneral(r)
<1>0. /\ Typed /\ Fresh /\ proc \subseteq Procs /\ \A r \in proc : r \in Procs /\ Proper(r)
  BY DEF SessionInv, Typed
<1>a. ASSUME NEW r \in proc, Throw(r) PROVE Passive
  <2>1. Evolves
    BY <1>a, ShrinkEvolves DEF Throw, Becomes
  <2> QED BY <1>a, <2>1 DEF Throw, Passive
<1>1. ASSUME NEW m \in net, ProcessInitialRequest(m) PROVE Passive
  <2>1. Evolves
    BY <1>1, ShrinkEvolves DEF ProcessInitialRequest, Answer
  <2>2. PICK response : /\ response.type = "initialResponse"
                        /\ net' = net \/ net' = net \cup {response}
    <3> DEFINE response == [type |-> "initialResponse", from |-> m.to, to |-> m.from,
                            initialNonce |-> <<m.to, made[m.to] + 1>>,
                            yourNonce |-> m.initialNonce,
                            certificates |-> m.from \in Requesters /\ m.to \in Certified]
    <3>1. response.type = "initialResponse"
      OBVIOUS
    <3>2. net' = net \/ net' = net \cup {response}
      BY <1>1 DEF ProcessInitialRequest, Answer
    <3> QED BY <3>1, <3>2
  <2>3. dispatched' = dispatched
    BY <1>1 DEF ProcessInitialRequest, Answer
  <2> QED BY <2>1, <2>2, <2>3 DEF Passive
<1>2. ASSUME NEW m \in net, Receive(m) PROVE Goal
  <2>1. CASE ~Addressed(m)
    <3>1. proc' = proc /\ UNCHANGED <<net, dispatched>>
      BY <1>2, <2>1 DEF Receive, Deliver
    <3>2. Evolves
      BY <3>1, ShrinkEvolves
    <3> QED BY <3>1, <3>2 DEF Passive
  <2> QED BY <1>2, <2>1
<1>3. ASSUME NEW r \in proc, Begin(r) PROVE Passive
  <2>1. dispatched' = dispatched /\ net' = net
    BY <1>3 DEF Begin, GetAuthenticatedSession, InitiateHandshake
  <2>2. CASE \E n : \E to \in {"signing", "keying"} :
               Becomes(r, {[r EXCEPT !.pc = to, !.session = n]})
    <3>1. Evolves
      BY <1>0, <1>3, <2>2, StartEvolves DEF Begin
    <3> QED BY <2>1, <3>1 DEF Passive
  <2>3. CASE Becomes(r, {})
    <3>1. Evolves
      BY <2>3, ShrinkEvolves DEF Becomes
    <3> QED BY <2>1, <3>1 DEF Passive
  <2> QED BY <1>3, <2>2, <2>3 DEF Begin, GetAuthenticatedSession, InitiateHandshake
<1>4. ASSUME NEW r \in proc, NEW to \in Pcs, Becomes(r, {[r EXCEPT !.pc = to]}),
             to \in {"claimed", "marking", "marked", "blocked", "ready"} => PastClaim(r),
             UNCHANGED <<net, dispatched>>
      PROVE  Passive
  <2>1. Evolves
    BY <1>0, <1>4, BecomesEvolves
  <2> QED BY <1>4, <2>1 DEF Passive
<1>5. ASSUME NEW r \in proc, GiveUp(r) \/ ValidationTimesOut(r) PROVE Passive
  BY <1>5, <1>a DEF GiveUp, ValidationTimesOut
<1>6. ASSUME NEW r \in proc, Resume(r) PROVE Passive
  <2>1. CASE Becomes(r, {[r EXCEPT !.pc = "signing"]}) /\ UNCHANGED <<net, dispatched>>
    BY <1>4, <2>1 DEF Pcs
  <2> QED BY <1>6, <1>a, <2>1 DEF Resume
<1>7. ASSUME NEW r \in proc, SendSigned(r) PROVE Goal
  <2> DEFINE general == [type |-> "general", from |-> r.at, to |-> r.with,
                         yourNonce |-> object[r.session].peerNonce, call |-> r.subject]
             response == [type |-> "certificateResponse", from |-> r.at, to |-> r.with,
                          initialNonce |-> r.session, yourNonce |-> object[r.session].peerNonce]
  <2>1. CASE r.job = "call" /\ Send({general}) /\ Becomes(r, {})
             /\ UNCHANGED <<requests, dispatched>> /\ UNCHANGED manager
    <3>1. general.type = "general" /\ general.call = r.subject
      OBVIOUS
    <3> HIDE DEF general
    <3>2. SendsGeneral(r)
      BY <2>1, <3>1 DEF SendsGeneral, Send, Becomes, manager
    <3> QED BY <3>2
  <2>2. CASE Send({response}) /\ Becomes(r, {}) /\ UNCHANGED dispatched
    <3>1. response.type # "general"
      OBVIOUS
    <3>2. Evolves
      BY <2>2, ShrinkEvolves DEF Becomes
    <3> HIDE DEF response
    <3>3. Passive
      BY <2>2, <3>1, <3>2 DEF Passive, Send
    <3> QED BY <3>3
  <2> HIDE DEF Goal
  <2>3. CASE Throw(r)
    BY <1>a, <2>3 DEF Goal
  <2> QED BY <1>7, <2>1, <2>2, <2>3 DEF SendSigned
<1>8. ASSUME NEW r \in proc, Claim(r) PROVE Goal
  <2>1. CASE Throw(r)
    BY <1>a, <2>1
  <2>2. CASE /\ r.session \in stored[r.at] /\ r.subject \notin claimed[r.session]
             /\ claimed' = [claimed EXCEPT ![r.session] = @ \cup {r.subject}]
             /\ Becomes(r, {[r EXCEPT !.pc = "claimed"]})
             /\ UNCHANGED <<requests, net, copies, call, dispatched>>
    <3>1. \E s \in Procs : Moved(r, s, "claimed") /\ proc' = (proc \ {r}) \cup {s}
      BY <1>0, <2>2, BecomesMoved DEF Pcs
    <3>2. Claims(r)
      BY <1>8, <2>2, <3>1 DEF Claims, Claim
    <3> QED BY <3>2
  <2> QED BY <1>8, <2>1, <2>2 DEF Claim
<1>9. ASSUME NEW r \in proc, AuthenticateInitialResponse(r) PROVE Passive
  <2>1. CASE Becomes(r, {[r EXCEPT !.pc = "authenticated"]}) /\ UNCHANGED <<net, dispatched>>
    BY <1>4, <2>1 DEF Pcs
  <2> QED BY <1>9, <1>a, <2>1 DEF AuthenticateInitialResponse, Update
<1>10. ASSUME NEW r \in proc, MarkAuthenticated(r) PROVE Passive
  <2>1. CASE Becomes(r, {[r EXCEPT !.pc = "marking"]}) /\ UNCHANGED <<net, dispatched>>
    BY <1>4, <1>10, <2>1 DEF Pcs, PastClaim, MarkAuthenticated
  <2> QED BY <1>10, <1>a, <2>1 DEF MarkAuthenticated
<1>11. ASSUME NEW r \in proc, Marked(r) PROVE Passive
  <2>1. CASE Becomes(r, {[r EXCEPT !.pc = "marked"]}) /\ UNCHANGED <<net, dispatched>>
    BY <1>4, <1>11, <2>1 DEF Pcs, PastClaim, Marked
  <2> QED BY <1>11, <1>a, <2>1 DEF Marked, Update
<1>12. ASSUME NEW r \in proc, CheckBrought(r) PROVE Passive
  <2>1. CASE /\ proc' = (proc \ ({r} \cup Sleeping(r, "blocked")))
                          \cup Woken(r, "blocked", "ready") \cup {[r EXCEPT !.pc = "validated"]}
             /\ UNCHANGED <<net, dispatched>>
    <3>1. r.pc = "authenticated" /\ r.job = "handler"
      BY <1>0, <1>12 DEF CheckBrought, Proper, Idle, Procs
    <3>2. PICK extra : extra = {[r EXCEPT !.pc = "validated"]}
      OBVIOUS
    <3>3. \A s \in extra : Heir(r, s) /\ s.pc = "validated"
      BY <1>0, <3>2 DEF Heir, Procs
    <3>4. CASE [r EXCEPT !.pc = "validated"] \in proc
      <4>1. PICK s \in proc : s = [r EXCEPT !.pc = "validated"]
        BY <3>4
      <4>2. s.job = "handler" /\ s.subject = r.subject /\ s.copy = r.copy /\ s.pc = "validated"
        BY <1>0, <3>1, <4>1 DEF Procs
      <4> QED BY <3>1, <4>2 DEF OneHandler
    <3>5. CASE [r EXCEPT !.pc = "validated"] \notin proc
      <4>1. \A s \in extra : Heir(r, s) /\ ~PastClaim(s) /\ s \notin proc /\ s.pc # "blocked"
        BY <3>2, <3>3, <3>5 DEF PastClaim
      <4>2. proc' = (proc \ ({r} \cup Sleeping(r, "blocked")))
                          \cup Woken(r, "blocked", "ready") \cup extra
        BY <2>1, <3>2
      <4>3. "blocked" \in Pcs /\ "ready" \in Pcs \ {"blocked"}
        BY DEF Pcs
      <4>4. \A s, t \in extra : s = t
        BY <3>2
      <4>5. Evolves
        BY <1>0, <3>1, <4>1, <4>2, <4>3, <4>4, WakeEvolves
      <4> QED BY <2>1, <4>5 DEF Passive
    <3> QED BY <3>4, <3>5
  <2> QED BY <1>12, <1>a, <2>1 DEF CheckBrought
<1>13. ASSUME NEW r \in proc, ReleaseWaiters(r) PROVE Passive
  <2>1. PICK extra : extra = IF r.with \in Requesters /\ r.at \in Certified
                             THEN {Proc("answer", r.at, r.with, r.subject, r.copy, "start", NoNonce)}
                             ELSE {}
    OBVIOUS
  <2>2. /\ \A s \in extra : s.job = "answer" /\ s.pc # "waiting"
        /\ \A s, t \in extra : s = t
    BY <2>1 DEF Proc
  <2>3. /\ proc' = (proc \ ({r} \cup Sleeping(r, "waiting"))) \cup Woken(r, "waiting", "woken")
                       \cup extra
        /\ UNCHANGED <<net, dispatched>>
    BY <1>13, <2>1 DEF ReleaseWaiters
  <2>4. r.pc \in {"authenticated", "validated"} /\ r.job = "handler"
    BY <1>0, <1>13 DEF ReleaseWaiters, Proper, Idle
  <2>5. "waiting" \in Pcs /\ "woken" \in Pcs \ {"waiting"}
    BY DEF Pcs
  <2>6. Evolves
    BY <1>0, <2>2, <2>3, <2>4, <2>5, WakeEvolves
  <2> QED BY <2>3, <2>6 DEF Passive
<1>14. ASSUME NEW r \in proc, ProcessCertificateResponse(r) PROVE Passive
  <2>1. CASE Validate(r) /\ UNCHANGED <<net, dispatched>>
    <3>1. PICK extra : extra = {}
      OBVIOUS
    <3>2. proc' = (proc \ ({r} \cup Sleeping(r, "blocked"))) \cup Woken(r, "blocked", "ready")
                    \cup extra
      BY <2>1, <3>1 DEF Validate
    <3>3. r.pc = "marked" /\ r.job = "handler"
      BY <1>0, <1>14 DEF ProcessCertificateResponse, Proper, Idle
    <3>4. "blocked" \in Pcs /\ "ready" \in Pcs \ {"blocked"}
      BY DEF Pcs
    <3>5. Evolves
      BY <1>0, <3>1, <3>2, <3>3, <3>4, WakeEvolves
    <3> QED BY <2>1, <3>5 DEF Passive
  <2> QED BY <1>14, <1>a, <2>1 DEF ProcessCertificateResponse
<1>15. ASSUME NEW r \in proc, ProcessGeneralMessage(r) PROVE Goal
  <2>1. CASE Becomes(r, {[r EXCEPT !.pc = "blocked"]}) /\ UNCHANGED <<net, dispatched>>
    BY <1>4, <1>15, <2>1 DEF Pcs, PastClaim, ProcessGeneralMessage
  <2>2. CASE Dispatch(r) /\ UNCHANGED <<net, copies>> /\ UNCHANGED manager
    <3>1. Dispatches(r)
      BY <1>0, <1>15, <2>2
      DEF Dispatches, ProcessGeneralMessage, PastClaim, Proper, Idle, manager
    <3> QED BY <3>1
  <2>3. CASE Throw(r)
    BY <1>a, <2>3
  <2> QED BY <1>15, <2>1, <2>2, <2>3 DEF ProcessGeneralMessage
<1>16. ASSUME NEW r \in proc, DispatchReady(r) PROVE Dispatches(r)
  BY <1>0, <1>16 DEF Dispatches, DispatchReady, PastClaim, Proper, Idle, manager
<1>17. ASSUME NEW p \in Peers, NEW n \in Nonces, Expire(p, n) PROVE Passive
  <2>1. Evolves
    BY <1>17, ShrinkEvolves DEF Expire
  <2> QED BY <1>17, <2>1 DEF Expire, Passive
<1>18. ASSUME UNCHANGED vars PROVE Passive
  <2>1. Evolves
    BY <1>18, ShrinkEvolves DEF vars
  <2> QED BY <1>18, <2>1 DEF vars, Passive
<1>19. ASSUME NEW r \in proc, SendInitialRequest(r) PROVE Passive
  <2>1. PICK m0 : m0 = [type |-> "initialRequest", from |-> r.at, to |-> r.with,
                        initialNonce |-> r.session]
    OBVIOUS
  <2>2. dispatched' = dispatched /\ net' = net \cup {m0}
    BY <1>19, <2>1 DEF SendInitialRequest, Send
  <2>3. m0.type # "general"
    BY <2>1
  <2>4. Becomes(r, {[r EXCEPT !.pc = "waiting"]}) /\ "waiting" \in Pcs
    BY <1>19 DEF SendInitialRequest, Pcs
  <2>5. Evolves
    BY <1>0, <2>4, BecomesEvolves
  <2> QED BY <2>2, <2>3, <2>5 DEF Passive
<1>20. ASSUME NEW r \in proc, IdentityKeyFails(r) PROVE Passive
  BY <1>20, <1>a DEF IdentityKeyFails
<1>21. ASSUME NEW p \in Peers, NEW m \in net, ForgetRequest(p, m) PROVE Passive
  <2>1. Evolves
    BY <1>21, ShrinkEvolves DEF ForgetRequest
  <2> QED BY <1>21, <2>1 DEF ForgetRequest, Passive
<1>22. ASSUME Passive PROVE Goal
  BY <1>22
<1>23. ASSUME NEW r \in proc, Dispatches(r) PROVE Goal
  BY <1>23
<1> HIDE DEF Goal
<1>24. ASSUME NEW r \in proc, Step(r) \/ Timer(r) PROVE Goal
  BY <1>3, <1>5, <1>6, <1>7, <1>8, <1>9, <1>10, <1>11, <1>12, <1>13, <1>14, <1>15, <1>16, <1>19,
     <1>20, <1>22, <1>23, <1>24 DEF Step, Timer
<1>25. Goal
  BY <1>1, <1>2, <1>17, <1>18, <1>21, <1>22, <1>24 DEF Next
<1> QED BY <1>25 DEF Goal

-----------------------------------------------------------------------------
LEMMA OneMessageNext ==
    ASSUME SessionInv, OneMessage, OneHandler, [Next]_vars
    PROVE  OneMessage'
<1>0. /\ \A r \in proc : r \in Procs /\ Proper(r)
  BY DEF SessionInv, Typed
<1>1. CASE Passive
  <2>1. \A s \in proc' \ proc : s.job = "call" => \E q \in proc \ proc' : Heir(q, s)
    BY <1>1 DEF Passive, Evolves
  <2>2. \A r, s \in proc' : r.job = "call" /\ s.job = "call" /\ r.subject = s.subject => r = s
    <3> SUFFICES ASSUME NEW r \in proc', NEW s \in proc', r.job = "call", s.job = "call",
                        r.subject = s.subject
                 PROVE  r = s
      OBVIOUS
    <3>1. CASE r \in proc /\ s \in proc
      BY <3>1 DEF OneMessage
    <3>2. CASE r \in proc /\ s \notin proc
      BY <2>1, <3>2 DEF Heir, OneMessage
    <3>3. CASE r \notin proc /\ s \in proc
      BY <2>1, <3>3 DEF Heir, OneMessage
    <3>4. CASE r \notin proc /\ s \notin proc
      <4>1. PICK q \in proc, u \in proc : Heir(q, r) /\ Heir(u, s)
        BY <2>1, <3>4
      <4>2. q = u
        BY <4>1 DEF Heir, OneMessage
      <4> QED BY <1>1, <3>4, <4>1, <4>2 DEF Passive, Evolves
    <3> QED BY <3>1, <3>2, <3>3, <3>4
  <2>3. \A m \in net' : m.type = "general" =>
            m \in net /\ \A r \in proc' : ~(r.job = "call" /\ r.subject = m.call)
    BY <1>1, <2>1 DEF Passive, Heir, OneMessage
  <2> QED BY <2>2, <2>3 DEF OneMessage
<1>2. CASE \E m \in net : Receive(m) /\ Addressed(m)
  <2>1. net' = net /\ \A r \in proc' : r.job = "call" => r \in proc
    BY <1>2 DEF Receive, Deliver, Proc
  <2> QED BY <2>1 DEF OneMessage
<1>3. ASSUME NEW r \in proc, Claims(r) PROVE OneMessage'
  <2>1. r.job = "handler" /\ net' = net /\ \A q \in proc' : q.job = "call" => q \in proc
    BY <1>0, <1>3 DEF Claims, Moved, Proper, Idle
  <2> QED BY <2>1 DEF OneMessage
<1>4. ASSUME NEW r \in proc, Dispatches(r) PROVE OneMessage'
  BY <1>4 DEF Dispatches, Dispatch, Becomes, OneMessage
<1>5. ASSUME NEW r \in proc, SendsGeneral(r) PROVE OneMessage'
  <2>1. PICK m : m.type = "general" /\ m.call = r.subject /\ net' = net \cup {m}
    BY <1>5 DEF SendsGeneral
  <2>2. r.job = "call" /\ proc' = proc \ {r}
    BY <1>5 DEF SendsGeneral
  <2> QED BY <2>1, <2>2 DEF OneMessage
<1> QED BY <1>1, <1>2, <1>3, <1>4, <1>5, DeliverySteps

LEMMA OneHandlerNext ==
    ASSUME SessionInv, OneMessage, OneHandler, [Next]_vars
    PROVE  OneHandler'
<1>0. \A r \in proc : r \in Procs /\ Proper(r)
  BY DEF SessionInv, Typed
<1>1. CASE Passive
  <2>1. \A s \in proc' \ proc : s.job = "handler" => \E q \in proc \ proc' : Heir(q, s)
    BY <1>1 DEF Passive, Evolves
  <2> SUFFICES ASSUME NEW r \in proc', NEW s \in proc', r.job = "handler", s.job = "handler",
                      r.subject = s.subject, r.copy = s.copy
               PROVE  r = s
    BY DEF OneHandler
  <2>2. CASE r \in proc /\ s \in proc
    BY <2>2 DEF OneHandler
  <2>3. CASE r \in proc /\ s \notin proc
    BY <2>1, <2>3 DEF Heir, OneHandler
  <2>4. CASE r \notin proc /\ s \in proc
    BY <2>1, <2>4 DEF Heir, OneHandler
  <2>5. CASE r \notin proc /\ s \notin proc
    <3>1. PICK q \in proc, u \in proc : Heir(q, r) /\ Heir(u, s)
      BY <2>1, <2>5
    <3>2. q = u
      BY <3>1 DEF Heir, OneHandler
    <3> QED BY <1>1, <2>5, <3>1, <3>2 DEF Passive, Evolves
  <2> QED BY <2>2, <2>3, <2>4, <2>5
<1>2. ASSUME NEW m \in net, Receive(m), Addressed(m) PROVE OneHandler'
  <2>1. PICK h : /\ h = Proc("handler", m.to, m.from, m, copies[m] + 1, "verifying", m.yourNonce)
                 /\ proc' = proc \cup {h}
    BY <1>2 DEF Receive
  <2>2. h.subject = m /\ h.copy = copies[m] + 1
    BY <2>1 DEF Proc
  <2>3. \A q \in proc : q.job = "handler" /\ q.subject = m => q.copy # h.copy
    BY <1>0, <2>2 DEF Proper, Procs, SessionInv, Typed
  <2> QED BY <2>1, <2>2, <2>3 DEF OneHandler
<1>3. ASSUME NEW r \in proc, Claims(r) PROVE OneHandler'
  <2>1. PICK s \in Procs : Moved(r, s, "claimed") /\ proc' = (proc \ {r}) \cup {s}
    BY <1>3 DEF Claims
  <2>2. s.job = r.job /\ s.subject = r.subject /\ s.copy = r.copy
    BY <2>1 DEF Moved
  <2> QED BY <2>1, <2>2 DEF OneHandler
<1>4. ASSUME NEW r \in proc, Dispatches(r) \/ SendsGeneral(r) PROVE OneHandler'
  <2>1. proc' \subseteq proc
    BY <1>4 DEF Dispatches, SendsGeneral, Dispatch, Becomes
  <2> QED BY <2>1 DEF OneHandler
<1> QED BY <1>1, <1>2, <1>3, <1>4, DeliverySteps

\* The number of handlers of a delivery is zero or one, and only a delivery adds one.
LEMMA AtFacts ==
    /\ \A m, i : At(m, i) \in {0, 1} /\ At(m, i)' \in {0, 1}
    /\ \A m, i : At(m, i) = 1 <=> \E r \in proc : HandlerOf(r, m) /\ r.copy = i
    /\ \A m, i : At(m, i)' = 1 <=> \E r \in proc' : HandlerOf(r, m) /\ r.copy = i
  BY DEF At, HandlerOf

LEMMA AccountedNext ==
    ASSUME SessionInv, OneMessage, OneHandler, Accounted, [Next]_vars
    PROVE  Accounted'
<1>0. /\ Typed /\ \A r \in proc : r \in Procs /\ Proper(r)
  BY DEF SessionInv, Typed
<1>k. /\ \A m \in net : m \in net' /\ copies[m] <= copies'[m]
      /\ copies' \in [net' -> 0..2] /\ net' \subseteq Messages
  BY Effects, TypedNext DEF CopiesGrow, Typed
<1>a. ASSUME NEW m \in net, m.type = "general", dispatched'[m.call] = dispatched[m.call],
             \A i \in {1, 2} : At(m, i)' = 1 => At(m, i) = 1
      PROVE  dispatched'[m.call] + At(m, 1)' + At(m, 2)' <= copies'[m]
  <2>1. dispatched[m.call] \in Nat /\ copies[m] \in Nat /\ copies'[m] \in Nat
    BY <1>0, <1>k, <1>a, MessageFacts DEF Accounted, Typed
  <2>2. dispatched[m.call] + At(m, 1) + At(m, 2) <= copies[m]
    BY <1>a DEF Accounted
  <2>3. /\ At(m, 1)' \in {0, 1} /\ At(m, 2)' \in {0, 1} /\ At(m, 1) \in {0, 1} /\ At(m, 2) \in {0, 1}
    BY AtFacts
  <2> QED BY <1>a, <1>k, <2>1, <2>2, <2>3
<1>b. ASSUME dispatched' = dispatched,
             \A m \in net' \ net : m.type # "general",
             \A m \in net : m.type = "general" => \A i \in {1, 2} : At(m, i)' = 1 => At(m, i) = 1
      PROVE  Accounted'
  BY <1>a, <1>b, <1>k DEF Accounted
<1>1. CASE Passive
  <2>1. \A s \in proc' \ proc : s.job = "handler" => \E q \in proc \ proc' : Heir(q, s)
    BY <1>1 DEF Passive, Evolves
  <2>2. \A m, i : At(m, i)' = 1 => At(m, i) = 1
    BY <2>1, AtFacts DEF HandlerOf, Heir
  <2> QED BY <1>1, <1>b, <2>2 DEF Passive
<1>2. ASSUME NEW m \in net, Receive(m), Addressed(m) PROVE Accounted'
  <2>1. PICK h : /\ h = Proc("handler", m.to, m.from, m, copies[m] + 1, "verifying", m.yourNonce)
                 /\ proc' = proc \cup {h}
    BY <1>2 DEF Receive
  <2>2. h.subject = m /\ h.copy = copies[m] + 1
    BY <2>1 DEF Proc
  <2>3. copies'[m] = copies[m] + 1 /\ net' = net /\ dispatched' = dispatched /\ copies[m] \in 0..2
    BY <1>0, <1>2 DEF Receive, Deliver, Typed
  <2>4. \A k, i : At(k, i)' = 1 => At(k, i) = 1 \/ (k = m /\ i = copies[m] + 1)
    BY <2>1, <2>2, AtFacts DEF HandlerOf
  <2>5. At(m, copies[m] + 1) = 0
    <3>1. \A q \in proc : HandlerOf(q, m) => q.copy # copies[m] + 1
      BY <1>0, <2>3 DEF HandlerOf, Proper, Procs
    <3> QED BY <3>1 DEF At
  <2>6. m.type = "general" => dispatched'[m.call] + At(m, 1)' + At(m, 2)' <= copies'[m]
    <3> SUFFICES ASSUME m.type = "general"
                 PROVE  dispatched'[m.call] + At(m, 1)' + At(m, 2)' <= copies'[m]
      OBVIOUS
    <3>1. dispatched[m.call] \in Nat /\ dispatched[m.call] + At(m, 1) + At(m, 2) <= copies[m]
      BY <1>0, MessageFacts DEF Accounted, Typed
    <3>2. /\ At(m, 1)' \in {0, 1} /\ At(m, 2)' \in {0, 1} /\ At(m, 1) \in {0, 1} /\ At(m, 2) \in {0, 1}
      BY AtFacts
    <3>3. CASE copies[m] + 1 = 1
      <4>1. At(m, 2)' = 1 => At(m, 2) = 1
        BY <2>4, <3>3
      <4> QED BY <2>3, <2>5, <3>1, <3>2, <3>3, <4>1
    <3>4. CASE copies[m] + 1 = 2
      <4>1. At(m, 1)' = 1 => At(m, 1) = 1
        BY <2>4, <3>4
      <4> QED BY <2>3, <2>5, <3>1, <3>2, <3>4, <4>1
    <3>5. CASE copies[m] + 1 = 3
      <4>1. (At(m, 1)' = 1 => At(m, 1) = 1) /\ (At(m, 2)' = 1 => At(m, 2) = 1)
        BY <2>4, <3>5
      <4> QED BY <2>3, <3>1, <3>2, <4>1
    <3> QED BY <2>3, <3>3, <3>4, <3>5
  <2>7. \A k \in net : k # m /\ k.type = "general" =>
            dispatched'[k.call] + At(k, 1)' + At(k, 2)' <= copies'[k]
    BY <1>a, <2>3, <2>4
  <2> QED BY <2>3, <2>6, <2>7 DEF Accounted
<1>3. ASSUME NEW r \in proc, Claims(r) PROVE Accounted'
  <2>1. PICK s \in Procs : Moved(r, s, "claimed") /\ proc' = (proc \ {r}) \cup {s}
    BY <1>3 DEF Claims
  <2>2. \A m, i : At(m, i)' = 1 => At(m, i) = 1
    BY <2>1, AtFacts DEF HandlerOf, Moved
  <2> QED BY <1>3, <1>b, <2>2 DEF Claims
<1>4. ASSUME NEW r \in proc, Dispatches(r) PROVE Accounted'
  <2>1. PICK m \in net : m = r.subject
    BY <1>0, <1>4 DEF Dispatches, Proper
  <2>2. /\ m.type = "general" /\ m.call \in Calls /\ r.job = "handler"
        /\ dispatched' = [dispatched EXCEPT ![m.call] = @ + 1]
        /\ proc' = proc \ {r} /\ UNCHANGED <<net, copies>>
    BY <1>0, <1>4, <2>1, MessageFacts DEF Dispatches, Dispatch, Becomes, Typed
  <2>3. r.copy \in {1, 2}
    BY <1>0, <2>2 DEF Proper, Procs
  <2>4. At(m, r.copy) = 1 /\ At(m, r.copy)' = 0
    <3>1. At(m, r.copy) = 1
      BY <2>1, <2>2, AtFacts DEF HandlerOf
    <3>2. \A q \in proc' : ~(HandlerOf(q, m) /\ q.copy = r.copy)
      BY <2>1, <2>2 DEF HandlerOf, OneHandler
    <3> QED BY <3>1, <3>2, AtFacts DEF At
  <2>5. \A k, i : At(k, i)' = 1 => At(k, i) = 1
    BY <2>2, AtFacts
  <2>6. dispatched'[m.call] + At(m, 1)' + At(m, 2)' <= copies'[m]
    <3>1. dispatched[m.call] \in Nat /\ dispatched[m.call] + At(m, 1) + At(m, 2) <= copies[m]
          /\ copies'[m] = copies[m] /\ copies[m] \in 0..2
          /\ dispatched'[m.call] = dispatched[m.call] + 1
      BY <1>0, <2>2 DEF Accounted, Typed
    <3>2. /\ At(m, 1)' \in {0, 1} /\ At(m, 2)' \in {0, 1} /\ At(m, 1) \in {0, 1} /\ At(m, 2) \in {0, 1}
          /\ (At(m, 1)' = 1 => At(m, 1) = 1) /\ (At(m, 2)' = 1 => At(m, 2) = 1)
      BY <2>5, AtFacts
    <3>3. CASE r.copy = 1
      BY <2>4, <3>1, <3>2, <3>3
    <3>4. CASE r.copy = 2
      BY <2>4, <3>1, <3>2, <3>4
    <3> QED BY <2>3, <3>3, <3>4
  <2>7. \A k \in net : k # m /\ k.type = "general" =>
            dispatched'[k.call] + At(k, 1)' + At(k, 2)' <= copies'[k]
    <3> SUFFICES ASSUME NEW k \in net, k # m, k.type = "general"
                 PROVE  dispatched'[k.call] + At(k, 1)' + At(k, 2)' <= copies'[k]
      OBVIOUS
    <3>1. k.call # m.call
      BY <2>2 DEF OneMessage
    <3>2. dispatched'[k.call] = dispatched[k.call]
      BY <1>0, <2>2, <3>1, MessageFacts DEF Accounted, Typed
    <3> QED BY <1>a, <2>5, <3>2
  <2> QED BY <2>1, <2>2, <2>6, <2>7 DEF Accounted
<1>5. ASSUME NEW r \in proc, SendsGeneral(r) PROVE Accounted'
  <2>1. PICK m : m.type = "general" /\ m.call = r.subject /\ net' = net \cup {m}
    BY <1>5 DEF SendsGeneral
  <2>2. r.job = "call" /\ proc' = proc \ {r} /\ dispatched' = dispatched
        /\ copies' = [k \in net' |-> IF k \in net THEN copies[k] ELSE 0]
    BY <1>5 DEF SendsGeneral
  <2>3. m \notin net /\ m.call \in Calls /\ dispatched[m.call] = 0
    <3>1. m \notin net /\ \A k \in net : k.type = "general" => k.call # m.call
      BY <2>1, <2>2 DEF OneMessage
    <3>2. m.call \in Calls
      BY <1>0, <2>1, <2>2 DEF Proper
    <3> QED BY <3>1, <3>2 DEF Accounted
  <2>4. At(m, 1)' = 0 /\ At(m, 2)' = 0
    <3>1. \A q \in proc' : ~HandlerOf(q, m)
      BY <1>0, <2>2, <2>3 DEF HandlerOf, Proper
    <3> QED BY <3>1 DEF At
  <2>5. dispatched'[m.call] + At(m, 1)' + At(m, 2)' <= copies'[m]
    BY <2>1, <2>2, <2>3, <2>4
  <2>6. \A k, i : At(k, i)' = 1 => At(k, i) = 1
    BY <2>2, AtFacts
  <2>7. \A k \in net : k.type = "general" =>
            dispatched'[k.call] + At(k, 1)' + At(k, 2)' <= copies'[k]
    BY <1>a, <2>2, <2>6
  <2> QED BY <2>1, <2>2, <2>5, <2>7 DEF Accounted
<1> QED BY <1>1, <1>2, <1>3, <1>4, <1>5, DeliverySteps

\* Only a session that is forgotten, or that nobody can use again, loses the
\* nonces it has consumed.
LEMMA ClaimsKept ==
    ASSUME SessionInv, [Next]_vars
    PROVE  /\ forgotten \subseteq forgotten'
           /\ \A n \in Nonces \ forgotten' : claimed[n] \subseteq claimed'[n] \/ Dead(n)'
<1>0. /\ Typed /\ Fresh /\ \A r \in proc : r \in Procs /\ Proper(r)
  BY DEF SessionInv, Typed
<1> DEFINE Goal == /\ forgotten \subseteq forgotten'
                   /\ \A n \in Nonces \ forgotten' : claimed[n] \subseteq claimed'[n] \/ Dead(n)'
<1>1. ASSUME UNCHANGED <<claimed, forgotten>> PROVE Goal
  BY <1>1
<1>2. ASSUME NEW p, NEW n, NEW s, NEW e, Store(p, n, s, e) PROVE Goal
  BY <1>0, <1>2 DEF Store, Typed
<1>3. ASSUME NEW m \in net, ProcessInitialRequest(m) PROVE Goal
  BY <1>1, <1>2, <1>3 DEF ProcessInitialRequest, Answer
<1>4. ASSUME NEW m \in net, Receive(m) PROVE Goal
  BY <1>1, <1>4 DEF Receive, manager
<1>5. ASSUME NEW r \in proc, Begin(r) PROVE Goal
  BY <1>1, <1>2, <1>5 DEF Begin, GetAuthenticatedSession, InitiateHandshake, manager
<1>6. ASSUME NEW r \in proc, GiveUp(r) PROVE Goal
  BY <1>0, <1>6 DEF GiveUp, RemoveSession, Typed
<1>7. ASSUME NEW r \in proc, Claim(r) PROVE Goal
  BY <1>0, <1>7 DEF Claim, Typed
<1>8. ASSUME NEW r \in proc, AuthenticateInitialResponse(r) \/ Marked(r) PROVE Goal
  BY <1>1, <1>2, <1>8 DEF AuthenticateInitialResponse, Marked, Update
<1>9. ASSUME NEW r \in proc, Resume(r) \/ SendSigned(r) \/ CheckBrought(r) \/ ReleaseWaiters(r)
                \/ MarkAuthenticated(r) \/ ProcessCertificateResponse(r)
                \/ ProcessGeneralMessage(r) \/ DispatchReady(r) \/ ValidationTimesOut(r)
                \/ SendInitialRequest(r) \/ IdentityKeyFails(r)
      PROVE  Goal
  <2>1. UNCHANGED <<claimed, forgotten>>
    BY <1>9 DEF Resume, SendSigned, CheckBrought, ReleaseWaiters, MarkAuthenticated,
                ProcessCertificateResponse, ProcessGeneralMessage, DispatchReady,
                ValidationTimesOut, SendInitialRequest, IdentityKeyFails, manager
  <2> QED BY <1>1, <2>1
<1>10. ASSUME NEW p \in Peers, NEW n \in Nonces, Expire(p, n) PROVE Goal
  <2>1. /\ n \in stored[p] /\ Creator(n) = p /\ forgotten' = forgotten /\ proc' = proc
        /\ claimed' = [claimed EXCEPT ![n] = {}]
        /\ stored' = [stored EXCEPT ![p] = @ \ {n}]
        /\ \A r \in proc : r.at = p => r.pc = "start"
    BY <1>0, <1>10 DEF Expire, RemoveSession, Fresh
  <2>2. n \notin stored'[p]
    BY <1>0, <2>1 DEF Typed
  <2>3. \A r \in proc : r.job = "handler" => r.session # n
    BY <1>0, <2>1 DEF Proper, Idle
  <2>4. Dead(n)'
    BY <2>1, <2>2, <2>3 DEF Dead
  <2> QED BY <1>0, <2>1, <2>4 DEF Typed
<1>11. ASSUME NEW p \in Peers, NEW m \in net, ForgetRequest(p, m) PROVE Goal
  BY <1>1, <1>11 DEF ForgetRequest
<1>12. ASSUME UNCHANGED vars PROVE Goal
  BY <1>12 DEF vars
<1> HIDE DEF Goal
<1>13. Goal
  BY <1>3, <1>4, <1>5, <1>6, <1>7, <1>8, <1>9, <1>10, <1>11, <1>12 DEF Next, Step, Timer
<1> QED BY <1>13 DEF Goal

LEMMA DeadStays ==
    ASSUME SessionInv, OneMessage, OneHandler, [Next]_vars, NEW n \in Nonces, Created(n), Dead(n)
    PROVE  Dead(n)'
<1>0. /\ Typed /\ Fresh /\ \A r \in proc : r \in Procs /\ Proper(r)
      /\ Creator(n) \in Peers
  BY NonceFacts DEF SessionInv, Typed
<1>1. \A r \in proc' : r.job = "handler" => r.session # n
  <2>1. CASE Passive
    BY <2>1 DEF Passive, Evolves, Heir, Dead
  <2>2. ASSUME NEW m \in net, Receive(m), Addressed(m)
        PROVE  \A r \in proc' : r.job = "handler" => r.session # n
    <3>1. m.to \in Peers /\ m.yourNonce \in stored[m.to]
      BY <1>0, <2>2, MessageFacts DEF Addressed, Typed
    <3>2. m.yourNonce # n
      BY <1>0, <3>1 DEF Fresh, Dead
    <3>3. PICK h : /\ h = Proc("handler", m.to, m.from, m, copies[m] + 1, "verifying", m.yourNonce)
                   /\ proc' = proc \cup {h}
      BY <2>2 DEF Receive
    <3>4. h.session # n
      BY <3>2, <3>3 DEF Proc
    <3> QED BY <3>3, <3>4 DEF Dead
  <2>3. ASSUME NEW r \in proc, Claims(r) PROVE \A q \in proc' : q.job = "handler" => q.session # n
    BY <2>3 DEF Claims, Moved, Dead
  <2>4. ASSUME NEW r \in proc, Dispatches(r) \/ SendsGeneral(r)
        PROVE  \A q \in proc' : q.job = "handler" => q.session # n
    BY <2>4 DEF Dispatches, Dispatch, Becomes, SendsGeneral, Dead
  <2> QED BY <2>1, <2>2, <2>3, <2>4, DeliverySteps
<1>2. n \notin stored'[Creator(n)]
  <2>1. ASSUME NEW p \in Peers, NEW k, k # n, NEW s, NEW e, Store(p, k, s, e)
        PROVE  n \notin stored'[Creator(n)]
    BY <1>0, <2>1 DEF Store, Dead, Typed
  <2>2. ASSUME stored' = stored PROVE n \notin stored'[Creator(n)]
    BY <2>2 DEF Dead
  <2>3. ASSUME NEW m \in net, ProcessInitialRequest(m) PROVE n \notin stored'[Creator(n)]
    <3>1. CASE stored' # stored
      <4>1. PICK p \in Peers : p = m.to
        BY <1>0, MessageFacts DEF Typed
      <4>2. PICK k : k = <<p, made[p] + 1>>
        OBVIOUS
      <4>3. /\ made[p] < MaxNonces /\ made' = [made EXCEPT ![p] = @ + 1]
            /\ \E s, e : Store(p, k, s, e)
        BY <2>3, <3>1, <4>1, <4>2 DEF ProcessInitialRequest, Answer
      <4>4. k # n
        BY <4>2, <4>3, NewNonce
      <4> QED BY <2>1, <4>3, <4>4
    <3> QED BY <2>2, <3>1
  <2>4. ASSUME NEW r \in proc, Begin(r) PROVE n \notin stored'[Creator(n)]
    <3>1. CASE stored' # stored
      <4>1. PICK p \in Peers : p = r.at
        BY <1>0 DEF Procs
      <4>2. PICK k : k = <<p, made[p] + 1>>
        OBVIOUS
      <4>3. /\ made[p] < MaxNonces /\ made' = [made EXCEPT ![p] = @ + 1]
            /\ \E s, e : Store(p, k, s, e)
        BY <2>4, <3>1, <4>1, <4>2 DEF Begin, GetAuthenticatedSession, InitiateHandshake, manager
      <4>4. k # n
        BY <4>2, <4>3, NewNonce
      <4> QED BY <2>1, <4>3, <4>4
    <3> QED BY <2>2, <3>1
  <2>5. ASSUME NEW r \in proc, AuthenticateInitialResponse(r) \/ Marked(r)
        PROVE  n \notin stored'[Creator(n)]
    <3>1. r.session # n /\ r.at \in Peers
      BY <1>0, <2>5 DEF AuthenticateInitialResponse, Marked, Proper, Idle, Procs, Dead
    <3>2. stored' = stored \/ \E s, e : Store(r.at, r.session, s, e)
      BY <2>5 DEF AuthenticateInitialResponse, Marked, Update
    <3> QED BY <2>1, <2>2, <3>1, <3>2
  <2>6. ASSUME NEW r \in proc, GiveUp(r) PROVE n \notin stored'[Creator(n)]
    BY <1>0, <2>6 DEF GiveUp, RemoveSession, Dead, Typed
  <2>7. ASSUME NEW p \in Peers, NEW k \in Nonces, Expire(p, k) PROVE n \notin stored'[Creator(n)]
    BY <1>0, <2>7 DEF Expire, RemoveSession, Dead, Typed
  <2>8. ASSUME NEW m \in net, Receive(m) PROVE stored' = stored
    BY <2>8 DEF Receive, manager
  <2>9. ASSUME NEW r \in proc, Resume(r) \/ SendSigned(r) \/ Claim(r) \/ CheckBrought(r)
                \/ ReleaseWaiters(r) \/ MarkAuthenticated(r) \/ ProcessCertificateResponse(r)
                \/ ProcessGeneralMessage(r) \/ DispatchReady(r) \/ ValidationTimesOut(r)
                \/ SendInitialRequest(r) \/ IdentityKeyFails(r)
        PROVE  stored' = stored
    BY <2>9 DEF Resume, SendSigned, Claim, CheckBrought, ReleaseWaiters, MarkAuthenticated,
                ProcessCertificateResponse, ProcessGeneralMessage, DispatchReady,
                ValidationTimesOut, SendInitialRequest, IdentityKeyFails, manager
  <2>10. ASSUME NEW p \in Peers, NEW m \in net, ForgetRequest(p, m) PROVE stored' = stored
    BY <2>10 DEF ForgetRequest
  <2>11. CASE UNCHANGED vars
    BY <2>2, <2>11 DEF vars
  <2> QED BY <2>2, <2>3, <2>4, <2>5, <2>6, <2>7, <2>8, <2>9, <2>10, <2>11 DEF Next, Step, Timer
<1> QED BY <1>1, <1>2 DEF Dead

\* A handler of m that has claimed its nonce.
Past(r, m) == HandlerOf(r, m) /\ PastClaim(r)

Once(m) ==
    /\ \A r, s \in proc : Past(r, m) /\ Past(s, m) => r = s
    /\ dispatched[m.call] # 0 => dispatched[m.call] = 1 /\ \A r \in proc : ~Past(r, m)

LEMMA ClaimedOnceNext ==
    ASSUME SessionInv, DispatchInv, [Next]_vars
    PROVE  ClaimedOnce'
<1>0. /\ Typed /\ Fresh /\ \A r \in proc : r \in Procs /\ Proper(r)
      /\ OneMessage /\ OneHandler /\ Accounted
  BY DEF SessionInv, DispatchInv, Typed
<1>1. \A m \in net : m.type = "general" /\ m.yourNonce \notin forgotten =>
          /\ Once(m)
          /\ dispatched[m.call] # 0 \/ (\E r \in proc : Past(r, m)) =>
                m \in claimed[m.yourNonce] \/ Dead(m.yourNonce)
  BY DEF DispatchInv, ClaimedOnce, Once, Past
<1>2. ASSUME NEW m \in net, m.type = "general", m.yourNonce \notin forgotten',
             m \in claimed[m.yourNonce] \/ Dead(m.yourNonce)
      PROVE  m \in claimed'[m.yourNonce] \/ Dead(m.yourNonce)'
  <2>1. m.yourNonce \in Nonces /\ Created(m.yourNonce)
    BY <1>0, <1>2 DEF Fresh, Created
  <2> QED BY <1>0, <1>2, <2>1, ClaimsKept, DeadStays
<1>3. forgotten \subseteq forgotten'
  BY ClaimsKept
\* Nothing new has claimed, and nothing is dispatched.
<1>4. ASSUME NEW m \in net, m.type = "general", m.yourNonce \notin forgotten',
             dispatched'[m.call] = dispatched[m.call],
             \A s \in proc' : Past(s, m) => s \in proc \/ \E q \in proc \ proc' : Heir(q, s) /\ Past(q, m),
             \A s, t \in proc' \ proc : \A q : s.job # "answer" /\ Heir(q, s) /\ Heir(q, t) => s = t
      PROVE  /\ Once(m)'
             /\ dispatched'[m.call] # 0 \/ (\E r \in proc' : Past(r, m)) =>
                   m \in claimed'[m.yourNonce] \/ Dead(m.yourNonce)'
  <2>1. Once(m) /\ (dispatched[m.call] # 0 \/ (\E r \in proc : Past(r, m)) =>
                        m \in claimed[m.yourNonce] \/ Dead(m.yourNonce))
    BY <1>1, <1>3, <1>4
  <2>2. (\E r \in proc' : Past(r, m)) => \E r \in proc : Past(r, m)
    BY <1>4
  <2>3. \A r, s \in proc' : Past(r, m) /\ Past(s, m) => r = s
    <3> SUFFICES ASSUME NEW r \in proc', NEW s \in proc', Past(r, m), Past(s, m) PROVE r = s
      OBVIOUS
    <3>1. CASE r \in proc /\ s \in proc
      BY <2>1, <3>1 DEF Once
    <3>2. CASE r \in proc /\ s \notin proc
      BY <1>4, <2>1, <3>2 DEF Once
    <3>3. CASE r \notin proc /\ s \in proc
      BY <1>4, <2>1, <3>3 DEF Once
    <3>4. CASE r \notin proc /\ s \notin proc
      <4>1. PICK q \in proc, u \in proc : Heir(q, r) /\ Past(q, m) /\ Heir(u, s) /\ Past(u, m)
        BY <1>4, <3>4
      <4>2. q = u /\ r.job # "answer"
        BY <2>1, <4>1 DEF Once, Past, HandlerOf
      <4> QED BY <1>4, <3>4, <4>1, <4>2
    <3> QED BY <3>1, <3>2, <3>3, <3>4
  <2>4. Once(m)'
    <3>1. dispatched'[m.call] # 0 => dispatched'[m.call] = 1 /\ \A r \in proc' : ~Past(r, m)
      BY <1>4, <2>1, <2>2 DEF Once
    <3>2. \A r : Past(r, m)' <=> Past(r, m)
      BY DEF Past, HandlerOf, PastClaim
    <3> QED BY <2>3, <3>1, <3>2 DEF Once
  <2> QED BY <1>2, <1>4, <2>1, <2>2, <2>4
<1> DEFINE Good(m) == /\ Once(m)'
                      /\ dispatched'[m.call] # 0 \/ (\E r \in proc' : Past(r, m)) =>
                            m \in claimed'[m.yourNonce] \/ Dead(m.yourNonce)'
<1>5. ASSUME \A m \in net' : m.type = "general" /\ m.yourNonce \notin forgotten' => Good(m)
      PROVE  ClaimedOnce'
  BY <1>5 DEF ClaimedOnce, Once, Past, HandlerOf, PastClaim
<1>6. CASE Passive
  <2> SUFFICES ASSUME NEW m \in net', m.type = "general", m.yourNonce \notin forgotten' PROVE Good(m)
    BY <1>5
  <2>1. m \in net /\ dispatched' = dispatched
    BY <1>6 DEF Passive
  <2>2. \A s \in proc' : Past(s, m) => s \in proc \/ \E q \in proc \ proc' : Heir(q, s) /\ Past(q, m)
    BY <1>6 DEF Passive, Evolves, Past, HandlerOf, Heir
  <2> QED BY <1>4, <1>6, <2>1, <2>2 DEF Passive, Evolves
<1>7. ASSUME NEW k \in net, Receive(k), Addressed(k) PROVE ClaimedOnce'
  <2> SUFFICES ASSUME NEW m \in net', m.type = "general", m.yourNonce \notin forgotten' PROVE Good(m)
    BY <1>5
  <2>1. PICK h : /\ h = Proc("handler", k.to, k.from, k, copies[k] + 1, "verifying", k.yourNonce)
                 /\ proc' = proc \cup {h}
    BY <1>7 DEF Receive
  <2>2. m \in net /\ dispatched' = dispatched
    BY <1>7 DEF Receive, Deliver
  <2>3. ~PastClaim(h)
    BY <2>1 DEF Proc, PastClaim
  <2> QED BY <1>4, <2>1, <2>2, <2>3 DEF Past
<1>8. ASSUME NEW r \in proc, Claims(r) PROVE ClaimedOnce'
  <2> SUFFICES ASSUME NEW m \in net', m.type = "general", m.yourNonce \notin forgotten' PROVE Good(m)
    BY <1>5
  <2>1. PICK s \in Procs : Moved(r, s, "claimed") /\ proc' = (proc \ {r}) \cup {s}
    BY <1>8 DEF Claims
  <2>2. /\ r.pc = "verifying" /\ r.job = "handler" /\ r.session = r.subject.yourNonce
        /\ Creator(r.session) = r.at /\ r.session \in stored[r.at] /\ r.session \in Nonces
        /\ r.subject \notin claimed[r.session] /\ ~PastClaim(r)
        /\ claimed' = [claimed EXCEPT ![r.session] = @ \cup {r.subject}]
        /\ UNCHANGED <<net, dispatched, forgotten>>
    BY <1>0, <1>8 DEF Claims, Proper, Idle, PastClaim, Created
  <2>3. s.subject = r.subject /\ s.job = "handler"
    BY <2>1, <2>2 DEF Moved
  <2>4. CASE r.subject # m
    <3>1. \A q \in proc' : Past(q, m) => q \in proc
      BY <2>1, <2>3, <2>4 DEF Past, HandlerOf
    <3>2. \A q, t \in proc' \ proc : q = t
      BY <2>1
    <3> QED BY <1>4, <2>2, <3>1, <3>2
  <2>5. CASE r.subject = m
    <3>1. ~Dead(m.yourNonce) /\ m \notin claimed[m.yourNonce]
      BY <2>2, <2>5 DEF Dead
    <3>2. dispatched[m.call] = 0 /\ \A q \in proc : ~Past(q, m)
      BY <1>1, <2>2, <3>1
    <3>3. \A q \in proc' : Past(q, m) => q = s
      BY <2>1, <3>2
    <3>4. Once(m)'
      BY <2>2, <3>2, <3>3 DEF Once, Past, HandlerOf, PastClaim
    <3>5. m \in claimed'[m.yourNonce]
      BY <1>0, <2>2, <2>5 DEF Typed
    <3> QED BY <3>4, <3>5
  <2> QED BY <2>4, <2>5
<1>9. ASSUME NEW r \in proc, Dispatches(r) PROVE ClaimedOnce'
  <2> SUFFICES ASSUME NEW m \in net', m.type = "general", m.yourNonce \notin forgotten' PROVE Good(m)
    BY <1>5
  <2>1. /\ r.job = "handler" /\ r.subject \in net /\ r.subject.type = "general"
        /\ r.subject.call \in Calls /\ PastClaim(r) /\ proc' = proc \ {r}
        /\ dispatched' = [dispatched EXCEPT ![r.subject.call] = @ + 1]
        /\ UNCHANGED <<net, forgotten>>
    BY <1>0, <1>9, MessageFacts DEF Dispatches, Dispatch, Becomes, Proper, Typed
  <2>2. CASE r.subject # m
    <3>1. dispatched'[m.call] = dispatched[m.call]
      BY <1>0, <2>1, <2>2, MessageFacts DEF OneMessage, Accounted, Typed
    <3> QED BY <1>4, <2>1, <3>1
  <2>3. CASE r.subject = m
    <3>1. Past(r, m)
      BY <2>1, <2>3 DEF Past, HandlerOf
    <3>2. Once(m) /\ (m \in claimed[m.yourNonce] \/ Dead(m.yourNonce))
      BY <1>1, <1>3, <2>1, <2>3, <3>1
    <3>3. dispatched[m.call] = 0 /\ \A q \in proc' : ~Past(q, m)
      BY <2>1, <3>1, <3>2 DEF Once
    <3>4. dispatched'[m.call] = 1
      BY <1>0, <2>1, <2>3, <3>3 DEF Accounted
    <3>5. Once(m)'
      BY <3>3, <3>4 DEF Once, Past, HandlerOf, PastClaim
    <3> QED BY <1>2, <2>1, <3>2, <3>5
  <2> QED BY <2>2, <2>3
<1>10. ASSUME NEW r \in proc, SendsGeneral(r) PROVE ClaimedOnce'
  <2> SUFFICES ASSUME NEW m \in net', m.type = "general", m.yourNonce \notin forgotten' PROVE Good(m)
    BY <1>5
  <2>1. PICK k : k.type = "general" /\ k.call = r.subject /\ net' = net \cup {k}
    BY <1>10 DEF SendsGeneral
  <2>2. r.job = "call" /\ proc' = proc \ {r} /\ dispatched' = dispatched
    BY <1>10 DEF SendsGeneral
  <2>3. CASE m \in net
    BY <1>4, <2>2, <2>3
  <2>4. CASE m \notin net
    <3>1. m = k /\ \A q \in proc' : ~Past(q, m)
      BY <1>0, <2>1, <2>2, <2>4 DEF Past, HandlerOf, Proper
    <3>2. dispatched[m.call] = 0
      <4>1. \A l \in net : l.type = "general" => l.call # m.call
        BY <1>0, <2>1, <2>2, <3>1 DEF OneMessage
      <4>2. m.call \in Calls
        BY <1>0, <2>1, <2>2, <3>1 DEF Proper
      <4> QED BY <1>0, <4>1, <4>2 DEF Accounted
    <3> QED BY <2>2, <3>1, <3>2 DEF Once, Past, HandlerOf, PastClaim
  <2> QED BY <2>3, <2>4
<1> QED BY <1>0, <1>6, <1>7, <1>8, <1>9, <1>10, DeliverySteps

LEMMA DispatchInvNext ==
    ASSUME SessionInv, DispatchInv, [Next]_vars
    PROVE  DispatchInv'
  BY OneMessageNext, OneHandlerNext, AccountedNext, ClaimedOnceNext DEF DispatchInv

LEMMA DispatchInvInit ==
    ASSUME Init
    PROVE  DispatchInv
<1>1. OneMessage
  BY DEF Init, Proc, OneMessage
<1>2. OneHandler
  BY DEF Init, Proc, OneHandler
<1>3. Accounted /\ ClaimedOnce
  BY DEF Init, Accounted, ClaimedOnce
<1> QED BY <1>1, <1>2, <1>3 DEF DispatchInv

\* Every state has its types; that dispatched is at most 2 is the accounting of
\* deliveries.
THEOREM TypeCorrect == Spec => []TypeOK
<1>1. SessionInv /\ DispatchInv => TypeOK
  <2> SUFFICES ASSUME SessionInv, DispatchInv PROVE TypeOK
    OBVIOUS
  <2>1. Typed /\ Fresh /\ Accounted
    BY DEF SessionInv, DispatchInv
  <2>2. \A r \in proc : r.at \in Peers /\ r.session \in Nonces \cup {NoNonce}
    BY <2>1 DEF Typed, Procs
  <2>3. \A p \in Peers : \A n \in stored[p] : Creator(n) = p /\ n[2] <= made[p]
    BY <2>1 DEF Fresh, Created
  <2>4. dispatched \in [Calls -> 0..2]
    <3>1. \A c \in Calls : dispatched[c] \in 0..2
      <4> SUFFICES ASSUME NEW c \in Calls, dispatched[c] # 0 PROVE dispatched[c] \in 0..2
        OBVIOUS
      <4>1. PICK m \in net : m.type = "general" /\ m.call = c
        BY <2>1 DEF Accounted
      <4>2. /\ dispatched[c] + At(m, 1) + At(m, 2) <= copies[m] /\ copies[m] \in 0..2
            /\ dispatched[c] \in Nat
        BY <2>1, <4>1 DEF Accounted, Typed
      <4>3. At(m, 1) \in {0, 1} /\ At(m, 2) \in {0, 1}
        BY AtFacts
      <4> QED BY <4>2, <4>3
    <3> QED BY <2>1, <3>1 DEF Accounted
  <2> QED BY <2>1, <2>2, <2>3, <2>4 DEF Typed, TypeOK
<1> QED BY <1>1, SessionsSound, DispatchInvInit, DispatchInvNext, PTL DEF Spec

\* DispatchedOnce, for any number of calls, repetitions and concurrent handlers:
\* claimMessageNonce lets one handler of a message through.
THEOREM DeliveredOnce == Spec => []DispatchedOnce
<1>1. SessionInv /\ DispatchInv => DispatchedOnce
  <2> SUFFICES ASSUME SessionInv, DispatchInv, NEW m \in net, m.type = "general",
                      m.yourNonce \notin forgotten
               PROVE  dispatched[m.call] <= 1
    BY DEF DispatchedOnce
  <2>1. m.call \in Calls
    BY MessageFacts DEF SessionInv, Typed
  <2> QED BY <2>1 DEF DispatchInv, ClaimedOnce, Accounted
<1> QED BY <1>1, SessionsSound, DispatchInvInit, DispatchInvNext, PTL DEF Spec
=============================================================================
