------------------------------ MODULE PeerAuth ------------------------------
(***************************************************************************)
(* Mutual authentication of two SDK peers (Peer.ts, SessionManager.ts).    *)
(* A call of toPeer finds an authenticated session for the other identity, *)
(* or starts a handshake: initialRequest, initialResponse, and where a     *)
(* peer asks for certificates a certificateResponse.  Then it sends its    *)
(* general message in that session.                                        *)
(*                                                                         *)
(* The transport may lose, delay, reorder and repeat messages.  Calls and  *)
(* the handlers of incoming messages run interleaved at their awaits.      *)
(* Sessions are objects: a handler that fetched one keeps it, also after   *)
(* the SessionManager, which holds a bounded number, has dropped it.       *)
(***************************************************************************)
EXTENDS Naturals, FiniteSets

CONSTANTS
    Peers,
    Calls,          \* calls of toPeer, one general message each
    Caller, Callee, \* functions from Calls to Peers
    Requesters,     \* peers whose certificatesToRequest names a certifier
    Certified,      \* peers whose wallet can prove such a certificate
    MaxSessions,    \* MaxSessions[p]: the capacity of p's SessionManager
    MaxNonces,      \* bound on the sessions each peer ever creates
    Repeated        \* <<type, sender>> of the messages that may arrive twice

ASSUME CallsHaveEnds == Caller \in [Calls -> Peers] /\ Callee \in [Calls -> Peers]
ASSUME BoundsPositive == MaxNonces \in Nat \ {0} /\ MaxSessions \in [Peers -> Nat \ {0}]

None == "none"
NoNonce == <<None, 0>>
Nonces == Peers \X (1..MaxNonces)     \* session nonces, by their creator
Creator(n) == n[1]

VARIABLES
    made,        \* made[p]: session nonces p has created
    object,      \* object[n]: the PeerSession of session nonce n
    stored,      \* stored[p]: session nonces in p's SessionManager
    claimed,     \* claimed[n]: messages whose nonce session n has consumed
    requests,    \* requests[p]: initial requests p has claimed
    net,         \* messages sent so far
    copies,      \* copies[m]: how often message m has been delivered
    proc,        \* calls and handlers that are under way
    call,        \* call[c]: what became of call c
    dispatched,  \* dispatched[c]: deliveries of c's message to the application
    keyed,       \* peers whose wallet has told them their identity key
    forgotten,   \* (history) sessions dropped with their consumed nonces while in use
    abandoned,   \* (history) sessions left stored by a handshake that sent nothing
    lapsed       \* (history) nonces of initial requests whose claim was forgotten

vars == <<made, object, stored, claimed, requests, net, copies, proc, call, dispatched,
          keyed, forgotten, abandoned, lapsed>>
manager == <<made, object, stored, claimed, keyed, forgotten, abandoned, lapsed>>

Sessions == [peer : Peers \cup {None}, peerNonce : Nonces \cup {NoNonce},
             isAuthenticated : BOOLEAN, certificatesValidated : BOOLEAN]
NoSession == [peer |-> None, peerNonce |-> NoNonce,
              isAuthenticated |-> FALSE, certificatesValidated |-> FALSE]

Messages ==
    [type : {"initialRequest"}, from : Peers, to : Peers, initialNonce : Nonces]
    \cup [type : {"initialResponse"}, from : Peers, to : Peers,
          initialNonce : Nonces, yourNonce : Nonces, certificates : BOOLEAN]
    \cup [type : {"certificateResponse"}, from : Peers, to : Peers,
          initialNonce : Nonces, yourNonce : Nonces]
    \cup [type : {"general"}, from : Peers, to : Peers, yourNonce : Nonces, call : Calls]

(***************************************************************************)
(* A process at peer `at` that deals with peer `with`.  Its job is to send *)
(* the message of a call, to send certificates in answer to a message, or  *)
(* to handle a message; `copy` tells the deliveries of a message apart.    *)
(***************************************************************************)
Proc(job, at, with, subject, copy, pc, session) ==
    [job |-> job, at |-> at, with |-> with, subject |-> subject, copy |-> copy,
     pc |-> pc, session |-> session]

TypeOK ==
    /\ made \in [Peers -> 0..MaxNonces]
    /\ object \in [Nonces -> Sessions]
    /\ \A p \in Peers : \A n \in stored[p] : Creator(n) = p /\ n[2] <= made[p]
    /\ \A n \in Nonces : claimed[n] \subseteq net
    /\ net \subseteq Messages /\ \A p \in Peers : requests[p] \subseteq net
    /\ DOMAIN copies = net /\ \A m \in net : copies[m] \in 0..2
    /\ \A r \in proc : r.at \in Peers /\ r.session \in Nonces \cup {NoNonce}
    /\ call \in [Calls -> {"active", "sent", "failed"}]
    /\ dispatched \in [Calls -> 0..2]
    /\ keyed \subseteq Peers
    /\ forgotten \subseteq Nonces /\ abandoned \subseteq Nonces /\ lapsed \subseteq Nonces

Init ==
    /\ made = [p \in Peers |-> 0]
    /\ object = [n \in Nonces |-> NoSession]
    /\ stored = [p \in Peers |-> {}]
    /\ claimed = [n \in Nonces |-> {}]
    /\ requests = [p \in Peers |-> {}]
    /\ net = {} /\ copies = [m \in {} |-> 0]
    /\ proc = {Proc("call", Caller[c], Callee[c], c, 0, "start", NoNonce) : c \in Calls}
    /\ call = [c \in Calls |-> "active"] /\ dispatched = [c \in Calls |-> 0]
    /\ keyed = {} /\ forgotten = {} /\ abandoned = {} /\ lapsed = {}

-----------------------------------------------------------------------------
(***************************************************************************)
(* SessionManager.                                                         *)
(***************************************************************************)
Ready(n) ==
    object[n].isAuthenticated /\ (Creator(n) \in Requesters => object[n].certificatesValidated)

\* getSession of an identity: ready before authenticated before any other; which
\* of them was updated last is left open.
Best(p, q) ==
    LET all == {n \in stored[p] : object[n].peer = q}
        authenticated == {n \in all : object[n].isAuthenticated}
        ready == {n \in all : Ready(n)}
    IN IF ready # {} THEN ready ELSE IF authenticated # {} THEN authenticated ELSE all

\* With a mistake: any session is evicted when the store is full.
AdmitEvictingAny(p, n) ==
    IF n \in stored[p] \/ Cardinality(stored[p]) < MaxSessions[p] THEN {{}}
    ELSE {{e} : e \in stored[p]}

\* addSession: what may be evicted to make room for n; there is no choice, and
\* the call throws, when all the sessions are authenticated.
Admit(p, n) ==
    IF n \in stored[p] \/ Cardinality(stored[p]) < MaxSessions[p] THEN {{}}
    ELSE {{e} : e \in {e \in stored[p] : ~object[e].isAuthenticated}}

\* addSession and updateSession of session n at p as object s.
Store(p, n, s, evicted) ==
    /\ object' = [object EXCEPT ![n] = s]
    /\ stored' = [stored EXCEPT ![p] = (@ \ evicted) \cup {n}]
    /\ claimed' = [k \in Nonces |-> IF k \in evicted THEN {} ELSE claimed[k]]
    /\ forgotten' = forgotten \cup evicted

RemoveSession(p, n) ==
    /\ stored' = [stored EXCEPT ![p] = @ \ {n}]
    /\ claimed' = [claimed EXCEPT ![n] = {}]
    /\ UNCHANGED <<made, object, keyed, abandoned, lapsed>>

-----------------------------------------------------------------------------
Send(ms) ==
    /\ net' = net \cup ms
    /\ copies' = [m \in net \cup ms |-> IF m \in net THEN copies[m] ELSE 0]

Becomes(r, new) == proc' = (proc \ {r}) \cup new

\* The end of process r; only a call has somebody to report to.
Ended(r, how) ==
    call' = IF r.job = "call" THEN [call EXCEPT ![r.subject] = how] ELSE call

Throw(r) ==
    /\ Becomes(r, {})
    /\ Ended(r, "failed")
    /\ UNCHANGED <<net, copies, requests, dispatched>>

(***************************************************************************)
(* initiateHandshake for process r: the session is stored first, then the  *)
(* wallet is asked for the identity key, then the request is sent.         *)
(***************************************************************************)
InitiateHandshake(r) ==
    LET p == r.at
        n == <<p, made[p] + 1>>
    IN /\ made[p] < MaxNonces
       /\ made' = [made EXCEPT ![p] = @ + 1]
       /\ \/ \E evicted \in Admit(p, n) :
                /\ Store(p, n, [peer |-> r.with, peerNonce |-> NoNonce, isAuthenticated |-> FALSE,
                                certificatesValidated |-> p \notin Requesters], evicted)
                /\ Becomes(r, {[r EXCEPT !.pc = "keying", !.session = n]})
                /\ UNCHANGED call
          \/ /\ Admit(p, n) = {}
             /\ Becomes(r, {}) /\ Ended(r, "failed")
             /\ UNCHANGED <<object, stored, claimed, forgotten>>
       /\ UNCHANGED <<requests, net, copies, dispatched, keyed, abandoned, lapsed>>

\* The identity key is there, from the wallet or from an earlier call.
SendInitialRequest(r) ==
    LET request == [type |-> "initialRequest", from |-> r.at, to |-> r.with,
                    initialNonce |-> r.session]
    IN /\ r.pc = "keying"
       /\ keyed' = keyed \cup {r.at}
       /\ Send({request})
       /\ Becomes(r, {[r EXCEPT !.pc = "waiting"]})
       /\ UNCHANGED <<made, object, stored, claimed, requests, call, dispatched,
                      forgotten, abandoned, lapsed>>

\* The wallet fails to give it: nothing removes the session that was stored.
IdentityKeyFails(r) ==
    /\ r.pc = "keying" /\ r.at \notin keyed
    /\ abandoned' = abandoned \cup {r.session}
    /\ Throw(r)
    /\ UNCHANGED <<made, object, stored, claimed, keyed, forgotten, lapsed>>

\* toPeer goes on with session n once it has it; certificates come first.
MaySendIn(r, n) == r.job = "call" => Ready(n)

\* getAuthenticatedSession, then what toPeer checks before it signs.
GetAuthenticatedSession(r) ==
    \/ \E n \in Best(r.at, r.with) :
          /\ object[n].isAuthenticated
          /\ IF MaySendIn(r, n)
             THEN Becomes(r, {[r EXCEPT !.pc = "signing", !.session = n]}) /\ UNCHANGED call
             ELSE Becomes(r, {}) /\ Ended(r, "failed")
          /\ UNCHANGED <<manager, requests, net, copies, dispatched>>
    \/ /\ \A n \in Best(r.at, r.with) : ~object[n].isAuthenticated
       /\ InitiateHandshake(r)

\* toPeer, or sendCertificateResponse, begins.
Begin(r) ==
    /\ r.pc = "start"
    /\ GetAuthenticatedSession(r)

\* With a mistake: the session of a failed handshake stays in the store.
GiveUpKeeping(r) ==
    /\ r.pc = "waiting"
    /\ Throw(r)
    /\ UNCHANGED manager

\* With a mistake: no timeout is set.
GiveUpNever(r) == r.pc = "refused" /\ GiveUpKeeping(r)

\* The wait for the initial response times out, or the transport's send throws.
GiveUp(r) ==
    /\ r.pc = "waiting"
    /\ RemoveSession(r.at, r.session)
    /\ forgotten' = forgotten \cup {r.session}
    /\ Throw(r)

\* The initial response has come: the session is fetched by its nonce.
Resume(r) ==
    /\ r.pc = "woken"
    /\ IF r.session \in stored[r.at] /\ object[r.session].isAuthenticated
             /\ MaySendIn(r, r.session)
       THEN /\ Becomes(r, {[r EXCEPT !.pc = "signing"]})
            /\ UNCHANGED <<requests, net, copies, call, dispatched>>
       ELSE Throw(r)
    /\ UNCHANGED manager

\* The message is signed; touchSession throws when the session is gone.
SendSigned(r) ==
    LET n == r.session
        general == [type |-> "general", from |-> r.at, to |-> r.with,
                    yourNonce |-> object[n].peerNonce, call |-> r.subject]
        response == [type |-> "certificateResponse", from |-> r.at, to |-> r.with,
                     initialNonce |-> n, yourNonce |-> object[n].peerNonce]
    IN /\ r.pc = "signing"
       /\ \/ /\ n \in stored[r.at]
             /\ Send({IF r.job = "call" THEN general ELSE response})
             /\ Becomes(r, {}) /\ Ended(r, "sent")
             /\ UNCHANGED <<requests, dispatched>>
          \/ n \notin stored[r.at] /\ Throw(r)
       /\ UNCHANGED manager

-----------------------------------------------------------------------------
(***************************************************************************)
(* Incoming messages.                                                      *)
(***************************************************************************)
Copies(m) == IF <<m.type, m.from>> \in Repeated THEN 2 ELSE 1

Deliver(m) ==
    /\ copies[m] < Copies(m)
    /\ copies' = [copies EXCEPT ![m] = @ + 1]
    /\ UNCHANGED net

\* addSession and the answer, once the nonce of request m is claimed; n is the
\* nonce of the new session, which stays when the wallet then fails.
Answer(m, n) ==
    LET p == m.to
        response == [type |-> "initialResponse", from |-> p, to |-> m.from,
                     initialNonce |-> n, yourNonce |-> m.initialNonce,
                     certificates |-> m.from \in Requesters /\ p \in Certified]
    IN /\ m.type = "initialRequest"
       /\ copies[m] < Copies(m) /\ made[p] < MaxNonces
       /\ requests' = [requests EXCEPT ![p] = @ \cup {m}]
       /\ made' = [made EXCEPT ![p] = @ + 1]
       /\ \/ \E evicted \in Admit(p, n), answered \in {{}, {response}} :
                /\ Store(p, n, [peer |-> m.from, peerNonce |-> m.initialNonce,
                                isAuthenticated |-> FALSE,
                                certificatesValidated |-> p \notin Requesters], evicted)
                /\ net' = net \cup answered
                /\ copies' = [k \in net \cup answered |->
                                IF k = m THEN copies[m] + 1
                                ELSE IF k \in net THEN copies[k] ELSE 0]
                /\ keyed' = IF answered = {} THEN keyed ELSE keyed \cup {p}
          \/ /\ Admit(p, n) = {}
             /\ copies' = [copies EXCEPT ![m] = @ + 1]
             /\ UNCHANGED <<object, stored, claimed, net, keyed, forgotten>>
       /\ UNCHANGED <<proc, call, dispatched, abandoned, lapsed>>

\* With a mistake: a request that was answered before is answered again.
ProcessRepeatedRequest(m) == Answer(m, <<m.to, made[m.to] + 1>>)

\* With a mistake: the session is stored under the nonce of the request.
ProcessUnderPeerNonce(m) == m \notin requests[m.to] /\ Answer(m, m.initialNonce)

\* claimInitialRequestNonce refuses a request it has seen.
ProcessInitialRequest(m) ==
    /\ m \notin requests[m.to]
    /\ Answer(m, <<m.to, made[m.to] + 1>>)

\* The claim of request m at p is forgotten: it is as old as an idle session may
\* get, or the claims of other requests have taken its place.  What becomes of a
\* claim matters only while the transport may still repeat the request.
MayComeAgain(m) == copies[m] < Copies(m)

ForgetRequest(p, m) ==
    /\ m \in requests[p] /\ MayComeAgain(m)
    /\ requests' = [requests EXCEPT ![p] = @ \ {m}]
    /\ lapsed' = lapsed \cup {m.initialNonce}
    /\ UNCHANGED <<made, object, stored, claimed, net, copies, proc, call, dispatched,
                   keyed, forgotten, abandoned>>

\* The session is found by yourNonce and its identity matches.
Addressed(m) ==
    /\ m.yourNonce \in stored[m.to]
    /\ object[m.yourNonce].peer = m.from

\* Any other message: what does not belong to a stored session is refused.
Receive(m) ==
    /\ m.type # "initialRequest"
    /\ Deliver(m)
    /\ proc' = IF Addressed(m)
               THEN proc \cup {Proc("handler", m.to, m.from, m, copies[m] + 1, "verifying",
                                    m.yourNonce)}
               ELSE proc
    /\ UNCHANGED <<manager, requests, call, dispatched>>

\* With a mistake: the nonce is not looked up among the consumed ones.
ClaimAgain(r) ==
    LET n == r.session
    IN /\ r.pc = "verifying"
       /\ IF n \in stored[r.at]
          THEN /\ claimed' = [claimed EXCEPT ![n] = @ \cup {r.subject}]
               /\ Becomes(r, {[r EXCEPT !.pc = "claimed"]})
               /\ UNCHANGED <<requests, net, copies, call, dispatched>>
          ELSE UNCHANGED claimed /\ Throw(r)
       /\ UNCHANGED <<made, object, stored, keyed, forgotten, abandoned, lapsed>>

\* The signature is verified; claimMessageNonce.
Claim(r) ==
    LET n == r.session
    IN /\ r.pc = "verifying"
       /\ IF n \in stored[r.at] /\ r.subject \notin claimed[n]
          THEN /\ claimed' = [claimed EXCEPT ![n] = @ \cup {r.subject}]
               /\ Becomes(r, {[r EXCEPT !.pc = "claimed"]})
               /\ UNCHANGED <<requests, net, copies, call, dispatched>>
          ELSE UNCHANGED claimed /\ Throw(r)
       /\ UNCHANGED <<made, object, stored, keyed, forgotten, abandoned, lapsed>>

\* Sets the session object s at nonce n, stored again if it was dropped.
Update(r, s, next) ==
    LET n == r.session
    IN \/ \E evicted \in Admit(r.at, n) :
             /\ Store(r.at, n, s, evicted)
             /\ Becomes(r, {[r EXCEPT !.pc = next]})
             /\ UNCHANGED <<made, requests, net, copies, call, dispatched, keyed,
                            abandoned, lapsed>>
       \/ /\ Admit(r.at, n) = {}
          /\ object' = [object EXCEPT ![n] = s]
          /\ Throw(r)
          /\ UNCHANGED <<made, stored, claimed, keyed, forgotten, abandoned, lapsed>>

\* The rest of authenticateInitialResponse works on the object it holds.
AuthenticateInitialResponse(r) ==
    /\ r.pc = "claimed" /\ r.subject.type = "initialResponse"
    /\ Update(r, [peer |-> r.with, peerNonce |-> r.subject.initialNonce,
                  isAuthenticated |-> TRUE,
                  certificatesValidated |-> r.at \notin Requesters], "authenticated")

Woken(r, from, to) ==
    {[q EXCEPT !.pc = to] : q \in {q \in proc : q.pc = from /\ q.session = r.session}}
Sleeping(r, from) == {q \in proc : q.pc = from /\ q.session = r.session}

\* With a mistake: the waiters are not told.
ValidateSilently(r) ==
    /\ object' = [object EXCEPT ![r.session].certificatesValidated = TRUE]
    /\ proc' = proc \ {r}

\* certificatesValidated is set and the general messages that wait for it go on.
Validate(r) ==
    /\ object' = [object EXCEPT ![r.session].certificatesValidated = TRUE]
    /\ proc' = (proc \ ({r} \cup Sleeping(r, "blocked"))) \cup Woken(r, "blocked", "ready")

(***************************************************************************)
(* validateInitialResponseCertificates: only when certificates came along. *)
(***************************************************************************)
Brought(r) == r.at \in Requesters /\ r.subject.certificates

CheckBrought(r) ==
    /\ r.pc = "authenticated" /\ Brought(r)
    /\ IF r.session \in stored[r.at]
       THEN /\ object' = [object EXCEPT ![r.session].certificatesValidated = TRUE]
            /\ proc' = (proc \ ({r} \cup Sleeping(r, "blocked")))
                          \cup Woken(r, "blocked", "ready") \cup {[r EXCEPT !.pc = "validated"]}
            /\ UNCHANGED <<requests, net, copies, call, dispatched>>
       ELSE UNCHANGED object /\ Throw(r)
    /\ UNCHANGED <<made, stored, claimed, keyed, forgotten, abandoned, lapsed>>

(***************************************************************************)
(* The waiters for this session go on, and the certificates that the peer  *)
(* asked for, if there are any, are sent in whichever session is best.     *)
(***************************************************************************)
ReleaseWaiters(r) ==
    /\ \/ r.pc = "validated"
       \/ r.pc = "authenticated" /\ ~Brought(r)
    /\ LET answers == r.with \in Requesters /\ r.at \in Certified
           answer == Proc("answer", r.at, r.with, r.subject, r.copy, "start", NoNonce)
       IN proc' = (proc \ ({r} \cup Sleeping(r, "waiting"))) \cup Woken(r, "waiting", "woken")
                     \cup (IF answers THEN {answer} ELSE {})
    /\ UNCHANGED <<manager, requests, net, copies, call, dispatched>>

\* markSessionAuthenticated, for certificate responses and general messages: the
\* session is fetched, then set and stored.
MarkAuthenticated(r) ==
    /\ r.pc = "claimed" /\ r.subject.type # "initialResponse"
    /\ IF r.session \in stored[r.at]
       THEN /\ Becomes(r, {[r EXCEPT !.pc = "marking"]})
            /\ UNCHANGED <<requests, net, copies, call, dispatched>>
       ELSE Throw(r)
    /\ UNCHANGED manager

Marked(r) ==
    /\ r.pc = "marking"
    /\ Update(r, [object[r.session] EXCEPT !.isAuthenticated = TRUE], "marked")

ProcessCertificateResponse(r) ==
    /\ r.pc = "marked" /\ r.subject.type = "certificateResponse"
    /\ IF r.session \in stored[r.at]
       THEN Validate(r) /\ UNCHANGED <<requests, net, copies, call, dispatched>>
       ELSE UNCHANGED object /\ Throw(r)
    /\ UNCHANGED <<made, stored, claimed, keyed, forgotten, abandoned, lapsed>>

Dispatch(r) ==
    /\ dispatched' = [dispatched EXCEPT ![r.subject.call] = @ + 1]
    /\ Becomes(r, {})

\* processGeneralMessage: dispatched, or blocked until certificates are validated.
ProcessGeneralMessage(r) ==
    /\ r.pc = "marked" /\ r.subject.type = "general"
    /\ \/ /\ r.session \in stored[r.at] /\ Ready(r.session)
          /\ Dispatch(r)
          /\ UNCHANGED <<requests, net, copies, call>>
       \/ /\ r.session \in stored[r.at] /\ ~Ready(r.session)
          /\ Becomes(r, {[r EXCEPT !.pc = "blocked"]})
          /\ UNCHANGED <<requests, net, copies, call, dispatched>>
       \/ r.session \notin stored[r.at] /\ Throw(r)
    /\ UNCHANGED manager

DispatchReady(r) ==
    /\ r.pc = "ready"
    /\ Dispatch(r)
    /\ UNCHANGED <<manager, requests, net, copies, call>>

\* The wait for certificates times out.
ValidationTimesOut(r) ==
    /\ r.pc = "blocked"
    /\ Throw(r)
    /\ UNCHANGED manager

-----------------------------------------------------------------------------
\* A session that nobody uses is idle for too long: getSession finds it expired.
Expire(p, n) ==
    /\ n \in stored[p]
    /\ \A r \in proc : r.at = p => r.pc = "start"
    /\ RemoveSession(p, n)
    /\ UNCHANGED <<requests, net, copies, proc, call, dispatched, forgotten>>

Step(r) ==
    \/ Begin(r) \/ SendInitialRequest(r) \/ IdentityKeyFails(r) \/ Resume(r) \/ SendSigned(r)
    \/ Claim(r) \/ AuthenticateInitialResponse(r) \/ CheckBrought(r) \/ ReleaseWaiters(r)
    \/ MarkAuthenticated(r) \/ Marked(r) \/ ProcessCertificateResponse(r)
    \/ ProcessGeneralMessage(r) \/ DispatchReady(r)

Timer(r) == GiveUp(r) \/ ValidationTimesOut(r)

Next ==
    \/ \E m \in net : ProcessInitialRequest(m) \/ Receive(m)
    \/ \E r \in proc : Step(r) \/ Timer(r)
    \/ \E p \in Peers, n \in Nonces : Expire(p, n)
    \/ \E p \in Peers, m \in net : ForgetRequest(p, m)

Spec == Init /\ [][Next]_vars

\* The event loop runs what is ready and fires timers; the transport owes nothing.
FairSpec ==
    /\ Spec
    /\ WF_vars(\E r \in proc : Step(r))
    /\ WF_vars(\E r \in proc : Timer(r))

-----------------------------------------------------------------------------
\* Once a side takes its session for authenticated, the other side has a session
\* for it that is paired with it and the two know each other's identity, whatever
\* requests and responses were lost, repeated or crossed
\* (authenticateInitialResponse, and markSessionAuthenticated for the side that
\* answered).  The other side's session is paired with a different one, of the same
\* peer, only where claimInitialRequestNonce had forgotten its request.
SessionsAgree ==
    \A n \in Nonces : object[n].isAuthenticated =>
        LET k == object[n].peerNonce
        IN /\ k # NoNonce
           /\ object[n].peer = Creator(k) /\ object[k].peer = Creator(n)
           /\ \/ object[k].peerNonce = n
              \/ k \in lapsed /\ Creator(object[k].peerNonce) = Creator(n)

\* A message that arrives twice reaches the application once, although the
\* claim of its nonce and its dispatch are separate steps, unless its session
\* was evicted, or given up by its handshake, meanwhile: a handler between
\* getSession and updateSession stores it again without its consumed nonces.
DispatchedOnce ==
    \A m \in net : m.type = "general" /\ m.yourNonce \notin forgotten
                      => dispatched[m.call] <= 1

\* No general message waits for a certificate validation that has happened:
\* waitForCertificateValidation and resolveCertificateValidation do not miss
\* each other, in whatever order the messages of a session are handled.
NoLostWakeup == \A r \in proc : r.pc = "blocked" => ~object[r.session].certificatesValidated

\* An established session is lost only because nobody used it, or because the
\* handshake that made it gives up while its response is being handled: no other
\* session, asked for without a signature or stored again late, evicts it.
EstablishedKept ==
    [][\A p \in Peers : \A n \in stored[p] \ stored'[p] : object[n].isAuthenticated =>
          Expire(p, n) \/ \E r \in proc : r.session = n /\ GiveUp(r)]_vars

\* A session that was never answered does not outlive its handshake: whether the
\* wait times out, the response comes late or the session is evicted and stored
\* again, no half open session is left to fill the store, but for one whose
\* handshake could not ask the wallet for the identity key.
HandshakeTidy ==
    \A p \in Peers : \A n \in stored[p] : object[n].peerNonce = NoNonce =>
        \/ \E r \in proc : r.session = n /\ r.pc \in {"keying", "waiting"}
        \/ n \in abandoned

\* Every call returns or throws and every handler ends, although the transport
\* may lose any message: each wait has a timeout.  A process that still has to
\* start a session when the bound on sessions is reached is left out.
Settles == <>[](\A r \in proc : r.pc = "start" /\ made[r.at] = MaxNonces)
=============================================================================
