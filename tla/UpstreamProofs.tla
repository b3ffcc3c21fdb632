--------------------------- MODULE UpstreamProofs ---------------------------
(***************************************************************************)
(* Theorems about Upstream: its type invariant, that a session keeps its     *)
(* account, that Anthropic acts on a request at most once, that whoever      *)
(* awaits a refresh has one, that a retry carries a new token, and that      *)
(* pacing holds for whoever is not overtaken.                               *)
(***************************************************************************)
EXTENDS Upstream, TLAPS

-----------------------------------------------------------------------------
(* Types, and what the phase of a request says of its other fields.         *)

PhaseOK(q) ==
    /\ q.acted <= 1
    /\ q.phase # "done" => q.acted = 0
    /\ q.phase # "new" => q.member \in Members
    /\ q.phase \in {"new", "awaitToken"} => q.attempt = 1
    /\ q.phase = "new" => q.session = None /\ q.member = None
    /\ q.phase = "paced" => q.session # None

PhasesOK == \A r \in Requests : PhaseOK(req[r])

TInv == TypeOK /\ PhasesOK

Good(q) == q \in Request /\ PhaseOK(q)

LEMMA TokenTypes == NoToken \in Token /\ NewRequest \in Request /\ PhaseOK(NewRequest)
BY UpstreamAssumption DEF NoToken, Token, NewRequest, Request, Phases, PhaseOK

\* Changing one request to a good one keeps them good.
LEMMA OneGood ==
    ASSUME TInv, NEW r \in Requests, NEW q, Good(q), req' = [req EXCEPT ![r] = q]
    PROVE  req' \in [Requests -> Request] /\ PhasesOK'
BY DEF TInv, TypeOK, PhasesOK, Good

\* An answered handler is good if Anthropic acted at most once.
LEMMA AnsweredGood ==
    ASSUME NEW q, Good(q), q.phase # "new", NEW n \in {0, 1}
    PROVE  Good(Answered(q, n))
<1> DEFINE c == Released(q)
<1>0. q \in Request /\ n \in 0..2 /\ 0 \in 0..MinGap
  BY UpstreamAssumption DEF Good
<1>1. c \in Request
  BY <1>0, TokenTypes DEF Released, Request
<1>2. c.member = q.member /\ c.session = q.session /\ c.attempt = q.attempt
  BY <1>0 DEF Released, Request
<1>3. Answered(q, n) = [c EXCEPT !.phase = "done", !.acted = n]
  BY DEF Answered
<1> HIDE DEF c
<1>4. Answered(q, n) \in Request
  BY <1>0, <1>1, <1>3 DEF Request, Phases
<1>5. PhaseOK(Answered(q, n))
  BY <1>0, <1>1, <1>2, <1>3 DEF Good, Request, PhaseOK
<1>6. QED
  BY <1>4, <1>5 DEF Good

LEMMA InitTypes == Init => TInv
<1> SUFFICES ASSUME Init PROVE TInv
  OBVIOUS
<1>1. TypeOK
  BY TokenTypes, UpstreamAssumption
  DEF Init, TypeOK, NoFlight, Estimate, Unknown, NoToken, Token
<1>2. PhasesOK
  BY TokenTypes DEF Init, PhasesOK
<1>3. QED
  BY <1>1, <1>2 DEF TInv

LEMMA BestAreMembers ==
    ASSUME TInv, NEW s \in Sessions \cup {None}, NEW m \in Candidates(s)
    PROVE  m \in Members
BY DEF TInv, TypeOK, Candidates, Best

\* The flights keep their type when a caller joins or launches one.
LEMMA JoinTypes ==
    ASSUME TInv, NEW m \in Members, JoinOrLaunch(m)
    PROVE  flight' \in [Members -> [phase : {"none", "asked", "saving"}, token : Token]]
BY DEF TInv, TypeOK, JoinOrLaunch

\* A send keeps the requests good and the ages in their range.
LEMMA SendTypes ==
    ASSUME TInv, NEW r \in Requests, req[r].phase \in {"template", "paced"}, Send(r)
    PROVE  req' \in [Requests -> Request] /\ PhasesOK' /\ age' \in [Sessions -> 0..MinGap]
<1>1. age' \in [Sessions -> 0..MinGap]
  BY UpstreamAssumption DEF TInv, TypeOK, Send, Paced, Request
<1>2. \A q \in Requests : req[q] \in Request /\ PhaseOK(req[q])
  BY DEF TInv, TypeOK, PhasesOK
<1>3. ASSUME NEW q \in Requests
      PROVE  /\ Good([req[q] EXCEPT !.overtaken = "yes"])
             /\ Good(req[q])
  BY <1>2 DEF Good, Request, PhaseOK
<1>4. Good([req[r] EXCEPT !.phase = "sent"])
  BY <1>2 DEF Good, Request, PhaseOK, Phases
<1>5. req' \in [Requests -> Request]
  BY <1>3, <1>4 DEF Send, Good
<1>6. PhasesOK'
  BY <1>3, <1>4 DEF Send, Good, PhasesOK
<1>7. QED
  BY <1>1, <1>5, <1>6

\* What a step that only changes the requests leaves typed.
Others == <<assigned, estimate, held, fresh, flight, replace, issued, age>>

LEMMA NextTypes == TInv /\ [Next]_vars => TInv'
<1> SUFFICES ASSUME TInv, [Next]_vars PROVE TInv'
  OBVIOUS
<1>g. \A r \in Requests : Good(req[r])
  BY DEF TInv, TypeOK, PhasesOK, Good
<1>o. ASSUME req' \in [Requests -> Request], PhasesOK', UNCHANGED Others
      PROVE  TInv'
  BY <1>o DEF TInv, TypeOK, Others
<1>p. ASSUME UNCHANGED req PROVE req' \in [Requests -> Request] /\ PhasesOK'
  BY <1>p DEF TInv, TypeOK, PhasesOK
<1>1. ASSUME NEW r \in Requests, NEW kind \in {"messages", "models"},
             NEW s \in Sessions \cup {None}, Start(r, kind, s)
      PROVE  TInv'
  <2>1. PICK m \in Candidates(s) :
           /\ Assign(s, m)
           /\ \/ /\ fresh[m]
                 /\ req' = [req EXCEPT ![r] = [NewRequest EXCEPT
                               !.phase = "template", !.kind = kind, !.session = s,
                               !.member = m, !.token = held[m]]]
                 /\ UNCHANGED flight
              \/ /\ ~fresh[m]
                 /\ req' = [req EXCEPT ![r] = [NewRequest EXCEPT
                               !.phase = "awaitToken", !.kind = kind, !.session = s,
                               !.member = m]]
                 /\ JoinOrLaunch(m)
    BY <1>1 DEF Start
  <2>2. m \in Members /\ held[m] \in Token
    BY BestAreMembers DEF TInv, TypeOK
  <2>3. Good([NewRequest EXCEPT !.phase = "template", !.kind = kind, !.session = s,
                                !.member = m, !.token = held[m]])
    BY <2>2, TokenTypes DEF Good, NewRequest, Request, Phases, PhaseOK
  <2>4. Good([NewRequest EXCEPT !.phase = "awaitToken", !.kind = kind, !.session = s,
                                !.member = m])
    BY <2>2, TokenTypes DEF Good, NewRequest, Request, Phases, PhaseOK
  <2>5. req' \in [Requests -> Request] /\ PhasesOK'
    BY <2>1, <2>3, <2>4, OneGood
  <2>6. assigned' \in [Sessions -> Members \cup {None}]
    BY <2>1, <2>2 DEF TInv, TypeOK, Assign
  <2>7. flight' \in [Members -> [phase : {"none", "asked", "saving"}, token : Token]]
    BY <2>1, <2>2, JoinTypes DEF TInv, TypeOK
  <2>8. QED
    BY <1>1, <2>5, <2>6, <2>7 DEF Start, TInv, TypeOK
<1>2. ASSUME NEW r \in Requests, AwaitPacing(r) PROVE TInv'
  <2>1. CASE Remaining(r) = 0 /\ Send(r)
    <3>1. req[r].phase \in {"template", "paced"}
      BY <1>2 DEF AwaitPacing
    <3>2. QED
      BY <1>2, <2>1, <3>1, SendTypes DEF AwaitPacing, TInv, TypeOK
  <2>2. CASE Remaining(r) > 0 /\ UNCHANGED age /\
             req' = [req EXCEPT ![r].phase = "paced", ![r].wait = Remaining(r),
                                ![r].overtaken = "no"]
    <3> DEFINE q == [req[r] EXCEPT !.phase = "paced", !.wait = Remaining(r),
                                   !.overtaken = "no"]
    <3>1. req[r].session # None /\ Remaining(r) \in 0..MinGap
      BY <1>g, <2>2, UpstreamAssumption
      DEF Remaining, Paced, Good, Request, TInv, TypeOK
    <3>2. req[r].phase = "template"
      BY <1>2 DEF AwaitPacing
    <3>3. Good(q)
      BY <1>g, <3>1, <3>2 DEF Good, Request, Phases, PhaseOK
    <3>4. req' = [req EXCEPT ![r] = q]
      BY <2>2 DEF TInv, TypeOK
    <3>5. QED
      BY <1>2, <1>o, <2>2, <3>3, <3>4, OneGood DEF AwaitPacing, Others
  <2>3. QED
    BY <1>2, <2>1, <2>2 DEF AwaitPacing
<1>3. ASSUME NEW r \in Requests, PacingDone(r) PROVE TInv'
  <2>1. req[r].phase \in {"template", "paced"} /\ Send(r)
    BY <1>3 DEF PacingDone
  <2>2. QED
    BY <1>3, <2>1, SendTypes DEF PacingDone, TInv, TypeOK
<1>4. ASSUME NEW r \in Requests, PrepareFails(r) PROVE TInv'
  <2>1. req[r].phase # "new" /\ req[r].acted = 0
    BY <1>4, <1>g DEF PrepareFails, Good, PhaseOK
  <2>2. Good(Answered(req[r], 0))
    BY <1>g, <2>1, AnsweredGood
  <2>3. req' = [req EXCEPT ![r] = Answered(req[r], 0)]
    BY <1>4, <2>1 DEF PrepareFails
  <2>4. QED
    BY <1>4, <1>o, <2>2, <2>3, OneGood DEF PrepareFails, Others
<1>5. ASSUME NEW r \in Requests, FetchFails(r) PROVE TInv'
  <2>1. req[r].phase # "new" /\ req[r].acted = 0
    BY <1>5, <1>g DEF FetchFails, Good, PhaseOK
  <2>2. PICK n \in {0, 1} : req' = [req EXCEPT ![r] = Answered(req[r], req[r].acted + n)]
    BY <1>5 DEF FetchFails
  <2>3. req[r].acted + n = n /\ Good(Answered(req[r], n))
    BY <1>g, <2>1, AnsweredGood
  <2>4. QED
    BY <1>5, <1>o, <2>2, <2>3, OneGood DEF FetchFails, Others
<1>6. ASSUME NEW r \in Requests, Unauthorized(r) PROVE TInv'
  <2>1. PICK late \in {"no", "yes"} :
           req' = [req EXCEPT ![r] = [req[r] EXCEPT !.phase = "awaitRefresh",
                     !.attempt = 2, !.rejected = req[r].token, !.late = late]]
    BY <1>6 DEF Unauthorized
  <2>2. req[r].phase = "sent"
    BY <1>6 DEF Unauthorized
  <2>3. Good([req[r] EXCEPT !.phase = "awaitRefresh", !.attempt = 2,
                            !.rejected = req[r].token, !.late = late])
    BY <1>g, <2>2 DEF Good, Request, Phases, PhaseOK
  <2>4. req[r].member \in Members
    BY <1>g, <2>2 DEF Good, PhaseOK
  <2>5. flight' \in [Members -> [phase : {"none", "asked", "saving"}, token : Token]]
    BY <1>6, <2>4, JoinTypes DEF Unauthorized
  <2>6. QED
    BY <1>6, <2>1, <2>3, <2>5, OneGood DEF Unauthorized, TInv, TypeOK
<1>7. ASSUME NEW r \in Requests, NEW status \in Statuses, Respond(r, status)
      PROVE  TInv'
  <2>1. req[r].phase # "new" /\ req[r].acted = 0 /\ req[r].member \in Members
    BY <1>7, <1>g DEF Respond, Good, PhaseOK
  <2>2. PICK n \in Acts(status) : req' = [req EXCEPT ![r] = Answered(req[r], 0 + n)]
    BY <1>7, <2>1 DEF Respond
  <2>3. n \in {0, 1} /\ 0 + n = n
    BY DEF Acts, Statuses
  <2>4. Good(Answered(req[r], n))
    BY <1>g, <2>1, <2>3, AnsweredGood
  <2>5. estimate' \in [Members -> Estimate]
    BY <1>7 DEF Respond, TInv, TypeOK, Estimate
  <2>6. QED
    BY <1>7, <2>2, <2>3, <2>4, <2>5, OneGood DEF Respond, TInv, TypeOK
<1>8. ASSUME NEW m \in Members, RefreshStore(m) PROVE TInv'
  <2>1. [flight[m].token EXCEPT !.gen = @ + 1] \in Token
    <3>1. flight[m].token \in Token /\ flight[m].token.gen < MaxGen
      BY <1>8 DEF RefreshStore, TInv, TypeOK
    <3>2. flight[m].token.gen + 1 \in 0..MaxGen
      BY <3>1, UpstreamAssumption DEF Token
    <3>3. QED
      BY <3>1, <3>2 DEF Token
  <2>2. QED
    BY <1>8, <1>p, <2>1 DEF RefreshStore, TInv, TypeOK
<1>9. ASSUME NEW m \in Members, RefreshSaved(m) PROVE TInv'
  <2>1. flight[m].token \in Token
    BY DEF TInv, TypeOK
  <2>2. ASSUME NEW r \in Requests, Waits(r, m)
        PROVE  Good([req[r] EXCEPT !.phase = "template", !.token = flight[m].token])
    BY <1>g, <2>1, <2>2 DEF Waits, Good, Request, Phases, PhaseOK
  <2>3. req' \in [Requests -> Request]
    BY <1>9, <1>g, <2>2 DEF RefreshSaved, Good
  <2>4. PhasesOK'
    BY <1>9, <1>g, <2>2 DEF RefreshSaved, PhasesOK, Good
  <2>5. QED
    BY <1>9, <2>3, <2>4, TokenTypes DEF RefreshSaved, TInv, TypeOK, NoFlight
<1>10. ASSUME NEW m \in Members, RefreshFails(m) PROVE TInv'
  <2>1. ASSUME NEW r \in Requests, Waits(r, m)
        PROVE  Good(Answered(req[r], req[r].acted))
    <3>1. req[r].phase # "new" /\ req[r].acted \in {0, 1}
      BY <1>g, <2>1 DEF Waits, Good, PhaseOK
    <3>2. QED
      BY <1>g, <3>1, AnsweredGood
  <2>2. req' \in [Requests -> Request]
    BY <1>10, <1>g, <2>1 DEF RefreshFails, Good
  <2>3. PhasesOK'
    BY <1>10, <1>g, <2>1 DEF RefreshFails, PhasesOK, Good
  <2>4. QED
    BY <1>10, <2>2, <2>3, TokenTypes DEF RefreshFails, TInv, TypeOK, NoFlight
<1>11. ASSUME NEW m \in Members, Expire(m) PROVE TInv'
  BY <1>11, <1>p DEF Expire, TInv, TypeOK
<1>12. ASSUME NEW m \in Members, Replace(m) PROVE TInv'
  <2>1. issued[m] + 1 \in 0..MaxReplace /\ 0 \in 0..MaxGen
    BY <1>12, UpstreamAssumption DEF Replace, TInv, TypeOK
  <2>2. [login |-> issued[m] + 1, gen |-> 0] \in Token
    BY <2>1 DEF Token
  <2>3. QED
    BY <1>12, <1>p, <2>1, <2>2 DEF Replace, TInv, TypeOK
<1>13. ASSUME NEW m \in Members, ReplaceSaved(m) PROVE TInv'
  BY <1>13, <1>p DEF ReplaceSaved, TInv, TypeOK, Estimate
<1>14. ASSUME NEW m \in Members, ReplaceFails(m) PROVE TInv'
  BY <1>14, <1>p DEF ReplaceFails, TInv, TypeOK
<1>15. ASSUME Tick PROVE TInv'
  <2>1. ASSUME NEW r \in Requests, req[r].wait > 0
        PROVE  Good([req[r] EXCEPT !.wait = @ - 1])
    BY <1>g, <2>1, UpstreamAssumption DEF Good, Request, PhaseOK
  <2>2. req' \in [Requests -> Request]
    BY <1>15, <1>g, <2>1 DEF Tick, Good
  <2>3. PhasesOK'
    BY <1>15, <1>g, <2>1 DEF Tick, PhasesOK, Good
  <2>4. age' \in [Sessions -> 0..MinGap]
    BY <1>15, UpstreamAssumption DEF Tick, TInv, TypeOK
  <2>5. QED
    BY <1>15, <2>2, <2>3, <2>4 DEF Tick, TInv, TypeOK
<1>16. CASE UNCHANGED vars
  BY <1>16, <1>p, <1>o DEF vars, Others
<1>17. QED
  BY <1>1, <1>2, <1>3, <1>4, <1>5, <1>6, <1>7, <1>8, <1>9, <1>10, <1>11, <1>12,
     <1>13, <1>14, <1>15, <1>16 DEF Next

\* Every variable keeps its type, for any number of accounts, sessions and
\* requests.
THEOREM TypeCorrect == Spec => []TypeOK
<1>1. Spec => []TInv
  BY InitTypes, NextTypes, PTL DEF Spec
<1>2. QED
  BY <1>1, PTL DEF TInv

\* Anthropic acts on a request at most once (callUpstream sends again only
\* after a 401).
THEOREM NoDoubleSubmission == Spec => []NeverSubmitsTwice
<1>1. Spec => []TInv
  BY InitTypes, NextTypes, PTL DEF Spec
<1>2. TInv => NeverSubmitsTwice
  BY DEF TInv, PhasesOK, PhaseOK, NeverSubmitsTwice
<1>3. QED
  BY <1>1, <1>2, PTL

-----------------------------------------------------------------------------
(* Sessions keep their account.                                             *)

\* The assignment of a session is the member of each of its requests.
Sticky ==
    \A r \in Requests : req[r].session # None => assigned[req[r].session] = req[r].member

\* Only a start gives a request its session and its member.
LEMMA RouteKept ==
    ASSUME TInv, Next,
           ~\E r \in Requests, kind \in {"messages", "models"}, s \in Sessions \cup {None} :
                Start(r, kind, s)
    PROVE  /\ UNCHANGED assigned
           /\ \A q \in Requests : /\ req'[q].session = req[q].session
                                  /\ req'[q].member = req[q].member
<1>g. req \in [Requests -> Request]
  BY DEF TInv, TypeOK
<1>a. ASSUME NEW q \in Requests, NEW n
      PROVE  /\ Answered(req[q], n).session = req[q].session
             /\ Answered(req[q], n).member = req[q].member
  BY <1>g DEF Answered, Released, Request
<1>1. ASSUME NEW r \in Requests, AwaitPacing(r) \/ PacingDone(r)
      PROVE  /\ UNCHANGED assigned
             /\ \A q \in Requests : /\ req'[q].session = req[q].session
                                    /\ req'[q].member = req[q].member
  BY <1>1, <1>g DEF AwaitPacing, PacingDone, Send, Request
<1>2. ASSUME NEW r \in Requests, PrepareFails(r) \/ FetchFails(r)
      PROVE  /\ UNCHANGED assigned
             /\ \A q \in Requests : /\ req'[q].session = req[q].session
                                    /\ req'[q].member = req[q].member
  BY <1>2, <1>g, <1>a DEF PrepareFails, FetchFails
<1>3. ASSUME NEW r \in Requests, Unauthorized(r)
      PROVE  /\ UNCHANGED assigned
             /\ \A q \in Requests : /\ req'[q].session = req[q].session
                                    /\ req'[q].member = req[q].member
  BY <1>3, <1>g DEF Unauthorized, Request
<1>4. ASSUME NEW r \in Requests, NEW status \in Statuses, Respond(r, status)
      PROVE  /\ UNCHANGED assigned
             /\ \A q \in Requests : /\ req'[q].session = req[q].session
                                    /\ req'[q].member = req[q].member
  BY <1>4, <1>g, <1>a DEF Respond
<1>5. ASSUME NEW m \in Members, RefreshStore(m) \/ Expire(m) \/ Replace(m)
                                \/ ReplaceSaved(m) \/ ReplaceFails(m)
      PROVE  UNCHANGED assigned /\ UNCHANGED req
  BY <1>5 DEF RefreshStore, Expire, Replace, ReplaceSaved, ReplaceFails
<1>6. ASSUME NEW m \in Members, RefreshSaved(m) \/ RefreshFails(m)
      PROVE  /\ UNCHANGED assigned
             /\ \A q \in Requests : /\ req'[q].session = req[q].session
                                    /\ req'[q].member = req[q].member
  <2>1. CASE RefreshSaved(m)
    BY <2>1, <1>g DEF RefreshSaved, Request
  <2>2. CASE RefreshFails(m)
    BY <2>2, <1>a DEF RefreshFails
  <2>3. QED
    BY <1>6, <2>1, <2>2
<1>7. ASSUME Tick
      PROVE  /\ UNCHANGED assigned
             /\ \A q \in Requests : /\ req'[q].session = req[q].session
                                    /\ req'[q].member = req[q].member
  BY <1>7, <1>g DEF Tick, Request
<1>8. QED
  BY <1>1, <1>2, <1>3, <1>4, <1>5, <1>6, <1>7 DEF Next

\* What a start does: the member, the assignment, and no other request.
LEMMA StartStep ==
    ASSUME TInv, NEW r \in Requests, NEW kind, NEW s \in Sessions \cup {None},
           Start(r, kind, s)
    PROVE  \E m \in Members :
             /\ m \in Candidates(s) /\ Assign(s, m)
             /\ req[r].phase = "new"
             /\ req'[r].phase \in {"template", "awaitToken"}
             /\ req'[r].session = s /\ req'[r].member = m
             /\ req'[r].attempt = 1 /\ req'[r].rejected = NoToken
             /\ req'[r].token \in {held[m], NoToken}
             /\ \A q \in Requests : q # r => req'[q] = req[q]
             /\ \/ req'[r].phase = "template" /\ UNCHANGED flight
                \/ req'[r].phase = "awaitToken" /\ JoinOrLaunch(m)
<1>1. PICK m \in Candidates(s) :
         /\ Assign(s, m)
         /\ \/ /\ fresh[m]
               /\ req' = [req EXCEPT ![r] = [NewRequest EXCEPT
                             !.phase = "template", !.kind = kind, !.session = s,
                             !.member = m, !.token = held[m]]]
               /\ UNCHANGED flight
            \/ /\ ~fresh[m]
               /\ req' = [req EXCEPT ![r] = [NewRequest EXCEPT
                             !.phase = "awaitToken", !.kind = kind, !.session = s,
                             !.member = m]]
               /\ JoinOrLaunch(m)
  BY DEF Start
<1>2. m \in Members /\ req \in [Requests -> Request] /\ req[r].phase = "new"
  BY BestAreMembers DEF TInv, TypeOK, Start
<1>3. CASE /\ req' = [req EXCEPT ![r] = [NewRequest EXCEPT
                          !.phase = "template", !.kind = kind, !.session = s,
                          !.member = m, !.token = held[m]]]
           /\ UNCHANGED flight
  <2>1. /\ req'[r].phase = "template" /\ req'[r].session = s /\ req'[r].member = m
        /\ req'[r].attempt = 1 /\ req'[r].rejected = NoToken
        /\ req'[r].token = held[m]
    BY <1>2, <1>3 DEF NewRequest
  <2>2. \A q \in Requests : q # r => req'[q] = req[q]
    BY <1>2, <1>3
  <2>3. QED
    BY <1>1, <1>2, <1>3, <2>1, <2>2
<1>4. CASE /\ req' = [req EXCEPT ![r] = [NewRequest EXCEPT
                          !.phase = "awaitToken", !.kind = kind, !.session = s,
                          !.member = m]]
           /\ JoinOrLaunch(m)
  <2>1. /\ req'[r].phase = "awaitToken" /\ req'[r].session = s /\ req'[r].member = m
        /\ req'[r].attempt = 1 /\ req'[r].rejected = NoToken
        /\ req'[r].token = NoToken
    BY <1>2, <1>4 DEF NewRequest
  <2>2. \A q \in Requests : q # r => req'[q] = req[q]
    BY <1>2, <1>4
  <2>3. QED
    BY <1>1, <1>2, <1>4, <2>1, <2>2
<1>5. QED
  BY <1>1, <1>3, <1>4

LEMMA NextSticky == TInv /\ Sticky /\ [Next]_vars => Sticky'
<1> SUFFICES ASSUME TInv, Sticky, [Next]_vars PROVE Sticky'
  OBVIOUS
<1>1. ASSUME NEW r \in Requests, NEW kind \in {"messages", "models"},
             NEW s \in Sessions \cup {None}, Start(r, kind, s)
      PROVE  Sticky'
  <2>1. PICK m \in Members :
          /\ m \in Candidates(s) /\ Assign(s, m)
          /\ req'[r].session = s /\ req'[r].member = m
          /\ \A q \in Requests : q # r => req'[q] = req[q]
    BY <1>1, StartStep
  <2>2. ASSUME NEW q \in Requests, q # r, req[q].session # None
        PROVE  assigned'[req[q].session] = req[q].member
    <3>1. assigned[req[q].session] = req[q].member
      BY <2>2 DEF Sticky
    <3>2. req[q].member \in Members /\ req[q].member # None
      BY <2>2, UpstreamAssumption DEF TInv, PhasesOK, PhaseOK
    <3>3. req[q].session = s => m = assigned[s]
      BY <2>1, <2>2, <3>1, <3>2 DEF Candidates
    <3>4. QED
      BY <2>1, <2>2, <3>1, <3>3 DEF Assign, TInv, TypeOK
  <2>3. s # None => assigned'[s] = m
    BY <2>1 DEF Assign, TInv, TypeOK
  <2>4. QED
    BY <2>1, <2>2, <2>3 DEF Sticky
<1>2. CASE Next /\ ~\E r \in Requests, kind \in {"messages", "models"},
                       s \in Sessions \cup {None} : Start(r, kind, s)
  BY <1>2, RouteKept DEF Sticky
<1>3. CASE UNCHANGED vars
  BY <1>3 DEF vars, Sticky
<1>4. QED
  BY <1>1, <1>2, <1>3

\* All requests of a session go through one account (sticky sessionAssignments,
\* account-pool.ts), for any number of accounts and sessions.
THEOREM SessionsKeepTheirAccount == Spec => []SessionsStick
<1>1. Init => Sticky
  BY DEF Init, Sticky, NewRequest
<1>2. Spec => [](TInv /\ Sticky)
  BY <1>1, InitTypes, NextTypes, NextSticky, PTL DEF Spec
<1>3. TInv /\ Sticky => SessionsStick
  BY DEF Sticky, SessionsStick
<1>4. QED
  BY <1>2, <1>3, PTL

-----------------------------------------------------------------------------
(* Whoever awaits a refresh has one.                                        *)

\* Joining or launching leaves the member with a refresh and takes none away.
LEMMA JoinGives ==
    ASSUME TInv, NEW m \in Members, JoinOrLaunch(m)
    PROVE  /\ flight'[m].phase # "none"
           /\ \A n \in Members : /\ n # m => flight'[n] = flight[n]
                                 /\ flight[n].phase # "none" => flight'[n] = flight[n]
           /\ flight[m].phase = "none"
              => flight'[m] = [phase |-> "asked", token |-> held[m]]
BY DEF TInv, TypeOK, JoinOrLaunch

\* A request that a step does not leave waiting, or that already waited.
LEMMA WaitersBegin ==
    ASSUME TInv, Next, NEW q \in Requests,
           req'[q].phase \in {"awaitToken", "awaitRefresh"}, req'[q].phase # req[q].phase
    PROVE  \E m \in Members : req'[q].member = m /\ JoinOrLaunch(m)
<1>g. req \in [Requests -> Request]
  BY DEF TInv, TypeOK
<1>a. ASSUME NEW r \in Requests, NEW n PROVE Answered(req[r], n).phase = "done"
  BY <1>g DEF Answered, Released, Request
<1>1. ASSUME NEW r \in Requests, NEW kind \in {"messages", "models"},
             NEW s \in Sessions \cup {None}, Start(r, kind, s)
      PROVE  \E m \in Members : req'[q].member = m /\ JoinOrLaunch(m)
  BY <1>1, StartStep
<1>2. ASSUME NEW r \in Requests, AwaitPacing(r) \/ PacingDone(r) PROVE FALSE
  BY <1>2, <1>g DEF AwaitPacing, PacingDone, Send, Request
<1>3. ASSUME NEW r \in Requests, PrepareFails(r) \/ FetchFails(r) PROVE FALSE
  BY <1>3, <1>g, <1>a DEF PrepareFails, FetchFails
<1>4. ASSUME NEW r \in Requests, Unauthorized(r)
      PROVE  \E m \in Members : req'[q].member = m /\ JoinOrLaunch(m)
  <2>1. req[r].phase # "new" /\ req[r].member \in Members /\ JoinOrLaunch(req[r].member)
    BY <1>4 DEF Unauthorized, TInv, PhasesOK, PhaseOK
  <2>2. q = r /\ req'[r].member = req[r].member
    BY <1>4, <1>g DEF Unauthorized, Request
  <2>3. QED
    BY <2>1, <2>2
<1>5. ASSUME NEW r \in Requests, NEW status \in Statuses, Respond(r, status) PROVE FALSE
  BY <1>5, <1>g, <1>a DEF Respond
<1>6. ASSUME NEW m \in Members, RefreshStore(m) \/ Expire(m) \/ Replace(m)
                                \/ ReplaceSaved(m) \/ ReplaceFails(m)
      PROVE  FALSE
  BY <1>6 DEF RefreshStore, Expire, Replace, ReplaceSaved, ReplaceFails
<1>7. ASSUME NEW m \in Members, RefreshSaved(m) \/ RefreshFails(m) PROVE FALSE
  <2>1. CASE RefreshSaved(m)
    BY <2>1, <1>g DEF RefreshSaved, Request
  <2>2. CASE RefreshFails(m)
    BY <2>2, <1>a DEF RefreshFails
  <2>3. QED
    BY <1>7, <2>1, <2>2
<1>8. ASSUME Tick PROVE FALSE
  BY <1>8, <1>g DEF Tick, Request
<1>9. QED
  BY <1>1, <1>2, <1>3, <1>4, <1>5, <1>6, <1>7, <1>8 DEF Next

\* A refresh ends only by settling those who wait for it.
LEMMA RefreshEnds ==
    ASSUME TInv, Next, NEW m \in Members, flight[m].phase # "none",
           flight'[m].phase = "none"
    PROVE  \A q \in Requests : ~Waits(q, m)'
<1>g. req \in [Requests -> Request]
  BY DEF TInv, TypeOK
<1>a. ASSUME NEW r \in Requests, NEW n PROVE Answered(req[r], n).phase = "done"
  BY <1>g DEF Answered, Released, Request
<1>f. flight \in [Members -> [phase : {"none", "asked", "saving"}, token : Token]]
  BY DEF TInv, TypeOK
<1>1. ASSUME NEW r \in Requests, NEW kind \in {"messages", "models"},
             NEW s \in Sessions \cup {None}, Start(r, kind, s)
      PROVE  FALSE
  BY <1>1, StartStep, JoinGives
<1>2. ASSUME NEW r \in Requests,
             \/ AwaitPacing(r) \/ PacingDone(r) \/ PrepareFails(r) \/ FetchFails(r)
      PROVE  FALSE
  BY <1>2 DEF AwaitPacing, PacingDone, PrepareFails, FetchFails
<1>3. ASSUME NEW r \in Requests, Unauthorized(r) PROVE FALSE
  <2>1. req[r].member \in Members /\ JoinOrLaunch(req[r].member)
    BY <1>3 DEF Unauthorized, TInv, PhasesOK, PhaseOK
  <2>2. QED
    BY <2>1, JoinGives
<1>4. ASSUME NEW r \in Requests, NEW status \in Statuses, Respond(r, status) PROVE FALSE
  BY <1>4 DEF Respond
<1>5. ASSUME NEW n \in Members, RefreshStore(n) \/ Expire(n) \/ Replace(n)
                                \/ ReplaceSaved(n) \/ ReplaceFails(n)
      PROVE  FALSE
  BY <1>5, <1>f DEF RefreshStore, Expire, Replace, ReplaceSaved, ReplaceFails
<1>6. ASSUME NEW n \in Members, RefreshSaved(n) \/ RefreshFails(n)
      PROVE  \A q \in Requests : ~Waits(q, m)'
  <2>1. n = m
    BY <1>6, <1>f DEF RefreshSaved, RefreshFails
  <2>2. ASSUME NEW q \in Requests PROVE ~Waits(q, m)'
    <3>1. CASE RefreshSaved(m)
      BY <3>1, <1>g DEF RefreshSaved, Waits, Request
    <3>2. CASE RefreshFails(m)
      BY <3>2, <1>a DEF RefreshFails, Waits
    <3>3. QED
      BY <1>6, <2>1, <3>1, <3>2
  <2>3. QED
    BY <2>2
<1>7. ASSUME Tick PROVE FALSE
  BY <1>7 DEF Tick
<1>8. QED
  BY <1>1, <1>2, <1>3, <1>4, <1>5, <1>6, <1>7 DEF Next

\* No request waits for a refresh that is gone (ensureFresh's shared promise).
THEOREM WaitersAreServed == Spec => []WaitersHaveRefresh
<1>1. Init => WaitersHaveRefresh
  BY DEF Init, WaitersHaveRefresh, Waits, NewRequest
<1>2. TInv /\ WaitersHaveRefresh /\ [Next]_vars => WaitersHaveRefresh'
  <2> SUFFICES ASSUME TInv, WaitersHaveRefresh, [Next]_vars,
                      NEW q \in Requests, NEW m \in Members, Waits(q, m)'
               PROVE  flight'[m].phase # "none"
    BY DEF WaitersHaveRefresh
  <2>1. CASE Next /\ req'[q].phase # req[q].phase
    BY <2>1, WaitersBegin, JoinGives DEF Waits
  <2>2. CASE Next /\ req'[q].phase = req[q].phase
    <3>1. req'[q].member = req[q].member
      <4>1. CASE \E r \in Requests, kind \in {"messages", "models"},
                    s \in Sessions \cup {None} : Start(r, kind, s)
        BY <2>2, <4>1, StartStep DEF Waits
      <4>2. QED
        BY <2>2, <4>1, RouteKept
    <3>2. flight[m].phase # "none"
      BY <2>2, <3>1 DEF Waits, WaitersHaveRefresh
    <3>3. QED
      BY <2>2, <3>2, RefreshEnds
  <2>3. CASE UNCHANGED vars
    BY <2>3 DEF vars, Waits, WaitersHaveRefresh
  <2>4. QED
    BY <2>1, <2>2, <2>3
<1>3. QED
  BY <1>1, <1>2, InitTypes, NextTypes, PTL DEF Spec

-----------------------------------------------------------------------------
(* Pacing.                                                                  *)

\* A request that waits without being overtaken waits for exactly the rest of
\* its session's gap.
OnTime ==
    \A r \in Requests :
        req[r].phase = "paced" /\ req[r].overtaken = "no"
        => age[req[r].session] + req[r].wait = MinGap


\* Only pacing makes a request wait for the gap or sends it, and only pacing
\* and the clock move the ages.
LEMMA OnlyPacingSends ==
    ASSUME TInv, Next, ~Tick, ~\E r \in Requests : AwaitPacing(r) \/ PacingDone(r)
    PROVE  /\ UNCHANGED age
           /\ \A q \in Requests : /\ req'[q].phase = "paced" => req'[q] = req[q]
                                  /\ req'[q].phase = "sent" => req[q].phase = "sent"
<1>g. req \in [Requests -> Request]
  BY DEF TInv, TypeOK
<1>a. ASSUME NEW r \in Requests, NEW n PROVE Answered(req[r], n).phase = "done"
  BY <1>g DEF Answered, Released, Request
<1>1. ASSUME NEW r \in Requests, NEW kind \in {"messages", "models"},
             NEW s \in Sessions \cup {None}, Start(r, kind, s)
      PROVE  /\ UNCHANGED age
             /\ \A q \in Requests : /\ req'[q].phase = "paced" => req'[q] = req[q]
                                    /\ req'[q].phase = "sent" => req[q].phase = "sent"
  <2>1. UNCHANGED age
    BY <1>1 DEF Start
  <2>2. QED
    BY <1>1, <2>1, StartStep
<1>2. ASSUME NEW r \in Requests, PrepareFails(r) \/ FetchFails(r)
      PROVE  /\ UNCHANGED age
             /\ \A q \in Requests : /\ req'[q].phase = "paced" => req'[q] = req[q]
                                    /\ req'[q].phase = "sent" => req[q].phase = "sent"
  BY <1>2, <1>g, <1>a DEF PrepareFails, FetchFails
<1>3. ASSUME NEW r \in Requests, Unauthorized(r)
      PROVE  /\ UNCHANGED age
             /\ \A q \in Requests : /\ req'[q].phase = "paced" => req'[q] = req[q]
                                    /\ req'[q].phase = "sent" => req[q].phase = "sent"
  BY <1>3, <1>g DEF Unauthorized, Request
<1>4. ASSUME NEW r \in Requests, NEW status \in Statuses, Respond(r, status)
      PROVE  /\ UNCHANGED age
             /\ \A q \in Requests : /\ req'[q].phase = "paced" => req'[q] = req[q]
                                    /\ req'[q].phase = "sent" => req[q].phase = "sent"
  BY <1>4, <1>g, <1>a DEF Respond
<1>5. ASSUME NEW m \in Members, RefreshStore(m) \/ Expire(m) \/ Replace(m)
                                \/ ReplaceSaved(m) \/ ReplaceFails(m)
      PROVE  UNCHANGED age /\ UNCHANGED req
  BY <1>5 DEF RefreshStore, Expire, Replace, ReplaceSaved, ReplaceFails
<1>6. ASSUME NEW m \in Members, RefreshSaved(m)
      PROVE  /\ UNCHANGED age
             /\ \A q \in Requests : /\ req'[q].phase = "paced" => req'[q] = req[q]
                                    /\ req'[q].phase = "sent" => req[q].phase = "sent"
  BY <1>6, <1>g DEF RefreshSaved, Request
<1>7. ASSUME NEW m \in Members, RefreshFails(m)
      PROVE  /\ UNCHANGED age
             /\ \A q \in Requests : /\ req'[q].phase = "paced" => req'[q] = req[q]
                                    /\ req'[q].phase = "sent" => req[q].phase = "sent"
  BY <1>7, <1>a DEF RefreshFails
<1>8. QED
  BY <1>1, <1>2, <1>3, <1>4, <1>5, <1>6, <1>7 DEF Next

\* A send leaves on time whom it does not overtake.
LEMMA SendOnTime ==
    ASSUME TInv, OnTime, NEW r \in Requests, Send(r)
    PROVE  OnTime'
<1>g. req \in [Requests -> Request] /\ age \in [Sessions -> 0..MinGap]
  BY DEF TInv, TypeOK
<1> SUFFICES ASSUME NEW q \in Requests, req'[q].phase = "paced", req'[q].overtaken = "no"
             PROVE  age'[req'[q].session] + req'[q].wait = MinGap
  BY DEF OnTime
<1>1. req'[r].phase = "sent"
  BY <1>g DEF Send, Request
<1>2. req'[q] = req[q]
  BY <1>g, <1>1 DEF Send, Request
<1>3. req[q].session \in Sessions
  BY <1>g, <1>2 DEF TInv, PhasesOK, PhaseOK, Request
<1>4. ~(Paced(r) /\ req[q].session = req[r].session)
  BY <1>g, <1>1, <1>2 DEF Send, Request
<1>5. age'[req[q].session] = age[req[q].session]
  BY <1>g, <1>3, <1>4 DEF Send
<1>6. QED
  BY <1>2, <1>5 DEF OnTime

LEMMA NextOnTime == TInv /\ OnTime /\ [Next]_vars => OnTime'
<1> SUFFICES ASSUME TInv, OnTime, [Next]_vars PROVE OnTime'
  OBVIOUS
<1>g. req \in [Requests -> Request] /\ age \in [Sessions -> 0..MinGap]
  BY DEF TInv, TypeOK
<1>1. ASSUME NEW r \in Requests, AwaitPacing(r) PROVE OnTime'
  <2>1. CASE Remaining(r) > 0 /\ UNCHANGED age /\
             req' = [req EXCEPT ![r].phase = "paced", ![r].wait = Remaining(r),
                                ![r].overtaken = "no"]
    <3>1. /\ \A q \in Requests : q # r => req'[q] = req[q]
          /\ req'[r].wait = Remaining(r) /\ req'[r].session = req[r].session
      BY <1>g, <2>1 DEF Request
    <3>2. age[req[r].session] + Remaining(r) = MinGap
      BY <1>g, <2>1, UpstreamAssumption DEF Remaining, Paced, Request
    <3>3. QED
      BY <2>1, <3>1, <3>2 DEF OnTime
  <2>2. QED
    BY <1>1, <2>1, SendOnTime DEF AwaitPacing
<1>2. ASSUME NEW r \in Requests, PacingDone(r) PROVE OnTime'
  BY <1>2, SendOnTime DEF PacingDone
<1>3. ASSUME Tick PROVE OnTime'
  <2> SUFFICES ASSUME NEW q \in Requests, req'[q].phase = "paced", req'[q].overtaken = "no"
               PROVE  age'[req'[q].session] + req'[q].wait = MinGap
    BY DEF OnTime
  <2>1. /\ req'[q].phase = req[q].phase /\ req'[q].overtaken = req[q].overtaken
        /\ req'[q].session = req[q].session
        /\ req'[q].wait = IF req[q].wait > 0 THEN req[q].wait - 1 ELSE req[q].wait
    BY <1>3, <1>g DEF Tick, Request
  <2>2. req[q].session \in Sessions /\ req[q].wait \in 0..MinGap
    BY <1>g, <2>1 DEF TInv, PhasesOK, PhaseOK, Request
  <2>3. age[req[q].session] + req[q].wait = MinGap
    BY <2>1 DEF OnTime
  <2>4. age'[req[q].session] =
           IF age[req[q].session] < MinGap THEN age[req[q].session] + 1 ELSE MinGap
    BY <1>3, <2>2 DEF Tick
  <2>5. QED
    BY <1>g, <2>1, <2>2, <2>3, <2>4, UpstreamAssumption
<1>4. CASE Next /\ ~Tick /\ ~\E r \in Requests : AwaitPacing(r) \/ PacingDone(r)
  BY <1>4, OnlyPacingSends DEF OnTime
<1>5. CASE UNCHANGED vars
  BY <1>5 DEF vars, OnTime
<1>6. QED
  BY <1>1, <1>2, <1>3, <1>4, <1>5

\* Whoever waits without being overtaken goes out at least the gap after the
\* last send of its session (pacing.await).
THEOREM PacingHolds == Spec => SpacedUnlessOvertaken
<1>1. Init => OnTime
  BY DEF Init, OnTime, NewRequest
<1>2. Spec => [](TInv /\ OnTime)
  BY <1>1, InitTypes, NextTypes, NextOnTime, PTL DEF Spec
<1>3. ASSUME TInv, OnTime, [Next]_vars, NEW r \in Requests,
             req[r].phase # "sent", req'[r].phase = "sent", Paced(r),
             req[r].phase = "paced" => req[r].overtaken = "no"
      PROVE  age[req[r].session] = MinGap
  <2>g. req \in [Requests -> Request] /\ age \in [Sessions -> 0..MinGap]
    BY <1>3 DEF TInv, TypeOK
  <2>s. req[r].session \in Sessions
    BY <2>g, <1>3 DEF Paced, Request
  <2>1. ASSUME NEW q \in Requests, AwaitPacing(q) PROVE age[req[r].session] = MinGap
    <3>1. q = r
      BY <1>3, <2>1, <2>g DEF AwaitPacing, Send, Request
    <3>2. Remaining(r) = 0
      BY <1>3, <2>1, <2>g, <3>1 DEF AwaitPacing, Request
    <3>3. QED
      BY <1>3, <2>g, <2>s, <3>2, UpstreamAssumption DEF Remaining
  <2>2. ASSUME NEW q \in Requests, PacingDone(q) PROVE age[req[r].session] = MinGap
    <3>1. q = r
      BY <1>3, <2>2, <2>g DEF PacingDone, Send, Request
    <3>2. req[r].phase = "paced" /\ req[r].wait = 0
      BY <2>2, <3>1 DEF PacingDone
    <3>3. age[req[r].session] + 0 = MinGap
      BY <1>3, <3>2 DEF OnTime
    <3>4. QED
      BY <2>g, <2>s, <3>3
  <2>3. CASE Tick
    BY <1>3, <2>3, <2>g DEF Tick, Request
  <2>4. CASE UNCHANGED vars
    BY <1>3, <2>4 DEF vars
  <2>5. QED
    BY <1>3, <2>1, <2>2, <2>3, <2>4, OnlyPacingSends
<1>4. TInv /\ OnTime /\ [Next]_vars =>
        [\A r \in Requests :
            /\ req[r].phase # "sent" /\ req'[r].phase = "sent" /\ Paced(r)
            /\ req[r].phase = "paced" => req[r].overtaken = "no"
            => age[req[r].session] = MinGap]_vars
  BY <1>3
<1>5. QED
  BY <1>2, <1>4, PTL DEF Spec, SpacedUnlessOvertaken

-----------------------------------------------------------------------------
(* A retry carries a new token.                                             *)

\* A token k of member m is not ahead of what the manager holds, nor of what
\* its refresh in flight was asked or answered with.
Behind(k, m) ==
    /\ k.login <= issued[m]
    /\ k.login = held[m].login => k.gen <= held[m].gen
    /\ flight[m].phase # "none" /\ k.login = flight[m].token.login
       => k.gen <= flight[m].token.gen

TokensBehind ==
    \A r \in Requests, m \in Members :
        req[r].member = m => Behind(req[r].token, m) /\ Behind(req[r].rejected, m)

\* The manager holds the token of its refresh in flight, or another login.
HeldIsCurrent ==
    \A m \in Members :
        /\ held[m].login <= issued[m]
        /\ flight[m].phase # "none" =>
              /\ flight[m].token.login <= issued[m]
              /\ held[m].login = flight[m].token.login => held[m] = flight[m].token

\* What a waiting retry will get from a refresh that is being saved is not
\* what was rejected.
RetryWillDiffer ==
    \A r \in Requests, m \in Members :
        /\ req[r].phase = "awaitRefresh" /\ req[r].member = m /\ req[r].late = "no"
        /\ flight[m].phase = "saving"
        => flight[m].token # req[r].rejected

\* What a step does to a request, as far as its tokens go: nothing, the
\* answer, the start, a first 401, or the end of a refresh.
InHand == {"template", "paced", "sent"}

KeepsTokens(q) ==
    /\ req'[q].member = req[q].member /\ req'[q].attempt = req[q].attempt
    /\ req'[q].token = req[q].token /\ req'[q].rejected = req[q].rejected
    /\ req'[q].late = req[q].late
    /\ req'[q].phase = req[q].phase \/ (req[q].phase \in InHand /\ req'[q].phase \in InHand)

Finishes(q) ==
    /\ req'[q].phase = "done" /\ req'[q].member = req[q].member
    /\ req'[q].token = NoToken /\ req'[q].rejected = NoToken

Starts(q) ==
    /\ req'[q].phase \in {"template", "awaitToken"} /\ req'[q].attempt = 1
    /\ req'[q].member \in Members /\ req'[q].rejected = NoToken
    /\ req'[q].token \in {held[req'[q].member], NoToken}

IsRejected(q) ==
    /\ req'[q].phase = "awaitRefresh" /\ req'[q].member = req[q].member
    /\ req[q].member \in Members
    /\ req'[q].token = req[q].token /\ req'[q].rejected = req[q].token
    /\ req'[q].late = "no"
       => flight[req[q].member] # [phase |-> "saving", token |-> req[q].token]
    /\ JoinOrLaunch(req[q].member)

IsServed(q) ==
    /\ req[q].phase \in {"awaitToken", "awaitRefresh"} /\ req'[q].phase = "template"
    /\ req[q].member \in Members /\ flight[req[q].member].phase = "saving"
    /\ req'[q].token = flight[req[q].member].token
    /\ req'[q].member = req[q].member /\ req'[q].attempt = req[q].attempt
    /\ req'[q].rejected = req[q].rejected /\ req'[q].late = req[q].late

RequestMoves(q) ==
    KeepsTokens(q) \/ Finishes(q) \/ Starts(q) \/ IsRejected(q) \/ IsServed(q)

LEMMA RequestsMove == TInv /\ [Next]_vars => \A q \in Requests : RequestMoves(q)
<1> SUFFICES ASSUME TInv, [Next]_vars, NEW q \in Requests PROVE RequestMoves(q)
  OBVIOUS
<1>g. req \in [Requests -> Request] /\ req[q] \in Request
  BY DEF TInv, TypeOK
<1>a. ASSUME NEW r \in Requests, NEW n, req'[r] = Answered(req[r], n) PROVE Finishes(r)
  BY <1>a, <1>g DEF Answered, Released, Request, Finishes
<1>k. ASSUME req'[q] = req[q] PROVE KeepsTokens(q)
  BY <1>k DEF KeepsTokens
<1>1. ASSUME NEW r \in Requests, NEW kind \in {"messages", "models"},
             NEW s \in Sessions \cup {None}, Start(r, kind, s)
      PROVE  RequestMoves(q)
  <2>1. req'[q] = req[q] \/ Starts(q)
    BY <1>1, StartStep DEF Starts
  <2>2. QED
    BY <2>1, <1>k DEF RequestMoves
<1>2. ASSUME NEW r \in Requests, Send(r), req[r].phase \in InHand
      PROVE  KeepsTokens(q)
  BY <1>2, <1>g DEF Send, KeepsTokens, Request, InHand
<1>3. ASSUME NEW r \in Requests, AwaitPacing(r) PROVE RequestMoves(q)
  <2>1. req[r].phase = "template"
    BY <1>3 DEF AwaitPacing
  <2>2. CASE Send(r)
    BY <1>2, <2>1, <2>2 DEF InHand, RequestMoves
  <2>3. CASE req' = [req EXCEPT ![r].phase = "paced", ![r].wait = Remaining(r),
                                ![r].overtaken = "no"]
    BY <1>g, <2>1, <2>3 DEF KeepsTokens, RequestMoves, InHand, Request
  <2>4. QED
    BY <1>3, <2>2, <2>3 DEF AwaitPacing
<1>4. ASSUME NEW r \in Requests, PacingDone(r) PROVE RequestMoves(q)
  BY <1>4, <1>2 DEF PacingDone, InHand, RequestMoves
<1>5. ASSUME NEW r \in Requests, PrepareFails(r) \/ FetchFails(r) PROVE RequestMoves(q)
  <2>1. PICK n : req' = [req EXCEPT ![r] = Answered(req[r], n)]
    BY <1>5 DEF PrepareFails, FetchFails
  <2>2. QED
    BY <2>1, <1>g, <1>a, <1>k DEF RequestMoves
<1>6. ASSUME NEW r \in Requests, Unauthorized(r) PROVE RequestMoves(q)
  <2>1. CASE q # r
    BY <1>6, <2>1, <1>g, <1>k DEF Unauthorized, RequestMoves
  <2>2. CASE q = r
    <3>1. req[q].phase = "sent" /\ req[q].member \in Members
      BY <1>6, <2>2 DEF Unauthorized, TInv, PhasesOK, PhaseOK
    <3>2. JoinOrLaunch(req[q].member)
      BY <1>6, <2>2 DEF Unauthorized
    <3>3. /\ req'[q].phase = "awaitRefresh" /\ req'[q].member = req[q].member
          /\ req'[q].token = req[q].token /\ req'[q].rejected = req[q].token
          /\ req'[q].late = IF flight[req[q].member] =
                                 [phase |-> "saving", token |-> req[q].token]
                            THEN "yes" ELSE "no"
      BY <1>6, <2>2, <1>g DEF Unauthorized, Request
    <3>4. QED
      BY <3>1, <3>2, <3>3 DEF IsRejected, RequestMoves
  <2>3. QED
    BY <2>1, <2>2
<1>7. ASSUME NEW r \in Requests, NEW status \in Statuses, Respond(r, status)
      PROVE  RequestMoves(q)
  <2>1. PICK n : req' = [req EXCEPT ![r] = Answered(req[r], n)]
    BY <1>7 DEF Respond
  <2>2. QED
    BY <2>1, <1>g, <1>a, <1>k DEF RequestMoves
<1>8. ASSUME NEW m \in Members, RefreshStore(m) \/ Expire(m) \/ Replace(m)
                                \/ ReplaceSaved(m) \/ ReplaceFails(m)
      PROVE  RequestMoves(q)
  <2>1. req' = req
    BY <1>8 DEF RefreshStore, Expire, Replace, ReplaceSaved, ReplaceFails
  <2>2. QED
    BY <2>1, <1>k DEF RequestMoves
<1>9. ASSUME NEW m \in Members, RefreshSaved(m) PROVE RequestMoves(q)
  <2>1. CASE Waits(q, m)
    BY <1>9, <2>1, <1>g DEF RefreshSaved, Waits, IsServed, RequestMoves, Request
  <2>2. CASE ~Waits(q, m)
    BY <1>9, <2>2, <1>k DEF RefreshSaved, RequestMoves
  <2>3. QED
    BY <2>1, <2>2
<1>10. ASSUME NEW m \in Members, RefreshFails(m) PROVE RequestMoves(q)
  <2>1. req'[q] = Answered(req[q], req[q].acted) \/ req'[q] = req[q]
    BY <1>10 DEF RefreshFails
  <2>2. QED
    BY <2>1, <1>a, <1>k DEF RequestMoves
<1>11. ASSUME Tick PROVE RequestMoves(q)
  BY <1>11, <1>g DEF Tick, KeepsTokens, RequestMoves, Request
<1>12. CASE UNCHANGED vars
  BY <1>12, <1>k DEF vars, RequestMoves
<1>13. QED
  BY <1>1, <1>3, <1>4, <1>5, <1>6, <1>7, <1>8, <1>9, <1>10, <1>11, <1>12 DEF Next

\* What a step does to a manager: nothing, a launch, the end of a refresh, the
\* new token of one, or a new login.
KeepsMember(m) == held'[m] = held[m] /\ flight'[m] = flight[m] /\ issued'[m] = issued[m]

Launches(m) ==
    /\ flight[m].phase = "none" /\ flight'[m] = [phase |-> "asked", token |-> held[m]]
    /\ held'[m] = held[m] /\ issued'[m] = issued[m]

Lands(m) == flight'[m] = NoFlight /\ held'[m] = held[m] /\ issued'[m] = issued[m]

Stores(m) ==
    /\ flight[m].phase = "asked" /\ flight'[m] = [phase |-> "saving", token |-> held'[m]]
    /\ held'[m] = [flight[m].token EXCEPT !.gen = @ + 1]
    /\ issued'[m] = issued[m]

Logs(m) ==
    /\ issued'[m] = issued[m] + 1 /\ held'[m] = [login |-> issued[m] + 1, gen |-> 0]
    /\ flight'[m] = flight[m]

MemberMoves(m) == KeepsMember(m) \/ Launches(m) \/ Lands(m) \/ Stores(m) \/ Logs(m)

LEMMA MembersMove == TInv /\ [Next]_vars => \A m \in Members : MemberMoves(m)
<1> SUFFICES ASSUME TInv, [Next]_vars, NEW m \in Members PROVE MemberMoves(m)
  OBVIOUS
<1>g. /\ held \in [Members -> Token] /\ issued \in [Members -> 0..MaxReplace]
      /\ flight \in [Members -> [phase : {"none", "asked", "saving"}, token : Token]]
  BY DEF TInv, TypeOK
<1>k. ASSUME UNCHANGED <<held, flight, issued>> PROVE MemberMoves(m)
  BY <1>k DEF MemberMoves, KeepsMember
<1>j. ASSUME NEW n \in Members, JoinOrLaunch(n), UNCHANGED <<held, issued>>
      PROVE  MemberMoves(m)
  BY <1>j, <1>g DEF JoinOrLaunch, MemberMoves, KeepsMember, Launches
<1>1. ASSUME NEW r \in Requests, NEW kind \in {"messages", "models"},
             NEW s \in Sessions \cup {None}, Start(r, kind, s)
      PROVE  MemberMoves(m)
  <2>1. UNCHANGED <<held, issued>>
    BY <1>1 DEF Start
  <2>2. UNCHANGED flight \/ \E n \in Members : JoinOrLaunch(n)
    BY <1>1, StartStep
  <2>3. QED
    BY <2>1, <2>2, <1>k, <1>j
<1>2. ASSUME NEW r \in Requests,
             \/ AwaitPacing(r) \/ PacingDone(r) \/ PrepareFails(r) \/ FetchFails(r)
             \/ \E status \in Statuses : Respond(r, status)
      PROVE  MemberMoves(m)
  BY <1>2, <1>k DEF AwaitPacing, PacingDone, PrepareFails, FetchFails, Respond
<1>3. ASSUME NEW r \in Requests, Unauthorized(r) PROVE MemberMoves(m)
  <2>1. req[r].member \in Members /\ JoinOrLaunch(req[r].member)
    BY <1>3 DEF Unauthorized, TInv, PhasesOK, PhaseOK
  <2>2. QED
    BY <1>3, <2>1, <1>j DEF Unauthorized
<1>4. ASSUME NEW n \in Members, RefreshStore(n) PROVE MemberMoves(m)
  BY <1>4, <1>g DEF RefreshStore, MemberMoves, KeepsMember, Stores
<1>5. ASSUME NEW n \in Members, RefreshSaved(n) \/ RefreshFails(n) PROVE MemberMoves(m)
  BY <1>5, <1>g DEF RefreshSaved, RefreshFails, MemberMoves, KeepsMember, Lands
<1>6. ASSUME NEW n \in Members, Expire(n) \/ ReplaceSaved(n) \/ ReplaceFails(n)
      PROVE  MemberMoves(m)
  BY <1>6, <1>k DEF Expire, ReplaceSaved, ReplaceFails
<1>7. ASSUME NEW n \in Members, Replace(n) PROVE MemberMoves(m)
  BY <1>7, <1>g DEF Replace, MemberMoves, KeepsMember, Logs
<1>8. ASSUME Tick PROVE MemberMoves(m)
  BY <1>8, <1>k DEF Tick
<1>9. CASE UNCHANGED vars
  BY <1>9, <1>k DEF vars
<1>10. QED
  BY <1>1, <1>2, <1>3, <1>4, <1>5, <1>6, <1>7, <1>8, <1>9 DEF Next

LEMMA MemberTypes ==
    ASSUME TInv, NEW m \in Members
    PROVE  /\ held[m] \in Token /\ issued[m] \in Nat
           /\ flight[m] \in [phase : {"none", "asked", "saving"}, token : Token]
BY UpstreamAssumption DEF TInv, TypeOK

\* A token stays behind whatever its manager does.
LEMMA BehindKept ==
    ASSUME TInv, NEW m \in Members, MemberMoves(m), NEW k \in Token, Behind(k, m)
    PROVE  Behind(k, m)'
<1>1. CASE KeepsMember(m)
  BY <1>1 DEF KeepsMember, Behind
<1>2. CASE Launches(m)
  BY <1>2, MemberTypes DEF Launches, Behind, Token
<1>3. CASE Lands(m)
  BY <1>3, MemberTypes DEF Lands, Behind, NoFlight
<1>4. CASE Stores(m)
  BY <1>4, MemberTypes DEF Stores, Behind, Token
<1>5. CASE Logs(m)
  BY <1>5, MemberTypes DEF Logs, Behind, Token
<1>6. QED
  BY <1>1, <1>2, <1>3, <1>4, <1>5 DEF MemberMoves

LEMMA NextHeld == TInv /\ HeldIsCurrent /\ [Next]_vars => HeldIsCurrent'
<1> SUFFICES ASSUME TInv, HeldIsCurrent, [Next]_vars, NEW m \in Members
             PROVE  /\ held'[m].login <= issued'[m]
                    /\ flight'[m].phase # "none" =>
                          /\ flight'[m].token.login <= issued'[m]
                          /\ held'[m].login = flight'[m].token.login
                             => held'[m] = flight'[m].token
  BY DEF HeldIsCurrent
<1>1. CASE KeepsMember(m)
  BY <1>1 DEF KeepsMember, HeldIsCurrent
<1>2. CASE Launches(m)
  BY <1>2 DEF Launches, HeldIsCurrent
<1>3. CASE Lands(m)
  BY <1>3 DEF Lands, HeldIsCurrent, NoFlight
<1>4. CASE Stores(m)
  BY <1>4, MemberTypes DEF Stores, HeldIsCurrent, Token
<1>5. CASE Logs(m)
  BY <1>5, MemberTypes DEF Logs, HeldIsCurrent, Token
<1>6. QED
  BY <1>1, <1>2, <1>3, <1>4, <1>5, MembersMove DEF MemberMoves

\* The tokens a request may take are behind.
LEMMA SourcesBehind ==
    ASSUME TInv, HeldIsCurrent, NEW m \in Members
    PROVE  /\ Behind(NoToken, m) /\ Behind(held[m], m)
           /\ flight[m].phase # "none" => Behind(flight[m].token, m)
<1>1. Behind(NoToken, m)
  BY MemberTypes DEF Behind, NoToken, Token
<1>2. Behind(held[m], m)
  BY MemberTypes DEF Behind, HeldIsCurrent, Token
<1>3. flight[m].phase # "none" => Behind(flight[m].token, m)
  BY MemberTypes DEF Behind, HeldIsCurrent, Token
<1>4. QED
  BY <1>1, <1>2, <1>3

LEMMA NextBehind == TInv /\ HeldIsCurrent /\ TokensBehind /\ [Next]_vars => TokensBehind'
<1> SUFFICES ASSUME TInv, HeldIsCurrent, TokensBehind, [Next]_vars,
                    NEW q \in Requests, NEW m \in Members, req'[q].member = m
             PROVE  Behind(req[q].token, m)' /\ Behind(req[q].rejected, m)'
  BY DEF TokensBehind
<1>1. Behind(req'[q].token, m) /\ Behind(req'[q].rejected, m)
  <2>1. CASE KeepsTokens(q)
    BY <2>1 DEF KeepsTokens, TokensBehind
  <2>2. CASE Finishes(q)
    BY <2>2, SourcesBehind DEF Finishes
  <2>3. CASE Starts(q)
    BY <2>3, SourcesBehind DEF Starts
  <2>4. CASE IsRejected(q)
    BY <2>4 DEF IsRejected, TokensBehind
  <2>5. CASE IsServed(q)
    BY <2>5, SourcesBehind DEF IsServed, TokensBehind
  <2>6. QED
    BY <2>1, <2>2, <2>3, <2>4, <2>5, RequestsMove DEF RequestMoves
<1>2. req'[q].token \in Token /\ req'[q].rejected \in Token
  BY NextTypes DEF TInv, TypeOK, Request
<1>3. \A k \in Token : Behind(k, m) => Behind(k, m)'
  BY MembersMove, BehindKept
<1>4. QED
  BY <1>1, <1>2, <1>3 DEF Behind

LEMMA NextDiffers ==
    TInv /\ TokensBehind /\ RetryWillDiffer /\ [Next]_vars => RetryWillDiffer'
<1> SUFFICES ASSUME TInv, TokensBehind, RetryWillDiffer, [Next]_vars,
                    NEW q \in Requests, NEW m \in Members,
                    req'[q].phase = "awaitRefresh", req'[q].member = m,
                    req'[q].late = "no", flight'[m].phase = "saving"
             PROVE  flight'[m].token # req'[q].rejected
  BY DEF RetryWillDiffer
<1>1. CASE KeepsTokens(q)
  <2>1. req[q].phase = "awaitRefresh" /\ req[q].member = m /\ req[q].late = "no"
    BY <1>1 DEF KeepsTokens, InHand
  <2>2. CASE Stores(m)
    <3>1. Behind(req[q].rejected, m) /\ req[q].rejected \in Token
      BY <2>1 DEF TokensBehind, TInv, TypeOK, Request
    <3>2. QED
      BY <1>1, <2>2, <3>1, MemberTypes DEF KeepsTokens, Stores, Behind, Token
  <2>3. CASE KeepsMember(m) \/ Logs(m)
    BY <1>1, <2>1, <2>3 DEF KeepsTokens, KeepsMember, Logs, RetryWillDiffer
  <2>4. ~Launches(m) /\ ~Lands(m)
    BY DEF Launches, Lands, NoFlight
  <2>5. QED
    BY <2>2, <2>3, <2>4, MembersMove DEF MemberMoves
<1>2. CASE IsRejected(q)
  <2>1. m = req[q].member /\ JoinOrLaunch(m)
    BY <1>2 DEF IsRejected
  <2>2. flight[m].phase # "none"
    BY <2>1 DEF JoinOrLaunch, TInv, TypeOK
  <2>3. flight'[m] = flight[m]
    BY <2>1, <2>2 DEF JoinOrLaunch
  <2>4. QED
    BY <1>2, <2>1, <2>3, MemberTypes DEF IsRejected
<1>3. QED
  BY <1>1, <1>2, RequestsMove DEF RequestMoves, Finishes, Starts, IsServed

LEMMA NextRetry ==
    TInv /\ RetryWillDiffer /\ RetryHasNewToken /\ [Next]_vars => RetryHasNewToken'
<1> SUFFICES ASSUME TInv, RetryWillDiffer, RetryHasNewToken, [Next]_vars,
                    NEW q \in Requests, req'[q].attempt = 2, req'[q].phase \in InHand,
                    req'[q].late # "yes"
             PROVE  req'[q].token # req'[q].rejected
  BY DEF RetryHasNewToken, InHand
<1>0. req'[q].late = "no"
  BY NextTypes DEF TInv, TypeOK, Request
<1>1. CASE KeepsTokens(q)
  BY <1>1 DEF KeepsTokens, RetryHasNewToken, InHand
<1>2. CASE IsServed(q)
  <2>1. req[q].phase = "awaitRefresh"
    BY <1>2 DEF IsServed, TInv, PhasesOK, PhaseOK
  <2>2. QED
    BY <1>0, <1>2, <2>1 DEF IsServed, RetryWillDiffer
<1>3. ~Finishes(q) /\ ~Starts(q) /\ ~IsRejected(q)
  BY DEF Finishes, Starts, IsRejected, InHand
<1>4. QED
  BY <1>1, <1>2, <1>3, RequestsMove DEF RequestMoves

\* After a 401 the second attempt carries another token than the one just
\* rejected, unless it joined the very refresh that token came from
\* (forceRefresh, through ensureFresh).
THEOREM RetriesCarryNewTokens == Spec => []RetryHasNewToken
<1> DEFINE Inv == /\ TInv /\ HeldIsCurrent /\ TokensBehind /\ RetryWillDiffer
                  /\ RetryHasNewToken
<1>1. Init => Inv
  <2> SUFFICES ASSUME Init PROVE Inv
    OBVIOUS
  <2>1. \A r \in Requests : req[r] = NewRequest
    BY DEF Init
  <2>2. HeldIsCurrent
    BY DEF Init, HeldIsCurrent, NoToken, NoFlight
  <2>3. TokensBehind
    BY <2>1, <2>2, InitTypes, SourcesBehind DEF TokensBehind, NewRequest
  <2>4. RetryWillDiffer /\ RetryHasNewToken
    BY <2>1 DEF RetryWillDiffer, RetryHasNewToken, NewRequest
  <2>5. QED
    BY <2>2, <2>3, <2>4, InitTypes
<1>2. Inv /\ [Next]_vars => Inv'
  BY NextTypes, NextHeld, NextBehind, NextDiffers, NextRetry
<1>3. QED
  BY <1>1, <1>2, PTL DEF Spec
-----------------------------------------------------------------------------
(* Each member is a TokenSource.                                            *)

\* A refresh that is over leaves nothing of its token.
NothingLeft == \A m \in Members : flight[m].phase = "none" => flight[m] = NoFlight

LEMMA NextNothingLeft == TInv /\ NothingLeft /\ [Next]_vars => NothingLeft'
<1> SUFFICES ASSUME TInv, NothingLeft, [Next]_vars, NEW m \in Members, flight'[m].phase = "none"
             PROVE  flight'[m] = NoFlight
  BY DEF NothingLeft
<1>1. MemberMoves(m)
  BY MembersMove
<1> QED
  BY <1>1 DEF MemberMoves, KeepsMember, Launches, Lands, Stores, Logs, NothingLeft

\* A request that waited for nobody begins to wait for member n, which joins
\* or launches its refresh.
LEMMA WaitStep ==
    ASSUME TInv, NothingLeft, NEW m \in Members, NEW n \in Members, NEW r \in Requests,
           JoinOrLaunch(n), UNCHANGED <<held, fresh, issued>>,
           req[r].phase \notin {"awaitToken", "awaitRefresh"},
           req'[r].phase \in {"awaitToken", "awaitRefresh"}, req'[r].member = n,
           \A q \in Requests : q # r => req'[q] = req[q]
    PROVE  Source(m)!Next \/ UNCHANGED Source(m)!svars
<1> DEFINE W == {q \in Requests : Waits(q, m)}
<1>f. /\ flight \in [Members -> [phase : {"none", "asked", "saving"}, token : Token]]
      /\ flight[m].phase = "none" <=> flight[m] = NoFlight
  BY DEF TInv, TypeOK, NothingLeft, NoFlight
<1>1. CASE n = m
  <2>1. r \notin W /\ W' = W \cup {r}
    BY <1>1 DEF Waits
  <2>2. flight'[m] = IF flight[m] = NoFlight THEN [phase |-> "asked", token |-> held[m]] ELSE flight[m]
    BY <1>1, <1>f DEF JoinOrLaunch
  <2> HIDE DEF W
  <2>3. Source(m)!Wait(r)
    BY <2>1, <2>2 DEF Source!Wait, W, Source!NoFlight, Source!First, NoFlight, NoToken
  <2> QED BY <2>3 DEF Source!Next
<1>2. CASE n # m
  <2>1. W' = W
    BY <1>2 DEF Waits
  <2>2. flight'[m] = flight[m]
    BY <1>2, <1>f DEF JoinOrLaunch
  <2> QED BY <2>1, <2>2 DEF Source!svars
<1> QED BY <1>1, <1>2

LEMMA NextSources ==
    ASSUME TInv, NothingLeft, Next, NEW m \in Members
    PROVE  Source(m)!Next \/ UNCHANGED Source(m)!svars
<1> DEFINE W == {q \in Requests : Waits(q, m)}
<1>g. /\ req \in [Requests -> Request] /\ held \in [Members -> Token]
      /\ fresh \in [Members -> BOOLEAN] /\ issued \in [Members -> 0..MaxReplace]
      /\ flight \in [Members -> [phase : {"none", "asked", "saving"}, token : Token]]
  BY DEF TInv, TypeOK
<1>a. ASSUME NEW q \in Requests, NEW n PROVE Answered(req[q], n).phase = "done"
  BY <1>g DEF Answered, Released, Request
\* Steps of requests that neither wait nor begin to.
<1>k. ASSUME UNCHANGED <<held, fresh, flight, issued>>,
             \A q \in Requests : Waits(q, m)' <=> Waits(q, m)
      PROVE  UNCHANGED Source(m)!svars
  <2>1. W' = W
    BY <1>k
  <2> QED BY <1>k, <2>1 DEF Source!svars
<1>1. ASSUME NEW r \in Requests, NEW kind \in {"messages", "models"},
             NEW s \in Sessions \cup {None}, Start(r, kind, s)
      PROVE  Source(m)!Next \/ UNCHANGED Source(m)!svars
  <2>1. UNCHANGED <<held, fresh, issued>>
    BY <1>1 DEF Start
  <2>2. PICK n \in Members :
           /\ req[r].phase = "new" /\ req'[r].member = n
           /\ \A q \in Requests : q # r => req'[q] = req[q]
           /\ \/ req'[r].phase = "template" /\ UNCHANGED flight
              \/ req'[r].phase = "awaitToken" /\ JoinOrLaunch(n)
    BY <1>1, StartStep
  <2>3. CASE req'[r].phase = "template" /\ UNCHANGED flight
    <3>1. \A q \in Requests : Waits(q, m)' <=> Waits(q, m)
      BY <2>2, <2>3 DEF Waits
    <3> QED BY <2>1, <2>3, <3>1, <1>k
  <2>4. CASE req'[r].phase = "awaitToken" /\ JoinOrLaunch(n)
    BY <2>1, <2>2, <2>4, WaitStep
  <2> QED BY <2>2, <2>3, <2>4
<1>2. ASSUME NEW r \in Requests, AwaitPacing(r) \/ PacingDone(r)
      PROVE  UNCHANGED Source(m)!svars
  <2>1. \A q \in Requests : Waits(q, m)' <=> Waits(q, m)
    BY <1>2, <1>g DEF AwaitPacing, PacingDone, Send, Request, Waits
  <2> QED BY <1>2, <2>1, <1>k DEF AwaitPacing, PacingDone
<1>3. ASSUME NEW r \in Requests,
             PrepareFails(r) \/ FetchFails(r) \/ \E status \in Statuses : Respond(r, status)
      PROVE  UNCHANGED Source(m)!svars
  <2>1. \A q \in Requests : Waits(q, m)' <=> Waits(q, m)
    BY <1>3, <1>g, <1>a DEF PrepareFails, FetchFails, Respond, Waits
  <2> QED BY <1>3, <2>1, <1>k DEF PrepareFails, FetchFails, Respond
<1>4. ASSUME NEW r \in Requests, Unauthorized(r)
      PROVE  Source(m)!Next \/ UNCHANGED Source(m)!svars
  <2>1. req[r].phase = "sent" /\ req[r].member \in Members /\ JoinOrLaunch(req[r].member)
    BY <1>4 DEF Unauthorized, TInv, PhasesOK, PhaseOK
  <2>2. /\ req'[r].phase = "awaitRefresh" /\ req'[r].member = req[r].member
        /\ \A q \in Requests : q # r => req'[q] = req[q]
        /\ UNCHANGED <<held, fresh, issued>>
    BY <1>4, <1>g DEF Unauthorized, Request
  <2> QED BY <2>1, <2>2, WaitStep
<1>5. ASSUME NEW n \in Members, RefreshStore(n)
      PROVE  Source(m)!Next \/ UNCHANGED Source(m)!svars
  <2>1. W' = W
    BY <1>5 DEF RefreshStore, Waits
  <2>2. CASE n = m
    <3> DEFINE next == [flight[m].token EXCEPT !.gen = @ + 1]
    <3>1. /\ flight[m].phase = "asked" /\ UNCHANGED issued
          /\ held'[m] = next /\ flight'[m] = [phase |-> "saving", token |-> next]
          /\ fresh'[m] \in BOOLEAN
      BY <1>5, <2>2, <1>g DEF RefreshStore
    <3> HIDE DEF W
    <3>2. Source(m)!Store
      BY <2>1, <3>1 DEF Source!Store, W
    <3> QED BY <3>2 DEF Source!Next
  <2>3. CASE n # m
    BY <1>5, <2>1, <2>3, <1>g DEF RefreshStore, Source!svars
  <2> QED BY <2>2, <2>3
<1>6. ASSUME NEW n \in Members, RefreshSaved(n) \/ RefreshFails(n)
      PROVE  Source(m)!Next \/ UNCHANGED Source(m)!svars
  <2>1. UNCHANGED <<held, fresh, issued>>
    BY <1>6 DEF RefreshSaved, RefreshFails
  <2>2. flight[n].phase # "none" /\ flight' = [flight EXCEPT ![n] = NoFlight]
    BY <1>6 DEF RefreshSaved, RefreshFails
  <2>3. CASE n = m
    <3>1. flight[m] # NoFlight /\ flight'[m] = NoFlight
      BY <2>2, <2>3, <1>g DEF NoFlight
    <3>2. W' = {}
      BY <2>2, <2>3, <3>1, RefreshEnds DEF NoFlight
    <3> HIDE DEF W
    <3>3. Source(m)!Settle
      BY <2>1, <3>1, <3>2 DEF Source!Settle, W, Source!NoFlight, Source!First, NoFlight, NoToken
    <3> QED BY <3>3 DEF Source!Next
  <2>4. CASE n # m
    <3>1. \A q \in Requests : Waits(q, m)' <=> Waits(q, m)
      <4>1. CASE RefreshSaved(n)
        BY <2>4, <4>1, <1>g DEF RefreshSaved, Waits, Request
      <4>2. CASE RefreshFails(n)
        BY <2>4, <4>2, <1>a DEF RefreshFails, Waits
      <4> QED BY <1>6, <4>1, <4>2
    <3>2. W' = W
      BY <3>1
    <3> QED BY <2>1, <2>2, <2>4, <3>2, <1>g DEF Source!svars
  <2> QED BY <2>3, <2>4
<1>7. ASSUME NEW n \in Members, Expire(n)
      PROVE  Source(m)!Next \/ UNCHANGED Source(m)!svars
  <2>1. W' = W
    BY <1>7 DEF Expire, Waits
  <2>2. CASE n = m
    <3> HIDE DEF W
    <3>1. Source(m)!Expire
      BY <1>7, <2>1, <2>2, <1>g DEF Expire, Source!Expire, W
    <3> QED BY <3>1 DEF Source!Next
  <2>3. CASE n # m
    BY <1>7, <2>1, <2>3, <1>g DEF Expire, Source!svars
  <2> QED BY <2>2, <2>3
<1>8. ASSUME NEW n \in Members, Replace(n)
      PROVE  Source(m)!Next \/ UNCHANGED Source(m)!svars
  <2>1. W' = W
    BY <1>8 DEF Replace, Waits
  <2>2. CASE n = m
    <3>1. /\ issued'[m] = issued[m] + 1 /\ held'[m] = [login |-> issued[m] + 1, gen |-> 0]
          /\ fresh'[m] \in BOOLEAN /\ UNCHANGED flight
      BY <1>8, <2>2, <1>g DEF Replace
    <3> HIDE DEF W
    <3>2. Source(m)!Replace
      BY <2>1, <3>1 DEF Source!Replace, W
    <3> QED BY <3>2 DEF Source!Next
  <2>3. CASE n # m
    BY <1>8, <2>1, <2>3, <1>g DEF Replace, Source!svars
  <2> QED BY <2>2, <2>3
<1>9. ASSUME NEW n \in Members, ReplaceSaved(n) \/ ReplaceFails(n)
      PROVE  UNCHANGED Source(m)!svars
  <2>1. \A q \in Requests : Waits(q, m)' <=> Waits(q, m)
    BY <1>9 DEF ReplaceSaved, ReplaceFails, Waits
  <2> QED BY <1>9, <2>1, <1>k DEF ReplaceSaved, ReplaceFails
<1>10. ASSUME Tick PROVE UNCHANGED Source(m)!svars
  <2>1. \A q \in Requests : Waits(q, m)' <=> Waits(q, m)
    BY <1>10, <1>g DEF Tick, Waits, Request
  <2> QED BY <1>10, <2>1, <1>k DEF Tick
<1> QED
  BY <1>1, <1>2, <1>3, <1>4, <1>5, <1>6, <1>7, <1>8, <1>9, <1>10 DEF Next

\* What the pool and its callers do to a member, all of them together, is what
\* the users of one token manager do: ManagerKeepsSource of OAuthManagerProofs
\* says that the manager promises the same (account-pool.ts 111-139).
THEOREM MembersKeepSource == Spec => MembersAreSources
<1>1. Init => NothingLeft /\ \A m \in Members : Source(m)!Init
  BY DEF Init, NothingLeft, NoFlight, NoToken, NewRequest, Waits,
         Source!Init, Source!NoFlight, Source!First
<1>2. TInv /\ NothingLeft /\ [Next]_vars
      => [\A m \in Members : Source(m)!Next \/ UNCHANGED Source(m)!svars]_vars
  BY NextSources
<1> QED
  BY <1>1, <1>2, InitTypes, NextTypes, NextNothingLeft, PTL DEF Spec, MembersAreSources
=============================================================================
