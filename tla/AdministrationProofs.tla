-------------------------- MODULE AdministrationProofs --------------------------
(***************************************************************************)
(* What the administration panel promises, for any number of users and of   *)
(* overlapping requests.                                                    *)
(***************************************************************************)
EXTENDS Administration, TLAPS

-----------------------------------------------------------------------------
(* Roles.                                                                   *)

\* A request that takes the administrator's role was made by somebody else.
NotOneself ==
    /\ role \in [Users -> Roles \cup {"none"}]
    /\ DOMAIN request = Requests
    /\ \A q \in Requests : request[q].kind = "role" =>
          request[q].user \in Users /\ request[q].by \in Users /\ request[q].role \in Roles
          /\ (request[q].by = request[q].user => request[q].role = "admin")
    /\ \A q \in Requests : request[q].kind = "register" =>
          request[q].user \in Users /\ request[q].role \in Roles

\* Steps that neither begin nor end a request of these two kinds.
LEMMA OtherRequests ==
    ASSUME NotOneself, role' = role, DOMAIN request' = Requests,
           \A q \in Requests :
              \/ request'[q].kind \notin {"role", "register"}
              \/ /\ request'[q].kind = request[q].kind /\ request'[q].user = request[q].user
                 /\ request'[q].role = request[q].role /\ request'[q].by = request[q].by
    PROVE  NotOneself'
    BY DEF NotOneself

LEMMA NotOneselfInit == Init => NotOneself
    BY DEF Init, NotOneself, Idle

LEMMA NotOneselfStep == NotOneself /\ [Next]_vars => NotOneself'
<1> SUFFICES ASSUME NotOneself, [Next]_vars PROVE NotOneself'
    OBVIOUS
<1>1. ASSUME NEW q \in Requests, NEW u \in Users, BeginRegister(q, u) PROVE NotOneself'
    BY <1>1 DEF BeginRegister, Begin, NotOneself, Roles
<1>2. ASSUME NEW q \in Requests, NEW by \in Users, NEW u \in Users, NEW r \in Roles,
             BeginRole(q, by, u, r)
      PROVE  NotOneself'
    BY <1>2 DEF BeginRole, MayAssign, Begin, NotOneself
<1>3. ASSUME NEW q \in Requests, EndRegister(q) PROVE NotOneself'
    BY <1>3 DEF EndRegister, End, Idle, NotOneself
<1>4. ASSUME NEW q \in Requests, EndRole(q) PROVE NotOneself'
    BY <1>4 DEF EndRole, End, Idle, NotOneself
<1>5. ASSUME NEW q \in Requests, NEW on \in BOOLEAN \cup {None}, NEW every \in Hours \cup {None},
             BeginPatch(q, on, every)
      PROVE  NotOneself'
  <2>1. role' = role /\ DOMAIN request' = Requests
    BY <1>5 DEF BeginPatch
  <2>2. request'[q].kind = "job"
    BY <1>5 DEF BeginPatch, Patching, Idle
  <2>3. \A k \in Requests \ {q} :
           \/ k \in Patching /\ request'[k] = [request[k] EXCEPT !.alone = FALSE]
           \/ request'[k] = request[k]
    BY <1>5 DEF BeginPatch
  <2>4. \A k \in Patching : [request[k] EXCEPT !.alone = FALSE].kind \in {"job", "saved"}
    BY DEF Patching
  <2> QED
    BY <2>1, <2>2, <2>3, <2>4, OtherRequests
<1>6. ASSUME NEW q \in Requests, SavePatch(q) PROVE NotOneself'
  <2>1. role' = role /\ request' \in {[request EXCEPT ![q] = Idle],
                                      [request EXCEPT ![q] = [request[q] EXCEPT !.kind = "saved"]]}
    BY <1>6 DEF SavePatch, End
  <2>2. Idle.kind \notin {"role", "register"}
        /\ [request[q] EXCEPT !.kind = "saved"].kind \notin {"role", "register"}
    BY <1>6 DEF Idle, SavePatch
  <2> QED
    BY <2>1, <2>2, OtherRequests DEF NotOneself
<1>7. ASSUME NEW q \in Requests, ApplyPatch(q) PROVE NotOneself'
    BY <1>7, OtherRequests DEF ApplyPatch, End, Idle, NotOneself
<1>8. CASE Stop
    BY <1>8, OtherRequests DEF Stop, Idle
<1>9. CASE UNCHANGED <<role, request>>
    BY <1>9 DEF NotOneself
<1>10. ASSUME NEW b, EndRun(b) \/ Start(b) PROVE NotOneself'
    BY <1>9, <1>10 DEF EndRun, Start
<1>11. CASE Tick \/ Fire \/ RaiseRun \/ UNCHANGED vars
    BY <1>9, <1>11 DEF Tick, Fire, RaiseRun, vars
<1>12. ASSUME NEW q \in Requests, NEW b \in BOOLEAN, BeginKey(q, b) PROVE NotOneself'
  <2> DEFINE r == [kind |-> "key", saved |-> b]
  <2>1. role' = role /\ request' = [request EXCEPT ![q] = r] /\ r.kind = "key"
    BY <1>12 DEF BeginKey, Begin
  <2> HIDE DEF r
  <2> QED
    BY <2>1, OtherRequests DEF NotOneself
<1>13. ASSUME NEW q \in Requests, EndKey(q) PROVE NotOneself'
    BY <1>13, OtherRequests DEF EndKey, End, Idle, NotOneself
<1> QED
    BY <1>1, <1>2, <1>3, <1>4, <1>5, <1>6, <1>7, <1>8, <1>10, <1>11, <1>12, <1>13
       DEF Next

\* KeepsAnOwner: a server with accounts does not lose its last administrator except by the
\* request of somebody who was demoted while it was on its way.
THEOREM OwnerStays == Spec => KeepsAnOwner
<1> DEFINE Overtaken == Admins # {} /\ Admins' = {} =>
              \E q \in Requests : /\ request[q].kind = "role" /\ request'[q] = Idle
                                   /\ role[request[q].by] # "admin"
<1>1. NotOneself /\ [Next]_vars => [Overtaken]_vars
  <2> SUFFICES ASSUME NotOneself, Next, Admins # {}, Admins' = {}
               PROVE  \E q \in Requests : /\ request[q].kind = "role" /\ request'[q] = Idle
                                                   /\ role[request[q].by] # "admin"
      BY DEF vars
  <2>1. role' # role
    BY DEF Admins
  <2>2. ASSUME NEW q \in Requests, EndRegister(q) PROVE FALSE
    <3>1. \A u \in Users : role[u] = "admin" => role'[u] = "admin"
      BY <2>2 DEF EndRegister, NotOneself
    <3> QED
      BY <3>1 DEF Admins
  <2>3. ASSUME NEW q \in Requests, EndRole(q)
        PROVE  request[q].kind = "role" /\ request'[q] = Idle /\ role[request[q].by] # "admin"
    <3> DEFINE r == request[q]
    <3>1. r.kind = "role" /\ role' = [role EXCEPT ![r.user] = r.role]
      BY <2>3 DEF EndRole
    <3>2. r.user \in Users /\ r.role # "admin" /\ r.by # r.user
      BY <3>1 DEF NotOneself, Admins
    <3>3. \A u \in Users : role[u] = "admin" => u = r.user
      BY <3>1, <3>2 DEF NotOneself, Admins
    <3>4. r.by \in Users
      BY <3>1 DEF NotOneself
    <3>5. request'[q] = Idle
      BY <2>3 DEF EndRole, End, NotOneself
    <3> QED
      BY <3>1, <3>2, <3>3, <3>4, <3>5
  <2> QED
    BY <2>1, <2>2, <2>3
       DEF Next, BeginRegister, BeginRole, BeginPatch, SavePatch, ApplyPatch, BeginKey, EndKey,
           Tick, Fire, EndRun, RaiseRun, Stop, Start
<1>2. Spec => []NotOneself
    BY NotOneselfInit, NotOneselfStep, PTL DEF Spec
<1> QED
    BY <1>1, <1>2, PTL DEF Spec, KeepsAnOwner

-----------------------------------------------------------------------------
(* The job's switch.                                                        *)

\* What a request that nobody disturbed wrote is what the row says.
Undisturbed(q) ==
    /\ request[q].kind = "job" =>
          /\ request[q].new = ~config.row
          /\ request[q].enabled = IF request[q].on = None THEN config.enabled ELSE request[q].on
    /\ request[q].kind = "saved" => request[q].enabled = config.enabled

\* What a request for a change holds.
Fields == {"kind", "new", "on", "every", "enabled", "hours", "alone"}

\* A change that is alone is the only one under way; a change that is settled is over.
PatchInv ==
    /\ DOMAIN request = Requests
    /\ \A q \in Patching : DOMAIN request[q] = Fields
    /\ \A q \in Patching : request[q].alone => Patching = {q} /\ Undisturbed(q)
    /\ applied => Patching = {}

\* Once it is settled no run is on that could undo it.
LiveInv ==
    /\ "state" \in DOMAIN live
    /\ ~up => live.state = "absent" /\ run = "idle" /\ Patching = {}
    /\ applied => SwitchInForce /\ (run # "idle" => config.enabled)

SwitchInv == PatchInv /\ LiveInv

LEMMA SwitchInvInit == Init => SwitchInv
    BY DEF Init, SwitchInv, PatchInv, LiveInv, Patching, Idle, SwitchInForce

\* Steps of the other requests, of the run and of the clock.
LEMMA PatchesKept ==
    ASSUME PatchInv, config' = config, applied' = applied,
           \/ request' = request
           \/ \E q \in Requests : \E r :
                 /\ request' = [request EXCEPT ![q] = r]
                 /\ q \notin Patching /\ r.kind \notin {"job", "saved"}
    PROVE  PatchInv' /\ Patching' = Patching
<1>1. CASE request' = request
    BY <1>1 DEF PatchInv, Patching, Undisturbed
<1>2. ASSUME NEW q \in Requests, NEW r, request' = [request EXCEPT ![q] = r],
             q \notin Patching, r.kind \notin {"job", "saved"}
      PROVE  PatchInv' /\ Patching' = Patching
  <2>1. DOMAIN request' = Requests /\ \A k \in Requests \ {q} : request'[k] = request[k]
    BY <1>2 DEF PatchInv
  <2>2. request'[q].kind \notin {"job", "saved"}
    BY <1>2 DEF PatchInv
  <2>3. Patching' = Patching
    BY <1>2, <2>1, <2>2 DEF Patching
  <2>4. \A k \in Patching : request'[k] = request[k]
    BY <1>2, <2>1 DEF Patching
  <2>5. \A k \in Patching : Undisturbed(k)' <=> Undisturbed(k)
    BY <2>4 DEF Undisturbed
  <2> QED
    BY <2>1, <2>3, <2>4, <2>5 DEF PatchInv
<1> QED
    BY <1>1, <1>2

LEMMA LiveKept ==
    ASSUME LiveInv, Patching' = Patching, UNCHANGED <<config, live, run, applied, up>>
    PROVE  LiveInv'
    BY DEF LiveInv, SwitchInForce

LEMMA BeginPatchStep ==
    ASSUME SwitchInv, NEW q \in Requests, NEW on \in BOOLEAN \cup {None},
           NEW every \in Hours \cup {None}, BeginPatch(q, on, every)
    PROVE  SwitchInv'
<1>1. /\ up /\ request[q] = Idle /\ DOMAIN request' = Requests /\ applied' = FALSE
      /\ UNCHANGED <<config, live, run, up>>
    BY DEF BeginPatch
<1>2. q \notin Patching
    BY <1>1 DEF Patching, Idle
<1>3. request'[q] = [kind |-> "job", new |-> ~config.row,
                     on |-> Changed(on, config.enabled), every |-> Changed(every, config.hours),
                     enabled |-> IF on = None THEN config.enabled ELSE on,
                     hours |-> IF every = None THEN config.hours ELSE every,
                     alone |-> Patching = {}]
    BY <1>2 DEF BeginPatch
<1>4. \A k \in Patching : request'[k] = [request[k] EXCEPT !.alone = FALSE]
    BY <1>2 DEF BeginPatch, Patching
<1>5. \A k \in Requests : k # q /\ k \notin Patching => request'[k] = request[k]
    BY DEF BeginPatch
<1>6. \A k \in Patching : /\ request'[k].kind = request[k].kind
                          /\ request'[k].alone = FALSE /\ DOMAIN request'[k] = Fields
    BY <1>4 DEF SwitchInv, PatchInv, Fields
<1>7. Patching' = Patching \cup {q}
    BY <1>1, <1>3, <1>5, <1>6 DEF Patching
<1>8. DOMAIN request'[q] = Fields /\ Undisturbed(q)'
    BY <1>1, <1>3 DEF Fields, Undisturbed, Changed
<1>9. request'[q].alone => Patching = {}
  <2> SUFFICES ASSUME Patching # {} PROVE request'[q].alone = FALSE
    OBVIOUS
  <2>1. (Patching = {}) = FALSE
    OBVIOUS
  <2>2. request'[q] = [kind |-> "job", new |-> ~config.row,
                     on |-> Changed(on, config.enabled), every |-> Changed(every, config.hours),
                     enabled |-> IF on = None THEN config.enabled ELSE on,
                     hours |-> IF every = None THEN config.hours ELSE every,
                     alone |-> FALSE]
    BY <1>3, <2>1
  <2> QED
    BY <2>2
<1>10. PatchInv'
    BY <1>1, <1>6, <1>7, <1>8, <1>9 DEF PatchInv
<1>11. LiveInv'
    BY <1>1 DEF SwitchInv, LiveInv
<1> QED
    BY <1>10, <1>11 DEF SwitchInv

\* A change that leaves, and is the only one if it was alone.
LEMMA PatchEnds ==
    ASSUME PatchInv, NEW q \in Patching, request' = [request EXCEPT ![q] = Idle],
           config' = config, applied' => Patching = {q}
    PROVE  PatchInv' /\ Patching' = Patching \ {q}
<1>1. DOMAIN request' = Requests /\ request'[q] = Idle /\ q \in Requests
    BY DEF PatchInv, Patching
<1>2. \A k \in Requests \ {q} : request'[k] = request[k]
    BY <1>1 DEF PatchInv
<1>3. Patching' = Patching \ {q}
    BY <1>1, <1>2 DEF Patching, Idle
<1>4. \A k \in Patching' : request'[k] = request[k]
    BY <1>2, <1>3 DEF Patching
<1>5. \A k \in Patching' : Undisturbed(k)' <=> Undisturbed(k)
    BY <1>4 DEF Undisturbed
<1> QED
    BY <1>1, <1>3, <1>4, <1>5 DEF PatchInv

LEMMA SavePatchStep == ASSUME SwitchInv, NEW q \in Requests, SavePatch(q) PROVE SwitchInv'
<1>1. /\ request[q].kind = "job" /\ q \in Patching /\ ~applied
      /\ UNCHANGED <<live, run, applied, up>>
    BY DEF SavePatch, Patching, SwitchInv, PatchInv
<1>2. CASE request[q].new /\ config.row
  <2>1. request' = [request EXCEPT ![q] = Idle] /\ config' = config
    BY <1>2 DEF SavePatch, End
  <2>2. PatchInv' /\ Patching' = Patching \ {q}
    BY <1>1, <2>1, PatchEnds DEF SwitchInv
  <2> QED
    BY <1>1, <2>1, <2>2 DEF SwitchInv, LiveInv
<1>3. CASE ~(request[q].new /\ config.row)
  <2> DEFINE saved == [request[q] EXCEPT !.kind = "saved"]
  <2>1. /\ request' = [request EXCEPT ![q] = saved]
        /\ config' = IF request[q].new
                     THEN [row |-> TRUE, enabled |-> request[q].enabled, hours |-> request[q].hours]
                     ELSE [row |-> TRUE,
                           enabled |-> IF request[q].on = None THEN config.enabled ELSE request[q].on,
                           hours |-> IF request[q].every = None THEN config.hours
                                     ELSE request[q].every]
    BY <1>3 DEF SavePatch
  <2>2. /\ DOMAIN request' = Requests /\ request'[q] = saved
        /\ \A k \in Requests \ {q} : request'[k] = request[k]
    BY <2>1 DEF SwitchInv, PatchInv
  <2>3. /\ DOMAIN saved = Fields /\ saved.kind = "saved" /\ saved.alone = request[q].alone
        /\ saved.enabled = request[q].enabled
    BY <1>1 DEF SwitchInv, PatchInv, Fields
  <2> HIDE DEF saved
  <2>4. Patching' = Patching
    BY <1>1, <2>2, <2>3 DEF Patching
  <2>5. \A k \in Patching \ {q} : request[k].alone => FALSE
    BY <1>1 DEF SwitchInv, PatchInv
  <2>6. ASSUME request[q].alone PROVE saved.enabled = config'.enabled
    <3>1. Undisturbed(q)
      BY <1>1, <2>6 DEF SwitchInv, PatchInv
    <3> QED
      BY <1>1, <2>1, <2>3, <3>1 DEF Undisturbed
  <2>7. saved.alone => Undisturbed(q)'
    BY <2>2, <2>3, <2>6 DEF Undisturbed
  <2>8. request[q].alone => Patching = {q}
    BY <1>1 DEF SwitchInv, PatchInv
  <2>9. PatchInv'
    BY <1>1, <2>2, <2>3, <2>4, <2>5, <2>7, <2>8 DEF SwitchInv, PatchInv, Patching
  <2> QED
    BY <1>1, <2>4, <2>9 DEF SwitchInv, LiveInv
<1> QED
    BY <1>2, <1>3

LEMMA ApplyPatchStep == ASSUME SwitchInv, NEW q \in Requests, ApplyPatch(q) PROVE SwitchInv'
<1>1. /\ request[q].kind = "saved" /\ q \in Patching
      /\ request' = [request EXCEPT ![q] = Idle]
      /\ live' = IF live.state = "absent" THEN live ELSE Rescheduled(request[q])
      /\ applied' = (run = "idle" /\ request[q].alone)
      /\ UNCHANGED <<config, run, up>>
    BY DEF ApplyPatch, End, Patching
<1>2. request[q].alone => Patching = {q} /\ request[q].enabled = config.enabled
    BY <1>1 DEF SwitchInv, PatchInv, Undisturbed
<1>3. PatchInv' /\ Patching' = Patching \ {q}
    BY <1>1, <1>2, PatchEnds DEF SwitchInv
<1>4. "state" \in DOMAIN live' /\ up
    BY <1>1 DEF Rescheduled, SwitchInv, LiveInv
<1>5. live.state # "absent" => live'.state = IF request[q].enabled THEN "planned" ELSE "paused"
    BY <1>1 DEF Rescheduled, SwitchInv, LiveInv
<1>6. live.state = "absent" => live'.state = "absent"
    BY <1>1
<1>7. applied' => SwitchInForce' /\ (run' # "idle" => config'.enabled)
    BY <1>1, <1>2, <1>5, <1>6 DEF SwitchInForce
<1> QED
    BY <1>1, <1>3, <1>4, <1>7 DEF SwitchInv, LiveInv

\* The clock, the timer and the end of a run.
LEMMA LiveStep ==
    ASSUME SwitchInv, Tick \/ Fire \/ (\E failed \in BOOLEAN : EndRun(failed)) \/ RaiseRun
    PROVE  SwitchInv'
<1>1. UNCHANGED <<config, applied, up, request>>
    BY DEF Tick, Fire, EndRun, RaiseRun
<1>2. PatchInv' /\ Patching' = Patching
    BY <1>1, PatchesKept DEF SwitchInv
<1>3. "state" \in DOMAIN live
    BY DEF SwitchInv, LiveInv
<1>4. CASE Tick
  <2>1. "state" \in DOMAIN live' /\ live'.state = live.state /\ run' = run /\ live.state = "planned"
    BY <1>3, <1>4 DEF Tick
  <2> QED
    BY <1>1, <1>2, <2>1 DEF SwitchInv, LiveInv, SwitchInForce
<1>5. CASE Fire
  <2>1. "state" \in DOMAIN live' /\ live'.state = live.state /\ live.state = "planned"
    BY <1>3, <1>5 DEF Fire
  <2> QED
    BY <1>1, <1>2, <2>1 DEF SwitchInv, LiveInv, SwitchInForce
<1>6. ASSUME NEW failed \in BOOLEAN, EndRun(failed) PROVE SwitchInv'
  <2>1. /\ "state" \in DOMAIN live' /\ live'.state = "planned" /\ run # "idle" /\ run' = "idle"
    BY <1>3, <1>6 DEF EndRun
  <2> QED
    BY <1>1, <1>2, <2>1 DEF SwitchInv, LiveInv, SwitchInForce
<1>7. CASE RaiseRun
    BY <1>1, <1>2, <1>3, <1>7 DEF RaiseRun, SwitchInv, LiveInv, SwitchInForce
<1> QED
    BY <1>4, <1>5, <1>6, <1>7

LEMMA BootStep ==
    ASSUME SwitchInv, Stop \/ \E h \in Hours \cup {Retry} : \E wait \in 0..h : Start(wait)
    PROVE  SwitchInv'
<1>1. CASE Stop
  <2>1. /\ DOMAIN request' = Requests /\ \A q \in Requests : request'[q].kind = "idle"
        /\ "state" \in DOMAIN live' /\ live'.state = "absent" /\ run' = "idle"
        /\ applied' = applied
    BY <1>1 DEF Stop, Idle, Absent
  <2>2. Patching' = {}
    BY <2>1 DEF Patching
  <2> QED
    BY <2>1, <2>2 DEF SwitchInv, PatchInv, LiveInv, SwitchInForce
<1>2. ASSUME NEW wait, Start(wait) PROVE SwitchInv'
  <2>1. /\ ~up /\ up' /\ UNCHANGED <<config, run, request>>
        /\ live' = Registered(wait)
    BY <1>2 DEF Start
  <2>2. Patching' = Patching /\ Patching = {} /\ run = "idle"
    BY <2>1 DEF SwitchInv, LiveInv, Patching
  <2>3. /\ "state" \in DOMAIN live'
        /\ live'.state = IF config.enabled THEN "planned" ELSE "absent"
    BY <2>1 DEF Registered, Absent
  <2> QED
    BY <2>1, <2>2, <2>3 DEF SwitchInv, PatchInv, LiveInv, SwitchInForce
<1> QED
    BY <1>1, <1>2

LEMMA SwitchInvStep == SwitchInv /\ [Next]_vars => SwitchInv'
<1> SUFFICES ASSUME SwitchInv, [Next]_vars PROVE SwitchInv'
    OBVIOUS
<1>1. ASSUME UNCHANGED <<config, live, run, applied, up>>,
             \/ request' = request
             \/ \E q \in Requests : \E r :
                   /\ request' = [request EXCEPT ![q] = r]
                   /\ q \notin Patching /\ r.kind \notin {"job", "saved"}
      PROVE  SwitchInv'
    BY <1>1, PatchesKept, LiveKept DEF SwitchInv
<1>2. ASSUME NEW q \in Requests, NEW u \in Users, BeginRegister(q, u) PROVE SwitchInv'
  <2> DEFINE r == [kind |-> "register", user |-> u, role |-> IF NoAccounts THEN "admin" ELSE "user"]
  <2>1. request' = [request EXCEPT ![q] = r] /\ q \notin Patching /\ r.kind = "register"
    BY <1>2 DEF BeginRegister, Begin, Patching, Idle
  <2>2. UNCHANGED <<config, live, run, applied, up>>
    BY <1>2 DEF BeginRegister, jobVars
  <2> HIDE DEF r
  <2> QED
    BY <1>1, <2>1, <2>2
<1>3. ASSUME NEW q \in Requests, NEW by \in Users, NEW u \in Users, NEW k \in Roles,
             BeginRole(q, by, u, k)
      PROVE  SwitchInv'
  <2> DEFINE r == [kind |-> "role", by |-> by, user |-> u, role |-> k]
  <2>1. request' = [request EXCEPT ![q] = r] /\ q \notin Patching /\ r.kind = "role"
    BY <1>3 DEF BeginRole, Begin, Patching, Idle
  <2>2. UNCHANGED <<config, live, run, applied, up>>
    BY <1>3 DEF BeginRole, jobVars
  <2> HIDE DEF r
  <2> QED
    BY <1>1, <2>1, <2>2
<1>4. ASSUME NEW q \in Requests, EndRegister(q) \/ EndRole(q) \/ EndKey(q) PROVE SwitchInv'
  <2>1. /\ request' = [request EXCEPT ![q] = Idle] /\ q \notin Patching /\ Idle.kind = "idle"
        /\ UNCHANGED <<config, live, run, applied, up>>
    BY <1>4 DEF EndRegister, EndRole, EndKey, End, Patching, Idle, jobVars
  <2> QED
    BY <1>1, <2>1
<1>5. ASSUME NEW q \in Requests, NEW b \in BOOLEAN, BeginKey(q, b) PROVE SwitchInv'
  <2> DEFINE r == [kind |-> "key", saved |-> b]
  <2>1. request' = [request EXCEPT ![q] = r] /\ q \notin Patching /\ r.kind = "key"
    BY <1>5 DEF BeginKey, Begin, Patching, Idle
  <2>2. UNCHANGED <<config, live, run, applied, up>>
    BY <1>5 DEF BeginKey, jobVars
  <2> HIDE DEF r
  <2> QED
    BY <1>1, <2>1, <2>2
<1>6. CASE UNCHANGED vars
    BY <1>1, <1>6 DEF vars, jobVars
<1> QED
    BY <1>2, <1>3, <1>4, <1>5, <1>6, BeginPatchStep, SavePatchStep, ApplyPatchStep, LiveStep, BootStep
       DEF Next

\* SwitchInForce: a job is planned exactly as its switch says, however the requests that
\* changed it came.
THEOREM SwitchHolds == Spec => []SwitchInForce
<1>1. SwitchInv => SwitchInForce
    BY DEF SwitchInv, LiveInv, SwitchInForce
<1> QED
    BY <1>1, SwitchInvInit, SwitchInvStep, PTL DEF Spec

-----------------------------------------------------------------------------
(* Types.                                                                   *)

Configs == [row : BOOLEAN, enabled : BOOLEAN, hours : Hours]
Lives == [state : {"absent", "paused", "planned"}, trigger : Hours, cadence : Hours, wait : Nat]

\* What a request read of the job and will write.
Sent == \A q \in Patching : /\ request[q].enabled \in BOOLEAN /\ request[q].hours \in Hours
                            /\ request[q].on \in BOOLEAN \cup {None}
                            /\ request[q].every \in Hours \cup {None}

\* TypeOK, but for the roles, which NotOneself types.
JobTyped ==
    /\ config \in Configs /\ live \in Lives /\ run \in {"idle", "working", "skipped"}
    /\ ~up => run = "idle" /\ live = Absent
    /\ Sent
PanelTyped ==
    /\ stored \in SecretKeys \cup {None} /\ secret \in SecretKeys
    /\ up \in BOOLEAN /\ patches \in 0..MaxPatches /\ applied \in BOOLEAN

LEMMA HoursFacts ==
    /\ Hours \subseteq Nat /\ Cadence \in Hours /\ Retry \in Nat /\ MaxPatches \in Nat
    /\ Absent \in Lives
    BY AdministrationAssumption DEF Absent, Lives

LEMMA TypesInit == Init => JobTyped /\ PanelTyped
<1> SUFFICES ASSUME Init PROVE JobTyped /\ PanelTyped
    OBVIOUS
<1>1. config \in Configs /\ live \in Lives
    BY HoursFacts DEF Init, Configs, Lives
<1>2. Patching = {}
    BY DEF Init, Patching, Idle
<1>3. up \in BOOLEAN /\ applied \in BOOLEAN
    BY DEF Init
<1>4. up
    BY DEF Init
<1>5. patches \in 0..MaxPatches
    BY HoursFacts DEF Init
<1>6. run = "idle" /\ stored = None /\ secret \in SecretKeys
    BY DEF Init
<1>7. JobTyped
    BY <1>1, <1>2, <1>4, <1>6 DEF JobTyped, Sent
<1> QED
    BY <1>3, <1>5, <1>6, <1>7 DEF PanelTyped

LEMMA PanelStep == PanelTyped /\ [Next]_vars => PanelTyped'
<1> SUFFICES ASSUME PanelTyped, [Next]_vars PROVE PanelTyped'
    OBVIOUS
<1>1. stored' \in SecretKeys \cup {None} /\ secret' \in SecretKeys
    BY DEF PanelTyped, Next, vars, keyVars, BeginRegister, BeginRole, BeginPatch, EndRegister,
           EndRole, SavePatch, ApplyPatch, BeginKey, EndKey, Tick, Fire, EndRun, RaiseRun, Stop,
           Start
<1>2. patches' \in 0..MaxPatches
  <2>1. patches' = patches \/ (patches < MaxPatches /\ patches' = patches + 1)
    BY DEF Next, vars, jobVars, BeginRegister, BeginRole, BeginPatch, EndRegister,
           EndRole, SavePatch, ApplyPatch, BeginKey, EndKey, Tick, Fire, EndRun, RaiseRun, Stop,
           Start
  <2> QED
    BY <2>1, HoursFacts DEF PanelTyped
<1>3. up' \in BOOLEAN
    BY Zenon DEF PanelTyped, Next, vars, BeginRegister, BeginRole, BeginPatch, EndRegister,
           EndRole, SavePatch, ApplyPatch, BeginKey, EndKey, Tick, Fire, EndRun, RaiseRun, Stop,
           Start
<1>4. applied' \in BOOLEAN
    BY Zenon DEF PanelTyped, Next, vars, jobVars, BeginRegister, BeginRole, BeginPatch, EndRegister,
           EndRole, SavePatch, ApplyPatch, BeginKey, EndKey, Tick, Fire, EndRun, RaiseRun, Stop,
           Start
<1> QED
    BY <1>1, <1>2, <1>3, <1>4 DEF PanelTyped

\* A change of the job's switch.
LEMMA PatchTyped ==
    ASSUME SwitchInv, JobTyped, NEW q \in Requests,
           \/ \E on \in BOOLEAN \cup {None}, every \in Hours \cup {None} : BeginPatch(q, on, every)
           \/ SavePatch(q) \/ ApplyPatch(q)
    PROVE  JobTyped'
<1>1. config.enabled \in BOOLEAN /\ config.hours \in Hours
    BY DEF JobTyped, Configs
<1>2. ASSUME NEW on \in BOOLEAN \cup {None}, NEW every \in Hours \cup {None},
             BeginPatch(q, on, every)
      PROVE  JobTyped'
  <2> DEFINE r == [kind |-> "job", new |-> ~config.row,
                   on |-> Changed(on, config.enabled), every |-> Changed(every, config.hours),
                   enabled |-> IF on = None THEN config.enabled ELSE on,
                   hours |-> IF every = None THEN config.hours ELSE every,
                   alone |-> Patching = {}]
  <2>1. /\ request[q] = Idle /\ q \notin Patching
        /\ request'[q] = r
        /\ UNCHANGED <<config, live, run, up>>
    BY <1>2 DEF BeginPatch, Patching, Idle
  <2>2. \A k \in Requests \ {q} : request'[k] = IF k \in Patching
                                                THEN [request[k] EXCEPT !.alone = FALSE]
                                                ELSE request[k]
    BY <1>2 DEF BeginPatch
  <2>3. r.enabled \in BOOLEAN
    BY <1>1
  <2>4. r.hours \in Hours /\ r.on \in BOOLEAN \cup {None} /\ r.every \in Hours \cup {None}
    BY <1>1 DEF Changed
  <2> HIDE DEF r
  <2>5. ASSUME NEW k \in Patching', k # q
        PROVE  /\ k \in Patching
               /\ request'[k].enabled = request[k].enabled /\ request'[k].hours = request[k].hours
               /\ request'[k].on = request[k].on /\ request'[k].every = request[k].every
    <3>1. k \in Requests \ {q}
      BY <2>5 DEF Patching
    <3>2. k \in Patching
      BY <2>2, <2>5, <3>1 DEF Patching
    <3>3. request'[k] = [request[k] EXCEPT !.alone = FALSE]
      BY <2>2, <3>1, <3>2
    <3> QED
      BY <3>2, <3>3
  <2>6. Sent'
    BY <2>1, <2>3, <2>4, <2>5 DEF Sent, JobTyped
  <2> QED
    BY <2>1, <2>6 DEF JobTyped
<1>3. ASSUME SavePatch(q) PROVE JobTyped'
  <2>1. q \in Patching /\ DOMAIN request = Requests /\ UNCHANGED <<live, run, up>>
    BY <1>3 DEF SavePatch, Patching, SwitchInv, PatchInv
  <2>2. /\ request[q].enabled \in BOOLEAN /\ request[q].hours \in Hours
        /\ request[q].on \in BOOLEAN \cup {None} /\ request[q].every \in Hours \cup {None}
    BY <2>1 DEF JobTyped, Sent
  <2>3. config' \in Configs
    <3>1. CASE config' = config
      BY <3>1 DEF JobTyped
    <3>2. CASE config' = [row |-> TRUE, enabled |-> request[q].enabled, hours |-> request[q].hours]
      BY <2>2, <3>2 DEF Configs
    <3>3. CASE config' = [row |-> TRUE,
                          enabled |-> IF request[q].on = None THEN config.enabled ELSE request[q].on,
                          hours |-> IF request[q].every = None THEN config.hours ELSE request[q].every]
      <4> DEFINE e == IF request[q].on = None THEN config.enabled ELSE request[q].on
                 h == IF request[q].every = None THEN config.hours ELSE request[q].every
      <4>1. e \in BOOLEAN
        BY <1>1, <2>2
      <4>2. h \in Hours
        BY <1>1, <2>2
      <4>3. config' = [row |-> TRUE, enabled |-> e, hours |-> h]
        BY <3>3
      <4> HIDE DEF e, h
      <4> QED
        BY <4>1, <4>2, <4>3 DEF Configs
    <3> QED
      BY <1>3, <3>1, <3>2, <3>3 DEF SavePatch
  <2>4. request' \in {[request EXCEPT ![q] = Idle], [request EXCEPT ![q].kind = "saved"]}
    BY <1>3 DEF SavePatch, End
  <2>5. ASSUME NEW k \in Patching'
        PROVE  /\ k \in Patching
               /\ request'[k].enabled = request[k].enabled /\ request'[k].hours = request[k].hours
               /\ request'[k].on = request[k].on /\ request'[k].every = request[k].every
    <3>1. CASE k = q
      <4>1. request'[q] # Idle
        BY <2>5, <3>1 DEF Patching, Idle
      <4>2. request' = [request EXCEPT ![q].kind = "saved"]
        BY <2>1, <2>4, <4>1 DEF Patching
      <4> QED
        BY <2>1, <3>1, <4>2 DEF Patching, SwitchInv, PatchInv, Fields
    <3>2. CASE k # q
      BY <2>1, <2>4, <2>5, <3>2 DEF Patching
    <3> QED
      BY <3>1, <3>2
  <2>6. Sent'
    BY <2>5 DEF Sent, JobTyped
  <2> QED
    BY <2>1, <2>3, <2>6 DEF JobTyped, SwitchInv, LiveInv
<1>4. ASSUME ApplyPatch(q) PROVE JobTyped'
  <2>1. /\ q \in Patching /\ DOMAIN request = Requests /\ UNCHANGED <<config, run, up>> /\ up
        /\ request' = [request EXCEPT ![q] = Idle]
        /\ live' = IF live.state = "absent" THEN live ELSE Rescheduled(request[q])
    BY <1>4 DEF ApplyPatch, End, Patching, SwitchInv, PatchInv, LiveInv
  <2>2. request[q].hours \in Hours /\ request[q].hours \in Nat
    BY <2>1, HoursFacts DEF JobTyped, Sent
  <2>3. live' \in Lives
    BY <2>1, <2>2 DEF Rescheduled, Lives, JobTyped
  <2>4. \A k \in Patching' : k \in Patching /\ request'[k] = request[k]
    BY <2>1 DEF Patching, Idle
  <2>5. Sent'
    BY <2>4 DEF Sent, JobTyped
  <2> QED
    BY <2>1, <2>3, <2>5 DEF JobTyped
<1> QED
    BY <1>2, <1>3, <1>4

\* Accounts, keys, the run, the clock, the end and the start of the process.
LEMMA OtherTyped ==
    ASSUME SwitchInv, JobTyped,
           \/ \E q \in Requests, u \in Users : BeginRegister(q, u)
           \/ \E q \in Requests, by, u \in Users, r \in Roles : BeginRole(q, by, u, r)
           \/ \E q \in Requests : EndRegister(q) \/ EndRole(q) \/ EndKey(q)
           \/ \E q \in Requests, b \in BOOLEAN : BeginKey(q, b)
           \/ Tick \/ Fire \/ (\E failed \in BOOLEAN : EndRun(failed)) \/ RaiseRun
           \/ Stop \/ (\E h \in Hours \cup {Retry} : \E wait \in 0..h : Start(wait))
           \/ UNCHANGED vars
    PROVE  JobTyped'
<1>1. live.wait \in Nat /\ live.trigger \in Hours /\ live.cadence \in Hours /\ config.hours \in Hours
    BY DEF JobTyped, Lives, Configs
<1>2. \A k \in Patching' : k \in Patching /\ request'[k] = request[k]
  <2>0. DOMAIN request = Requests
    BY DEF SwitchInv, PatchInv
  <2>1. CASE request' = request
    BY <2>1 DEF Patching
  <2>2. ASSUME NEW q \in Requests, NEW r, request' = [request EXCEPT ![q] = r],
               r.kind \notin {"job", "saved"}
        PROVE  \A k \in Patching' : k \in Patching /\ request'[k] = request[k]
    BY <2>0, <2>2 DEF Patching
  <2>3. CASE request' = [q \in Requests |-> Idle]
    BY <2>3 DEF Patching, Idle
  <2>4. ASSUME NEW q \in Requests, NEW u \in Users, BeginRegister(q, u)
        PROVE  \A k \in Patching' : k \in Patching /\ request'[k] = request[k]
    <3> DEFINE r == [kind |-> "register", user |-> u,
                     role |-> IF NoAccounts THEN "admin" ELSE "user"]
    <3>1. request' = [request EXCEPT ![q] = r] /\ r.kind = "register"
      BY <2>4 DEF BeginRegister, Begin
    <3> HIDE DEF r
    <3> QED
      BY <2>2, <3>1
  <2>5. ASSUME NEW q \in Requests, NEW by \in Users, NEW u \in Users, NEW k \in Roles,
               BeginRole(q, by, u, k)
        PROVE  \A j \in Patching' : j \in Patching /\ request'[j] = request[j]
    <3> DEFINE r == [kind |-> "role", by |-> by, user |-> u, role |-> k]
    <3>1. request' = [request EXCEPT ![q] = r] /\ r.kind = "role"
      BY <2>5 DEF BeginRole, Begin
    <3> HIDE DEF r
    <3> QED
      BY <2>2, <3>1
  <2>6. ASSUME NEW q \in Requests, EndRegister(q) \/ EndRole(q) \/ EndKey(q)
        PROVE  \A k \in Patching' : k \in Patching /\ request'[k] = request[k]
    <3>1. request' = [request EXCEPT ![q] = Idle] /\ Idle.kind = "idle"
      BY <2>6 DEF EndRegister, EndRole, EndKey, End, Idle
    <3> QED
      BY <2>2, <3>1
  <2>7. \/ \E q \in Requests, u \in Users : BeginRegister(q, u)
        \/ \E q \in Requests, by, u \in Users, r \in Roles : BeginRole(q, by, u, r)
        \/ \E q \in Requests : EndRegister(q) \/ EndRole(q) \/ EndKey(q)
        \/ \E q \in Requests, b \in BOOLEAN : BeginKey(q, b)
        \/ request' = request \/ request' = [q \in Requests |-> Idle]
    BY DEF Tick, Fire, EndRun, RaiseRun, Stop, Start, vars
  <2>8. ASSUME NEW q \in Requests, NEW b \in BOOLEAN, BeginKey(q, b)
        PROVE  \A k \in Patching' : k \in Patching /\ request'[k] = request[k]
    <3> DEFINE r == [kind |-> "key", saved |-> b]
    <3>1. request' = [request EXCEPT ![q] = r] /\ r.kind = "key"
      BY <2>8 DEF BeginKey, Begin
    <3> HIDE DEF r
    <3> QED
      BY <2>2, <3>1
  <2> QED
    BY <2>1, <2>3, <2>4, <2>5, <2>6, <2>7, <2>8
<1>3. Sent'
    BY <1>2 DEF Sent, JobTyped
<1>4. CASE UNCHANGED <<config, live, run, up>>
    BY <1>3, <1>4 DEF JobTyped
<1>5. CASE Tick
  <2>1. live' = [live EXCEPT !.wait = live.wait - 1] /\ live.wait - 1 \in Nat
        /\ UNCHANGED <<config, run, up>> /\ live.state = "planned"
    BY <1>1, <1>5 DEF Tick
  <2>2. live' \in Lives
    BY <2>1 DEF JobTyped, Lives
  <2> QED
    BY <1>3, <2>1, <2>2 DEF JobTyped, Absent
<1>6. CASE Fire
  <2>1. live' = [live EXCEPT !.wait = live.trigger] /\ live.state = "planned"
        /\ run' \in {run, "working", "skipped"} /\ UNCHANGED <<config, up>>
    BY <1>6 DEF Fire
  <2>2. live' \in Lives
    BY <1>1, <2>1, HoursFacts DEF JobTyped, Lives
  <2> QED
    BY <1>3, <2>1, <2>2 DEF JobTyped, Absent
<1>7. ASSUME NEW failed \in BOOLEAN, EndRun(failed) PROVE JobTyped'
  <2> DEFINE n == IF failed THEN Retry ELSE live.cadence
  <2>1. live' = [live EXCEPT !.state = "planned", !.wait = n]
        /\ run # "idle" /\ run' = "idle" /\ UNCHANGED <<config, up>>
    BY <1>7 DEF EndRun
  <2>2. n \in Nat
    BY <1>1, HoursFacts
  <2> HIDE DEF n
  <2>3. live' \in Lives
    BY <2>1, <2>2 DEF JobTyped, Lives
  <2> QED
    BY <1>3, <2>1, <2>3 DEF JobTyped
<1>8. CASE Stop
    BY <1>3, <1>8, HoursFacts DEF Stop, JobTyped
<1>9. ASSUME NEW h \in Hours \cup {Retry}, NEW wait \in 0..h, Start(wait) PROVE JobTyped'
  <2>1. /\ ~up /\ up' /\ UNCHANGED <<config, run>>
        /\ live' = Registered(wait)
    BY <1>9 DEF Start
  <2>2. wait \in Nat
    BY HoursFacts
  <2>3. live' \in Lives
    BY <1>1, <2>1, <2>2, HoursFacts DEF Registered, Lives
  <2> QED
    BY <1>3, <2>1, <2>3 DEF JobTyped
<1>10. \/ UNCHANGED <<config, live, run, up>>
       \/ Tick \/ Fire \/ (\E failed \in BOOLEAN : EndRun(failed)) \/ RaiseRun
       \/ Stop \/ (\E h \in Hours \cup {Retry} : \E wait \in 0..h : Start(wait))
    BY DEF BeginRegister, BeginRole, EndRegister, EndRole, BeginKey, EndKey, jobVars, vars
<1>11. CASE RaiseRun
    BY <1>3, <1>11 DEF RaiseRun, JobTyped
<1> QED
    BY <1>4, <1>5, <1>6, <1>7, <1>8, <1>9, <1>10, <1>11

\* The panel's state is well typed: a row has a cadence to run by, a registered job as well, and
\* with the process its run and its registration are gone.
THEOREM PanelTypes == Spec => []TypeOK
<1>1. SwitchInv /\ JobTyped /\ [Next]_vars => JobTyped'
    BY PatchTyped, OtherTyped DEF Next
<1>2. NotOneself /\ JobTyped /\ PanelTyped => TypeOK
    BY Zenon DEF NotOneself, JobTyped, PanelTyped, TypeOK, Configs, Lives
<1> QED
    BY <1>1, <1>2, TypesInit, PanelStep, NotOneselfInit, NotOneselfStep, SwitchInvInit,
       SwitchInvStep, PTL DEF Spec
================================================================================
