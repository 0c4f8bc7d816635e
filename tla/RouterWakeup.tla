---------------------------- MODULE RouterWakeup ----------------------------
(***************************************************************************)
(* When routers wake up.  A router works only in the cycles for which a    *)
(* wakeup was scheduled: by a link that brings a flit, by the input unit   *)
(* for the cycle in which the flit is ready, by the switch allocator for   *)
(* flits that stay, and by an exchange with a brownian bubble.             *)
(*                                                                         *)
(* All times count from the current cycle.  The model has VC 0 of every    *)
(* input port, the one bubbles use, and one bubble.                        *)
(***************************************************************************)
EXTENDS Integers

CONSTANTS Routers, Inports,
    PipeStages,    \* get_pipe_stages, the router latency
    InterPeriod    \* m_inter_bubble_period

ASSUME WakeupAssumption ==
    PipeStages \in Nat \ {0} /\ InterPeriod \in Nat \ {0}

VARIABLES
    slot,      \* the flit in VC 0: cycles until its time and its SA stage, or none
    sent,      \* input ports whose link took a flit in this cycle
    on_link,   \* input ports whose link delivers a flit in this cycle
    scheduled, \* the wakeups of each router
    awake,     \* routers that woke up in this cycle
    moves,     \* the movements of bubbles that may still happen in this cycle
    bubble     \* the router and input port of the bubble

wakeupVars == <<slot, sent, on_link, scheduled, awake, moves, bubble>>

Ports  == Routers \X Inports
EmptySlot == [time |-> -1, stage |-> -1]

WakeupInit ==
    /\ slot = [p \in Ports |-> EmptySlot]
    /\ sent = {} /\ on_link = {} /\ awake = {} /\ moves = {"intra", "inter"}
    /\ scheduled = [r \in Routers |-> {}]
    /\ bubble \in Ports

\* The VC is empty and idle at the upstream router: no flit, no flit on the
\* link, no bubble.
Free(p) == slot[p] = EmptySlot /\ p \notin sent \cup on_link \cup {bubble}
WakingUp == {r \in Routers \ awake : 0 \in scheduled[r]}
-----------------------------------------------------------------------------
\* NetworkLink::wakeup: a flit gets to the router in the next cycle.
link_wakeup(p) ==
    /\ Free(p)
    /\ sent' = sent \cup {p}
    /\ scheduled' = [scheduled EXCEPT ![p[1]] = @ \cup {1}]
    /\ UNCHANGED <<slot, on_link, awake, moves, bubble>>

\* The first router that wakes up in a cycle moves the bubbles first.
MayMove(kind) == kind \in moves /\ awake = {} /\ WakingUp # {}

\* move_intra_bubble, to another port of the router of the bubble.
move_intra_bubble(i) ==
    LET p == <<bubble[1], i>>
    IN  /\ MayMove("intra") /\ p # bubble
        /\ \/ /\ Free(p)
              /\ \E d \in 0 .. InterPeriod :
                    scheduled' = [scheduled EXCEPT ![p[1]] = IF d = 0 THEN @ ELSE @ \cup {d}]
              /\ UNCHANGED slot
           \/ /\ slot[p] # EmptySlot
              /\ slot' = [slot EXCEPT ![p] = EmptySlot, ![bubble] = slot[p]]
              /\ UNCHANGED scheduled
        /\ bubble' = p /\ moves' = moves \ {"intra"}
        /\ UNCHANGED <<sent, on_link, awake>>

\* Both routers of an exchange are woken up two cycles later.
WakeBoth(r, q) == [scheduled EXCEPT ![r] = @ \cup {2}, ![q] = @ \cup {2}]

\* move_inter_bubble, to port p of another router.
move_inter_bubble(p) ==
    /\ MayMove("inter") /\ p[1] # bubble[1]
    /\ \/ Free(p) /\ UNCHANGED slot
       \/ /\ slot[p] # EmptySlot
          /\ slot' = [slot EXCEPT ![p] = EmptySlot,
                                  ![bubble] = [time |-> 2, stage |-> slot[p].stage]]
    /\ scheduled' = WakeBoth(bubble[1], p[1])
    /\ bubble' = p /\ moves' = {}
    /\ UNCHANGED <<sent, on_link, awake>>
-----------------------------------------------------------------------------
\* need_stage(SA_) in d cycles: the buffer's head is ready and in its stage.
need_stage_in(f, d) == f # EmptySlot /\ f.time <= d /\ f.stage <= d

\* Faulty variant: flits that stay do not wake the router up again.
NoCheck(s, r) == {}

\* check_for_wakeup: the next cycle, when some flit needs it.
check_for_wakeup(s, r) == {d \in {1} : \E i \in Inports : need_stage_in(s[<<r, i>>], d)}

\* Router::wakeup after the bubbles moved: flits arrive and are routed, and
\* some of those that are ready are granted an output port and leave.
router_wakeup(r) ==
    LET arriving == {p \in on_link : p[1] = r}
        buffered == [p \in Ports |->
                       IF p \in arriving THEN [time |-> 0, stage |-> PipeStages - 1] ELSE slot[p]]
        SAWakeup == {d \in {PipeStages - 1} : d > 0 /\ arriving # {}}
    IN  /\ r \in WakingUp
        /\ \E granted \in SUBSET {p \in Ports : p[1] = r /\ need_stage_in(buffered[p], 0)} :
              slot' = [p \in Ports |-> IF p \in granted THEN EmptySlot ELSE buffered[p]]
        /\ on_link' = on_link \ arriving
        /\ scheduled' = [scheduled EXCEPT
              ![r] = (@ \ {0}) \cup SAWakeup \cup check_for_wakeup(slot', r)]
        /\ awake' = awake \cup {r}
        /\ UNCHANGED <<sent, moves, bubble>>

\* The next cycle, once every wakeup of this one was served.
Tick ==
    /\ WakingUp = {}
    /\ slot' = [p \in Ports |-> [time |-> IF slot[p].time > 0 THEN slot[p].time - 1 ELSE slot[p].time,
                                 stage |-> IF slot[p].stage > 0 THEN slot[p].stage - 1 ELSE slot[p].stage]]
    /\ scheduled' = [r \in Routers |-> {d - 1 : d \in scheduled[r]}]
    /\ awake' = {} /\ moves' = {"intra", "inter"}
    /\ sent' = {} /\ on_link' = on_link \cup sent
    /\ UNCHANGED bubble

WakeupNext ==
    \/ \E p \in Ports : link_wakeup(p) \/ move_inter_bubble(p)
    \/ \E i \in Inports : move_intra_bubble(i)
    \/ \E r \in Routers : router_wakeup(r)
    \/ Tick

WakeupSpec == WakeupInit /\ [][WakeupNext]_wakeupVars
-----------------------------------------------------------------------------
\* A router is awake in every cycle in which a flit in it is ready for switch
\* allocation, wherever bubbles moved the flit.
AwakeForSA ==
    \A p \in Ports : need_stage_in(slot[p], 0) => p[1] \in awake \cup WakingUp
=============================================================================
