------------------------------ MODULE VCLinkStats ------------------------------
(***************************************************************************)
(* The links of VCLink with the statistics their ports keep, PortStats and *)
(* the counters of each virtual channel, and with the response path, on    *)
(* which the delays are measured.                                          *)
(*                                                                         *)
(* The counts of bytes and of credits are left out.  Requests carry no     *)
(* original_req, so that a SlavePort measures no delay.                    *)
(***************************************************************************)
EXTENDS VCLink, FiniteSetsExt

CONSTANTS
  None,       \* the null pair
  UINT64_MAX, \* the min_delay of a port that has measured none
  MaxCycle,   \* bound: the last cycle
  MaxTries    \* bound: calls of sendReq(), of a master's tick() and of resets

ASSUME NoneIsNoMaster == None \notin Masters
ASSUME DelaysFit == MaxCycle \in Nat /\ UINT64_MAX \in Nat /\ UINT64_MAX > MaxCycle
ASSUME MaxTriesNat == MaxTries \in Nat
ASSUME PortsFinite == IsFiniteSet(Masters) /\ IsFiniteSet(InVCs)

VARIABLES
  slave_pair, \* the master at the other side of the slave's pair
  cycle,      \* getCurrentCycle()
  mstats,     \* MasterPort::stats, by master
  sstats,     \* SlavePort::stats
  ivc,        \* InputVC::stats, by VC
  ovc,        \* OutputVC::stats, by stream
  sent_at,    \* Packet::src_cycle of the accepted requests, by stream
  answered,   \* history: the requests, <<m, v, n>>, that were responded to
  no_such_vc, \* history: requests the slave refused for want of their VC
  at_reset,   \* history: what the slave's VCs had counted at its last reset
  tries       \* history: calls counted against MaxTries

statvars == <<slave_pair, cycle, mstats, sstats, ivc, ovc, sent_at, answered,
              no_such_vc, at_reset, tries>>
allvars == <<vars, statvars>>

ZeroStats == [req_count |-> 0, resp_count |-> 0, total_delay |-> 0,
              min_delay |-> UINT64_MAX, max_delay |-> 0]

StatsInit ==
  /\ Init
  /\ slave_pair = None
  /\ cycle = 0
  /\ mstats = [m \in Masters |-> ZeroStats]
  /\ sstats = ZeroStats
  /\ ivc = [v \in InVCs |-> [enqueued |-> 0, processed |-> 0, dropped |-> 0]]
  /\ ovc = [s \in Streams |-> [enqueued |-> 0, forwarded |-> 0, dropped |-> 0]]
  /\ sent_at = [s \in Streams |-> <<>>]
  /\ answered = {}
  /\ no_such_vc = 0
  /\ at_reset = 0
  /\ tries = 0

\* One more call, of those that MaxTries bounds.
Try == tries < MaxTries /\ tries' = tries + 1

AdvanceClock ==
  /\ cycle < MaxCycle
  /\ cycle' = cycle + 1
  /\ UNCHANGED <<vars, slave_pair, mstats, sstats, ivc, ovc, sent_at, answered,
                 no_such_vc, at_reset, tries>>

\* new PortPair(master m, the slave), once for each connection of the
\* configuration: the slave's pair is overwritten.
Connect(m) ==
  /\ m \notin bound
  /\ Bind(m)
  /\ slave_pair' = m
  /\ UNCHANGED <<cycle, mstats, sstats, ivc, ovc, sent_at, answered,
                 no_such_vc, at_reset, tries>>

\* Faulty variant of CountFailedSend: a packet that finds its VC full is lost
\* to the counts.
CountFailedSendNoDrop(m, v) ==
  /\ mstats' = [mstats EXCEPT ![m].req_count = @ + 1]
  /\ sstats' = [sstats EXCEPT !.req_count = @ + (IF m \in bound THEN 1 ELSE 0)]
  /\ no_such_vc' = no_such_vc + (IF m \in bound /\ v \notin InVCs THEN 1 ELSE 0)
  /\ UNCHANGED ivc

(***************************************************************************)
(* A direct send that fails.  MasterPort::send counts the request, and so  *)
(* does SlavePort::recv if the master has a pair, before recvReq() turns   *)
(* it down; recvReq() counts it as dropped only if its VC exists.          *)
(***************************************************************************)
CountFailedSend(m, v) ==
  /\ mstats' = [mstats EXCEPT ![m].req_count = @ + 1]
  /\ sstats' = [sstats EXCEPT !.req_count = @ + (IF m \in bound THEN 1 ELSE 0)]
  /\ no_such_vc' = no_such_vc + (IF m \in bound /\ v \notin InVCs THEN 1 ELSE 0)
  /\ ivc' = [u \in InVCs |->
               IF m \in bound /\ u = v
               THEN [ivc[u] EXCEPT !.dropped = @ + 1] ELSE ivc[u]]

\* sendReq() tries the direct send only when no packet of the VC waits.
CountAttempt(m, v) ==
  IF outq[<<m, v>>] = <<>> THEN CountFailedSend(m, v)
  ELSE UNCHANGED <<mstats, sstats, ivc, no_such_vc>>

\* The owner has stamped the request with the cycle in which it sends it.
Stamp(m, v) == sent_at' = [sent_at EXCEPT ![<<m, v>>] = Append(@, cycle)]

CountSendDirect(m, v) ==
  /\ SendDirect(m, v)
  /\ Stamp(m, v)
  /\ mstats' = [mstats EXCEPT ![m].req_count = @ + 1]
  /\ sstats' = [sstats EXCEPT !.req_count = @ + 1]
  /\ ivc' = [ivc EXCEPT ![v].enqueued = @ + 1]
  /\ UNCHANGED <<slave_pair, cycle, ovc, answered, no_such_vc, at_reset, tries>>

CountSendBuffered(m, v) ==
  /\ SendBuffered(m, v)
  /\ Stamp(m, v)
  /\ CountAttempt(m, v)
  /\ ovc' = [ovc EXCEPT ![<<m, v>>].enqueued = @ + 1]
  /\ UNCHANGED <<slave_pair, cycle, answered, at_reset, tries>>

CountSendRefused(m, v) ==
  /\ SendRefused(m, v)
  /\ Try
  /\ IF v \in OutVCs
     THEN /\ CountAttempt(m, v)
          /\ ovc' = [ovc EXCEPT ![<<m, v>>].dropped = @ + 1]
     ELSE UNCHANGED <<mstats, sstats, ivc, ovc, no_such_vc>>
  /\ UNCHANGED <<slave_pair, cycle, sent_at, answered, at_reset>>

\* Faulty variant of Retried: the packet put back is not counted as enqueued.
RetriedNotEnqueued(s) ==
  IF outq[s] = <<>> THEN ovc[s]
  ELSE IF OutputRoom(s[1], s[2])
  THEN [ovc[s] EXCEPT !.forwarded = @ + 1]
  ELSE [ovc[s] EXCEPT !.dropped = @ + 1]

(***************************************************************************)
(* What trySend() does to the counters of an OutputVC: the packet it puts  *)
(* back into its own buffer counts as enqueued, and as forwarded; when the *)
(* buffer is full, a packet that stays in it counts as dropped.            *)
(***************************************************************************)
Retried(s) ==
  IF outq[s] = <<>> THEN ovc[s]
  ELSE IF OutputRoom(s[1], s[2])
  THEN [ovc[s] EXCEPT !.enqueued = @ + 1, !.forwarded = @ + 1]
  ELSE [ovc[s] EXCEPT !.dropped = @ + 1]

CountRetryOutputs(m) ==
  /\ RetryOutputs(m)
  /\ Try
  /\ ovc' = [s \in Streams |-> IF s[1] = m THEN Retried(s) ELSE ovc[s]]
  /\ UNCHANGED <<slave_pair, cycle, mstats, sstats, ivc, sent_at, answered,
                 no_such_vc, at_reset>>

CountHandleInputs(willing) ==
  /\ HandleInputs(willing)
  /\ ivc' = [v \in InVCs |->
               IF v \in willing /\ inq[v] # <<>>
               THEN [ivc[v] EXCEPT !.processed = @ + 1] ELSE ivc[v]]
  /\ UNCHANGED <<slave_pair, cycle, mstats, sstats, ovc, sent_at, answered,
                 no_such_vc, at_reset, tries>>

\* Faulty variant of Measured: the response is compared with the wrong end.
MeasuredBackwards(st, src_cycle) ==
  LET delay == src_cycle - cycle
  IN  [st EXCEPT !.resp_count = @ + 1,
                 !.total_delay = @ + delay,
                 !.min_delay = IF delay < @ THEN delay ELSE @,
                 !.max_delay = IF delay > @ THEN delay ELSE @]

\* MasterPort::updateStats of a response to a request stamped src_cycle.
Measured(st, src_cycle) ==
  LET delay == cycle - src_cycle
  IN  [st EXCEPT !.resp_count = @ + 1,
                 !.total_delay = @ + delay,
                 !.min_delay = IF delay < @ THEN delay ELSE @,
                 !.max_delay = IF delay > @ THEN delay ELSE @]

(***************************************************************************)
(* The slave's owner responds to a request it has handled: sendResp()      *)
(* reaches the master of the slave's pair, whichever sent the request.     *)
(***************************************************************************)
Respond(m, v, n) ==
  /\ \E i \in 1 .. Len(handled[<<m, v>>]) : handled[<<m, v>>][i] = n
  /\ <<m, v, n>> \notin answered
  /\ answered' = answered \cup {<<m, v, n>>}
  /\ sstats' = [sstats EXCEPT !.resp_count = @ + 1]
  /\ mstats' = [mstats EXCEPT ![slave_pair] = Measured(@, sent_at[<<m, v>>][n])]
  /\ UNCHANGED <<vars, slave_pair, cycle, ivc, ovc, sent_at, no_such_vc,
                 at_reset, tries>>

\* All packets that have reached one of the slave's VCs, or been refused there.
Arrived(counters) ==
  MapThenSumSet(LAMBDA v : counters[v].enqueued + counters[v].dropped, InVCs)

\* Faulty variant of Reset: the accumulated delay stays.
ResetKeepsTotal(st) == [ZeroStats EXCEPT !.total_delay = st.total_delay]

\* PortStats::reset.
Reset(st) == ZeroStats

(***************************************************************************)
(* PortManager::resetAllStats of a module that owns a master, or of the    *)
(* one that owns the slave.  The counters of the VCs stay.                 *)
(***************************************************************************)
ResetMaster(m) ==
  /\ Try
  /\ mstats' = [mstats EXCEPT ![m] = Reset(@)]
  /\ UNCHANGED <<vars, slave_pair, cycle, sstats, ivc, ovc, sent_at, answered,
                 no_such_vc, at_reset>>

ResetSlave ==
  /\ Try
  /\ sstats' = Reset(sstats)
  /\ at_reset' = Arrived(ivc) + no_such_vc
  /\ UNCHANGED <<vars, slave_pair, cycle, mstats, ivc, ovc, sent_at, answered,
                 no_such_vc>>

StatsNext ==
  \/ AdvanceClock
  \/ \E m \in Masters : Connect(m)
  \/ \E m \in Masters, v \in VcIds : CountSendDirect(m, v)
  \/ \E m \in Masters, v \in VcIds : CountSendBuffered(m, v)
  \/ \E m \in Masters, v \in VcIds : CountSendRefused(m, v)
  \/ \E m \in Masters : CountRetryOutputs(m)
  \/ \E willing \in SUBSET InVCs : CountHandleInputs(willing)
  \/ \E m \in Masters, v \in OutVCs, n \in 1 .. MaxPackets : Respond(m, v, n)
  \/ \E m \in Masters : ResetMaster(m)
  \/ ResetSlave

StatsSpec == StatsInit /\ [][StatsNext]_allvars

-----------------------------------------------------------------------------
PortCounts ==
  [req_count : Nat, resp_count : Nat, total_delay : Nat, min_delay : Nat,
   max_delay : Nat]

\* Type invariant of the statistics: no counter and no delay is ever negative.
StatsTypeOK ==
  /\ slave_pair \in Masters \cup {None}
  /\ cycle \in 0 .. MaxCycle
  /\ mstats \in [Masters -> PortCounts]
  /\ sstats \in PortCounts
  /\ ivc \in [InVCs -> [enqueued : Nat, processed : Nat, dropped : Nat]]
  /\ ovc \in [Streams -> [enqueued : Nat, forwarded : Nat, dropped : Nat]]
  /\ \A s \in Streams : \A i \in 1 .. Len(sent_at[s]) :
       sent_at[s][i] \in 0 .. cycle
  /\ no_such_vc \in Nat /\ at_reset \in Nat /\ tries \in 0 .. MaxTries

(***************************************************************************)
(* The occupancy of a buffer can be read off its counters at any time,     *)
(* also while tick() turns an OutputVC over and after ports were reset:    *)
(* what went in and has not come out is what the buffer holds.             *)
(***************************************************************************)
VCStatsBalance ==
  /\ \A v \in InVCs : ivc[v].enqueued - ivc[v].processed = Len(inq[v])
  /\ \A s \in Streams : ovc[s].enqueued - ovc[s].forwarded = Len(outq[s])

(***************************************************************************)
(* The slave's req_count is the number of packets that arrived since its   *)
(* last reset: each was put into a VC, dropped at a full VC, or named no   *)
(* VC of the slave.                                                        *)
(***************************************************************************)
AttemptsAccounted ==
  sstats.req_count = Arrived(ivc) + no_such_vc - at_reset

\* PortStats::merge, for the fields modelled here.
Merge(a, b) ==
  [req_count |-> a.req_count + b.req_count,
   resp_count |-> a.resp_count + b.resp_count,
   total_delay |-> a.total_delay + b.total_delay,
   min_delay |-> IF b.min_delay < a.min_delay THEN b.min_delay ELSE a.min_delay,
   max_delay |-> IF b.max_delay > a.max_delay THEN b.max_delay ELSE a.max_delay]

\* PortManager::getDownstreamStats, of a module that owns the masters of M.
Merged(M) == FoldFunctionOnSet(Merge, ZeroStats, mstats, M)

(***************************************************************************)
(* The delays of a master are consistent, whenever its ports are reset and *)
(* whichever of them are merged into one report: the total lies between    *)
(* resp_count times the least and resp_count times the greatest delay.     *)
(***************************************************************************)
DelayBounds ==
  \A M \in SUBSET Masters :
    LET st == Merged(M)
    IN  /\ st.resp_count = 0 =>
             st.total_delay = 0 /\ st.min_delay = UINT64_MAX /\ st.max_delay = 0
        /\ st.resp_count > 0 =>
             /\ st.resp_count * st.min_delay <= st.total_delay
             /\ st.total_delay <= st.resp_count * st.max_delay
=============================================================================
