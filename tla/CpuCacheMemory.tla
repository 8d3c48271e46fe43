---------------------------- MODULE CpuCacheMemory ----------------------------
(***************************************************************************)
(* The initiators of CpuMemory with a CacheSim between them and the        *)
(* memory: their links end in the cache's upstream ports, and the cache    *)
(* has one downstream port.                                                *)
(*                                                                         *)
(* An address is a hit if its lowest three bits are 0: since addresses go  *)
(* up by 4 from 0x1000, the even ones of each initiator are.               *)
(***************************************************************************)
EXTENDS CpuMemory

CONSTANT MaxBuffer  \* CacheSim::MAX_BUFFER, 4 in the code

VARIABLES
  req_buffer,    \* CacheSim::req_buffer
  forwards,      \* how many scheduled lambdas are to call tryForward
  cache_out,     \* the OutputVC of the cache's downstream port
  memory_in,     \* the InputVC of the memory
  memory_resps   \* the lambdas that send a response of the memory to the cache

cacheVars == <<req_buffer, forwards, cache_out, memory_in, memory_resps>>
initiatorVars == <<tries, next_addr, inflight, completed, output_vc, accepted>>
allVars == <<vars, cacheVars>>

CacheInit ==
  /\ Init
  /\ req_buffer = <<>>
  /\ forwards = 0
  /\ cache_out = <<>>
  /\ memory_in = <<>>
  /\ memory_resps = {}

Hit(p) == heap.payload[p] # Null /\ heap.payload[p].addr % 2 = 0

(***************************************************************************)
(* CacheSim::handleUpstreamRequest for the front packet of port c.  A full *)
(* cache releases the packet and leaves it at the front of the InputVC.    *)
(***************************************************************************)
CacheFull(c) ==
  /\ ~ heap.ub
  /\ input_vc[c] # <<>>
  /\ Len(req_buffer) >= MaxBuffer
  /\ heap' = Release(heap, Head(input_vc[c]))
  /\ UNCHANGED <<initiatorVars, input_vc, responses, cacheVars>>

\* A hit is answered by the cache, and the request released at once.
CacheHit(c) ==
  LET p == Head(input_vc[c])
      h == Deref(heap, heap.payload[p])
  IN  /\ ~ heap.ub
      /\ input_vc[c] # <<>>
      /\ Len(req_buffer) < MaxBuffer
      /\ Hit(p)
      /\ heap' = Release(AcquireFilled(h, h.payload[p], p), p)
      /\ responses' = responses \cup {[pkt |-> Acquired(h), port |-> c]}
      /\ input_vc' = [input_vc EXCEPT ![c] = Tail(@)]
      /\ UNCHANGED <<initiatorVars, cacheVars>>

\* A miss is buffered, and tryForward scheduled.
CacheMiss(c) ==
  LET p == Head(input_vc[c])
  IN  /\ ~ heap.ub
      /\ input_vc[c] # <<>>
      /\ Len(req_buffer) < MaxBuffer
      /\ ~ Hit(p)
      /\ heap' = Deref(heap, heap.payload[p])
      /\ req_buffer' = Append(req_buffer, p)
      /\ forwards' = forwards + 1
      /\ input_vc' = [input_vc EXCEPT ![c] = Tail(@)]
      /\ UNCHANGED <<initiatorVars, responses, cache_out, memory_in, memory_resps>>

(***************************************************************************)
(* tryForward: the front of the buffer goes to the memory, over a link     *)
(* like those of the initiators.                                           *)
(***************************************************************************)
Forward ==
  LET p == Head(req_buffer)
      sent == req_buffer # <<>> /\ ~ Refused(cache_out, memory_in)
  IN  /\ heap' = IF req_buffer = <<>> THEN heap ELSE Deref(heap, heap.payload[p])
      /\ req_buffer' = IF sent THEN Tail(req_buffer) ELSE req_buffer
      /\ memory_in' = IF sent /\ Direct(cache_out, memory_in)
                      THEN Append(memory_in, p) ELSE memory_in
      /\ cache_out' = IF sent /\ Buffered(cache_out, memory_in)
                      THEN Append(cache_out, p) ELSE cache_out
      /\ UNCHANGED <<initiatorVars, input_vc, responses, memory_resps>>

CacheTick == ~ heap.ub /\ Forward /\ UNCHANGED forwards

ScheduledForward == ~ heap.ub /\ forwards > 0 /\ Forward /\ forwards' = forwards - 1

\* MemorySim::handleUpstreamRequest for a request of the cache.
MemoryHandlesMiss ==
  /\ ~ heap.ub
  /\ memory_in # <<>>
  /\ heap' = Answered(heap, Head(memory_in))
  /\ memory_resps' = memory_resps \cup {Acquired(heap)}
  /\ memory_in' = Tail(memory_in)
  /\ UNCHANGED <<initiatorVars, input_vc, responses, req_buffer, forwards, cache_out>>

(***************************************************************************)
(* CacheSim::handleDownstreamResponse.  The upstream port is the id of the *)
(* downstream port modulo their number: always the first.                  *)
(***************************************************************************)
FirstPort == CHOOSE c \in Initiators : TRUE

CacheAnswers(p) ==
  LET orig == heap.original_req[p]
      h == AcquireFilled(Counted(heap, p), heap.payload[orig], orig)
  IN  /\ ~ heap.ub
      /\ memory_resps' = memory_resps \ {p}
      /\ heap' = Release(h, p)
      /\ responses' = responses \cup {[pkt |-> Acquired(heap), port |-> FirstPort]}
      /\ UNCHANGED <<initiatorVars, input_vc, req_buffer, forwards, cache_out, memory_in>>

CacheNext ==
  \/ \E c \in Initiators :
       \/ (SendDirect(c) \/ SendBuffered(c) \/ SendRefused(c)) /\ UNCHANGED cacheVars
       \/ CacheFull(c) \/ CacheHit(c) \/ CacheMiss(c)
  \/ CacheTick \/ ScheduledForward \/ MemoryHandlesMiss
  \/ \E p \in memory_resps : CacheAnswers(p)
  \/ Respond /\ UNCHANGED cacheVars

CacheSpec == CacheInit /\ [][CacheNext]_allVars

-------------------------------------------------------------------------------
(***************************************************************************)
(* "Do not release orig_req, since it is still in use, and will be         *)
(* released in the upstream module" (cache_sim.hh, in                      *)
(* handleDownstreamResponse), and "reference count, ensures that the       *)
(* object original_req points to is not reclaimed too early" (packet.hh):  *)
(* the request that a response on its way to an initiator refers to is not *)
(* in the freelist, and keeps its payload, the one the response carries.   *)
(***************************************************************************)
OriginalInUse ==
  \A r \in responses :
    /\ Original(r) \notin ToSet(heap.freelist)
    /\ heap.payload[r.pkt] \in heap.live
    /\ OriginalPayload(r) = heap.payload[r.pkt]
===============================================================================
