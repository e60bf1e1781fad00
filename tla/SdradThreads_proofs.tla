-------------------------- MODULE SdradThreads_proofs -------------------------
(***************************************************************************)
(* The handshake of pthread_create for any number of threads, creators and *)
(* slots; the two tables when one thread creates and joins.                *)
(***************************************************************************)
EXTENDS SdradThreads, TLAPS

-----------------------------------------------------------------------------
(* The invariants *)

Constructing == {"find", "register", "request", "claim", "publish"}

(* The creator that spins is the holder of sgm_lock; while a constructor has *)
(* yet to read the routine, somebody spins for it and the routine is its own.*)
Handshake ==
  /\ \A t \in Thread : pc[t] = "spin" <=> sgm_lock = t
  /\ \A u \in Thread : pc[u] \in Constructing =>
       sgm_lock # NoThread /\ start_routine = u /\ constructor_done = 0

(* A found domain slot is an index of the table, or -1. *)
FoundSlot ==
  \A u \in Thread : pc[u] \in {"claim", "take"} => found[u] \in Slot \cup {-1}

(* What holds for every value of the constants. *)
CommonInv == TypeOK /\ Handshake /\ FoundSlot /\ RightRoutine

OneCreator == Creators \subseteq {0} /\ Detached = {}

(* A thread whose pthread_t the library still knows. *)
Live(u) ==
  pc[u] # "unborn" /\ (u \in reaped => Joining(u, {"scan", "release"}))

(* Where the threads can be when only thread 0 creates and joins. *)
Stages ==
  /\ pc[0] \in {"app", "spin", "take", "scan", "release", "corrupt"}
  /\ \A u \in Thread : pc[u] \in {"scan", "release", "spin"} => u = 0
  /\ \A u \in reaped : pc[u] = "ended"
  /\ pc[0] \in {"scan", "release"} => peer[0] \in reaped

TidsDistinct ==
  /\ \A u \in Thread : Live(u) => tid[u] \in Tid
  /\ \A u, v \in Thread : Live(u) /\ Live(v) /\ tid[u] = tid[v] => u = v

SlotOf(u) ==
  /\ thread_id[u] \in ThreadSlot
  /\ thread_id[u] <= sgm_total_thread
  /\ sgm_thread_id[thread_id[u]] = tid[u]

(* An entry of the table is a live thread's, and in the slot it found. *)
Owned(i) ==
  \E u \in Thread : /\ Live(u) /\ pc[u] \notin {"find", "register"}
                    /\ thread_id[u] = i /\ tid[u] = sgm_thread_id[i]

(* The slot a constructor found is still free when it writes it. *)
StillFree(u) ==
  thread_id[u] # -1 =>
    /\ thread_id[u] \in ThreadSlot
    /\ thread_id[u] <= sgm_total_thread + 1
    /\ sgm_thread_id[thread_id[u]] = THREAD_NONOCCUPIED

ThreadTable ==
  /\ \A u \in Thread : KeepsThreadSlot(u) => SlotOf(u)
  /\ \A i \in ThreadSlot : sgm_thread_id[i] \in Tid => Owned(i)
  /\ \A u \in Thread : pc[u] = "register" => StillFree(u)
  /\ \A i \in ThreadSlot :
       i > sgm_total_thread => sgm_thread_id[i] = THREAD_NONOCCUPIED
  /\ \A i \in ThreadSlot : i >= DOMAIN_2 => sgm_thread_id[i] # 0
  /\ pc[0] = "release" => found[0] = thread_id[peer[0]]

ThreadInv == CommonInv /\ Stages /\ TidsDistinct /\ ThreadTable

-----------------------------------------------------------------------------
OneRequester == Requesters \subseteq {0}

(* The domain slots a thread has, from registration until they are freed. *)
Keeps(u, d) ==
  \/ d \in requested[u]
  \/ KeepsDomain(u) /\ active_domain[thread_id[u]] = d

DomainTable ==
  /\ \A u \in Thread : (requested[u] # {} \/ pc[u] = "take") => u = 0
  /\ \A u, v \in Thread : \A d \in Slot : Keeps(u, d) /\ Keeps(v, d) => u = v
  /\ \A u \in Thread : KeepsDomain(u) => active_domain[thread_id[u]] \notin requested[u]
  /\ \A u \in Thread : \A d \in Slot : Keeps(u, d) => status[d] = DOMAIN_OCCUPIED
  /\ \A u \in Thread : pc[u] \in {"claim", "take"} /\ found[u] # -1
       => status[found[u]] = DOMAIN_NONOCCUPIED
  /\ NotCorrupt => \A d \in Slot : d >= DOMAIN_2 /\ status[d] = DOMAIN_OCCUPIED
       => \E u \in Thread : Keeps(u, d)

DomainInv == ThreadInv /\ DomainTable

-----------------------------------------------------------------------------
(* What the searches of the two tables return. *)

LEMMA LowestFreeIs ==
  ASSUME NEW table, NEW free, NEW i \in LowestFree(table, free)
  PROVE  \/ i = -1
         \/ /\ i \in DOMAIN table /\ table[i] = free
            /\ \A j \in DOMAIN table : table[j] = free => i <= j
BY DEF LowestFree

LEMMA FreeDomain ==
  ASSUME TypeOK, NEW d \in sdrad_find_free_domain
  PROVE  d # -1 => d \in Slot /\ status[d] = DOMAIN_NONOCCUPIED
<1>1. DOMAIN status = Slot
  BY DEF TypeOK
<1> QED
  BY <1>1, LowestFreeIs DEF sdrad_find_free_domain

LEMMA FreeThreadId ==
  ASSUME TypeOK, NEW i \in sdrad_find_free_thread_id
  PROVE  \/ i = -1
         \/ /\ i \in ThreadSlot /\ sgm_thread_id[i] = THREAD_NONOCCUPIED
            /\ \A j \in ThreadSlot : sgm_thread_id[j] = THREAD_NONOCCUPIED => i <= j
<1>1. DOMAIN sgm_thread_id = ThreadSlot
  BY DEF TypeOK
<1> QED
  BY <1>1, LowestFreeIs DEF sdrad_find_free_thread_id

LEMMA Numbers ==
  /\ NoThread \notin Thread
  /\ 0 \in Thread /\ Thread \subseteq Nat
  /\ 0 \in ThreadSlot /\ ROOT_DOMAIN \in ThreadSlot /\ ROOT_DOMAIN \in Slot
  /\ 0 \in Slot /\ ThreadSlot \subseteq Int /\ Slot \subseteq Int
  /\ 0 \notin Tid /\ THREAD_NONOCCUPIED \notin Tid
BY ThreadsAssumption, BaseAssumption DEF NoThread, ThreadSlot, Slot, ROOT_DOMAIN

-----------------------------------------------------------------------------
(* CommonInv is inductive. *)

LEMMA CommonInit ==
  ASSUME Init
  PROVE  CommonInv
<1>1. PICK id \in Tid : sgm_thread_id = [i \in ThreadSlot |->
         CASE i = MONITOR_DATA -> 0
           [] i = ROOT_DOMAIN -> id
           [] i >= DOMAIN_2 -> THREAD_NONOCCUPIED]
  BY DEF Init
<1>2. \A i \in ThreadSlot : sgm_thread_id[i] \in Tid \cup {0, THREAD_NONOCCUPIED}
  BY <1>1 DEF ThreadSlot, MONITOR_DATA, ROOT_DOMAIN, DOMAIN_2
<1>3. sgm_thread_id \in [ThreadSlot -> Tid \cup {0, THREAD_NONOCCUPIED}]
  BY <1>1, <1>2
<1>4. sgm_thread_id[ROOT_DOMAIN] \in Tid
  BY <1>1, Numbers DEF MONITOR_DATA, ROOT_DOMAIN, DOMAIN_2
<1>5. TypeOK
  BY <1>3, <1>4, Numbers DEF Init, TypeOK, Pc, DOMAIN_2, ROOT_DOMAIN
<1>6. Handshake /\ FoundSlot /\ RightRoutine
  BY Numbers DEF Init, Handshake, FoundSlot, RightRoutine, Constructing
<1> QED
  BY <1>5, <1>6 DEF CommonInv

(* The creator takes the lock, and nobody was constructing without it. *)
LEMMA SpawnCommon ==
  ASSUME CommonInv, NEW t \in Thread, NEW u \in Thread,
         pthread_create(t, u) \/ pthread_create_fails(t, u)
  PROVE  CommonInv'
<1>1. /\ Spawn(t, u) /\ sgm_lock = NoThread
      /\ pc[t] = "app" /\ pc[u] = "unborn"
      /\ \/ pc' = [pc EXCEPT ![t] = "spin", ![u] = "find"]
         \/ pc' = [pc EXCEPT ![t] = "spin"]
      /\ tid' \in [Thread -> Tid \cup {0}]
  BY DEF pthread_create, pthread_create_fails, NextUnborn, CanLock, At, Goto,
         CommonInv, TypeOK, FreeTids
<1>2. TypeOK'
  BY <1>1 DEF CommonInv, TypeOK, Spawn, tables, Pc
<1>3. Handshake'
  BY <1>1, Numbers DEF CommonInv, TypeOK, Handshake, Spawn, Constructing
<1>4. FoundSlot' /\ RightRoutine'
  BY <1>1 DEF CommonInv, TypeOK, FoundSlot, RightRoutine, Spawn
<1> QED
  BY <1>2, <1>3, <1>4 DEF CommonInv

LEMMA CreateReturnsCommon ==
  ASSUME CommonInv, NEW t \in Thread, pthread_create_returns(t)
  PROVE  CommonInv'
<1> USE DEF CommonInv, TypeOK, pthread_create_returns, tables, locals, At, Goto
<1>1. TypeOK'
  BY DEF Pc
<1>2. Handshake'
  BY Numbers DEF Handshake, Constructing
<1>3. FoundSlot' /\ RightRoutine'
  BY DEF FoundSlot, RightRoutine
<1> QED
  BY <1>1, <1>2, <1>3

LEMMA CorruptsCommon ==
  ASSUME CommonInv, NEW t \in Thread, Corrupts(t), pc[t] # "spin"
  PROVE  CommonInv'
<1> USE DEF CommonInv, TypeOK, Corrupts, tables, locals, Goto
<1>1. TypeOK'
  BY DEF Pc
<1>2. Handshake'
  BY Numbers DEF Handshake, Constructing
<1>3. FoundSlot' /\ RightRoutine'
  BY DEF FoundSlot, RightRoutine
<1> QED
  BY <1>1, <1>2, <1>3

(* A constructor, up to the call of the routine. *)
LEMMA ConstructorCommon ==
  ASSUME CommonInv, NEW u \in Thread, Constructor(u)
  PROVE  CommonInv'
<1> USE DEF CommonInv, TypeOK, tables, locals, At, Goto
<1>1. CASE find_thread_slot(u)
  <2>1. thread_id' \in [Thread -> ThreadSlot \cup {-1}]
    BY <1>1, FreeThreadId DEF find_thread_slot
  <2>2. TypeOK'
    BY <1>1, <2>1 DEF find_thread_slot, Pc
  <2>3. Handshake' /\ FoundSlot' /\ RightRoutine'
    BY <1>1 DEF find_thread_slot, Handshake, FoundSlot, RightRoutine, Constructing
  <2> QED
    BY <2>2, <2>3
<1>2. CASE register_thread(u)
  <2>1. CASE thread_id[u] = -1
    BY <1>2, <2>1, CorruptsCommon DEF register_thread
  <2>2. CASE thread_id[u] # -1
    <3> HIDE DEF tables, locals, At
    <3>0. /\ sgm_thread_id' \in [ThreadSlot -> Tid \cup {0, THREAD_NONOCCUPIED}]
          /\ active_domain' \in [ThreadSlot -> Slot]
          /\ sgm_total_thread' \in Nat
      BY <1>2, <2>2, Numbers DEF register_thread
    <3> USE DEF tables, locals, At
    <3>1. TypeOK'
      BY <1>2, <2>2, <3>0 DEF register_thread, Pc
    <3>2. Handshake' /\ FoundSlot' /\ RightRoutine'
      BY <1>2, <2>2 DEF register_thread, Handshake, FoundSlot, RightRoutine, Constructing
    <3> QED
      BY <3>1, <3>2
  <2> QED
    BY <2>1, <2>2
<1>3. CASE find_domain(u)
  <2>1. PICK d \in Slot \cup {-1} : found' = [found EXCEPT ![u] = d]
    BY <1>3, FreeDomain DEF find_domain, FindDomain
  <2>2. TypeOK'
    BY <1>3, <2>1 DEF find_domain, Pc
  <2>3. Handshake' /\ FoundSlot' /\ RightRoutine'
    BY <1>3, <2>1 DEF find_domain, Handshake, FoundSlot, RightRoutine, Constructing
  <2> QED
    BY <2>2, <2>3
<1>4. CASE claim_domain(u)
  <2>1. CASE found[u] = -1
    BY <1>4, <2>1, CorruptsCommon DEF claim_domain
  <2>2. CASE found[u] # -1
    <3>1. found[u] \in Slot
      BY <1>4, <2>2 DEF claim_domain, FoundSlot
    <3>2. TypeOK'
      BY <1>4, <2>2, <3>1 DEF claim_domain, TakeDomain, Pc
    <3>3. Handshake' /\ FoundSlot' /\ RightRoutine'
      BY <1>4, <2>2 DEF claim_domain, Handshake, FoundSlot, RightRoutine, Constructing
    <3> QED
      BY <3>2, <3>3
  <2> QED
    BY <2>1, <2>2
<1>5. CASE publish_done(u)
  <2>1. start_routine = u
    BY <1>5 DEF publish_done, Handshake, Constructing
  <2>2. TypeOK'
    BY <1>5 DEF publish_done, Pc
  <2>3. Handshake' /\ FoundSlot'
    BY <1>5 DEF publish_done, Handshake, FoundSlot, Constructing
  <2>4. RightRoutine'
    BY <1>5, <2>1 DEF publish_done, RightRoutine
  <2> QED
    BY <2>2, <2>3, <2>4
<1>6. CASE setup_and_start(u)
  <2>1. TypeOK'
    BY <1>6 DEF setup_and_start, Pc
  <2>2. Handshake' /\ FoundSlot' /\ RightRoutine'
    BY <1>6 DEF setup_and_start, Handshake, FoundSlot, RightRoutine, Constructing
  <2> QED
    BY <2>1, <2>2
<1> QED
  BY <1>1, <1>2, <1>3, <1>4, <1>5, <1>6 DEF Constructor

(* sdrad_init in a running thread. *)
LEMMA RequestCommon ==
  ASSUME CommonInv, NEW t \in Thread, sdrad_request_sdi(t) \/ take_domain(t)
  PROVE  CommonInv'
<1> USE DEF CommonInv, TypeOK, tables, locals, At, Goto
<1>1. CASE sdrad_request_sdi(t)
  <2>1. PICK d \in Slot \cup {-1} : found' = [found EXCEPT ![t] = d]
    BY <1>1, FreeDomain DEF sdrad_request_sdi, FindDomain
  <2>2. TypeOK'
    BY <1>1, <2>1 DEF sdrad_request_sdi, Pc
  <2>3. Handshake' /\ FoundSlot' /\ RightRoutine'
    BY <1>1, <2>1 DEF sdrad_request_sdi, Handshake, FoundSlot, RightRoutine, Constructing
  <2> QED
    BY <2>2, <2>3
<1>2. CASE take_domain(t)
  <2>1. CASE found[t] = -1
    BY <1>2, <2>1, CorruptsCommon DEF take_domain
  <2>2. CASE found[t] # -1
    <3>1. found[t] \in Slot
      BY <1>2, <2>2 DEF take_domain, FoundSlot
    <3>2. TypeOK'
      BY <1>2, <2>2, <3>1 DEF take_domain, TakeDomain, Pc
    <3>3. Handshake' /\ FoundSlot' /\ RightRoutine'
      BY <1>2, <2>2 DEF take_domain, Handshake, FoundSlot, RightRoutine, Constructing
    <3> QED
      BY <3>2, <3>3
  <2> QED
    BY <2>1, <2>2
<1> QED
  BY <1>1, <1>2

(* The end of a routine and its join. *)
LEMMA JoinCommon ==
  ASSUME CommonInv, NEW t \in Thread, NEW u \in Thread,
         \/ thread_ends(t) \/ pthread_join(t, u)
         \/ join_scan(t) \/ join_release(t)
  PROVE  CommonInv'
<1> USE DEF CommonInv, TypeOK, tables, locals, At, Goto
<1>1. CASE thread_ends(t)
  <2>1. TypeOK'
    BY <1>1 DEF thread_ends, Pc
  <2>2. Handshake' /\ FoundSlot' /\ RightRoutine'
    BY <1>1 DEF thread_ends, Handshake, FoundSlot, RightRoutine, Constructing
  <2> QED
    BY <2>1, <2>2
<1>2. CASE pthread_join(t, u)
  <2>1. TypeOK'
    BY <1>2 DEF pthread_join, Pc
  <2>2. Handshake' /\ FoundSlot' /\ RightRoutine'
    BY <1>2 DEF pthread_join, Handshake, FoundSlot, RightRoutine, Constructing
  <2> QED
    BY <2>1, <2>2
<1>3. CASE join_scan(t) /\ sdrad_get_sti(tid[peer[t]]) = {}
  BY <1>3, CorruptsCommon DEF join_scan
<1>4. CASE join_scan(t) /\ sdrad_get_sti(tid[peer[t]]) # {}
  <2>1. PICK i \in ThreadSlot : FreeDomainOf(i) /\ found' = [found EXCEPT ![t] = i]
    BY <1>4 DEF join_scan, sdrad_get_sti
  <2>2. TypeOK'
    BY <1>4, <2>1 DEF join_scan, FreeDomainOf, Pc
  <2>3. Handshake' /\ FoundSlot' /\ RightRoutine'
    BY <1>4, <2>1 DEF join_scan, Handshake, FoundSlot, RightRoutine, Constructing
  <2> QED
    BY <2>2, <2>3
<1>5. CASE join_release(t)
  <2>1. TypeOK'
    BY <1>5 DEF join_release, FreeThreadSlot, Pc
  <2>2. Handshake' /\ FoundSlot' /\ RightRoutine'
    BY <1>5 DEF join_release, Handshake, FoundSlot, RightRoutine, Constructing
  <2> QED
    BY <2>1, <2>2
<1> QED
  BY <1>1, <1>2, <1>3, <1>4, <1>5

LEMMA UnchangedCommon ==
  ASSUME CommonInv, UNCHANGED vars
  PROVE  CommonInv'
<1> USE DEF vars, tables, locals
<1>1. TypeOK'
  BY DEF CommonInv, TypeOK
<1>2. Handshake' /\ FoundSlot' /\ RightRoutine'
  BY DEF CommonInv, Handshake, FoundSlot, RightRoutine
<1> QED
  BY <1>1, <1>2 DEF CommonInv

LEMMA CommonNext ==
  ASSUME CommonInv, [Next]_vars
  PROVE  CommonInv'
<1>1. ASSUME NEW t \in Thread, Library(t)
      PROVE  CommonInv'
  BY <1>1, ConstructorCommon, CreateReturnsCommon, RequestCommon, JoinCommon
     DEF Library
<1>2. ASSUME NEW t \in Thread,
             pthread_create_spins(t) \/ sdrad_request_sdi(t) \/ thread_ends(t)
      PROVE  CommonInv'
  BY <1>2, UnchangedCommon, RequestCommon, JoinCommon DEF pthread_create_spins
<1>3. ASSUME NEW t \in Thread, NEW u \in Thread,
             pthread_create(t, u) \/ pthread_create_fails(t, u) \/ pthread_join(t, u)
      PROVE  CommonInv'
  BY <1>3, SpawnCommon, JoinCommon
<1> QED
  BY <1>1, <1>2, <1>3, UnchangedCommon DEF Next, Quiet

(* Whatever the number of threads, of creators and of slots, and whether or  *)
(* not the tables fill up: the handshake over one global is sound.           *)
THEOREM CommonInvariance == Spec => []CommonInv
<1> QED
  BY CommonInit, CommonNext, PTL DEF Spec

(* The tables of sdrad_global_manager and the locals of the handlers keep    *)
(* their types for any number of threads and slots.                          *)
THEOREM ThreadsTypeCorrect == Spec => []TypeOK
<1>1. CommonInv => TypeOK
  BY DEF CommonInv
<1> QED
  BY <1>1, CommonInvariance, PTL

(* Each thread runs the routine its pthread_create was given.                *)
THEOREM RoutinesRight == Spec => []RightRoutine
<1>1. CommonInv => RightRoutine
  BY DEF CommonInv
<1> QED
  BY <1>1, CommonInvariance, PTL

-----------------------------------------------------------------------------
(* ThreadInv is inductive if one thread creates and joins. *)

LEMMA ThreadInit ==
  ASSUME Init
  PROVE  ThreadInv
<1>1. PICK id \in Tid : sgm_thread_id = [i \in ThreadSlot |->
         CASE i = MONITOR_DATA -> 0
           [] i = ROOT_DOMAIN -> id
           [] i >= DOMAIN_2 -> THREAD_NONOCCUPIED]
  BY DEF Init
<1>2. /\ sgm_thread_id[MONITOR_DATA] = 0
      /\ sgm_thread_id[ROOT_DOMAIN] = id
      /\ \A i \in ThreadSlot : i >= DOMAIN_2 => sgm_thread_id[i] = THREAD_NONOCCUPIED
  BY <1>1, Numbers DEF MONITOR_DATA, ROOT_DOMAIN, DOMAIN_2
<1>3. /\ tid[0] = id /\ pc[0] = "app" /\ thread_id[0] = ROOT_DOMAIN
      /\ reaped = {} /\ sgm_total_thread = 2
      /\ \A u \in Thread \ {0} : pc[u] = "unborn"
  BY <1>2, Numbers DEF Init, ROOT_DOMAIN
<1>4. Stages /\ TidsDistinct
  BY <1>3, Numbers DEF Stages, TidsDistinct, Live
<1>5. \A i \in ThreadSlot : i \in {MONITOR_DATA, ROOT_DOMAIN} \/ i >= DOMAIN_2
  BY DEF ThreadSlot, MONITOR_DATA, ROOT_DOMAIN, DOMAIN_2
<1>6. Owned(ROOT_DOMAIN) /\ SlotOf(0)
  BY <1>2, <1>3, Numbers DEF Owned, Live, SlotOf, ROOT_DOMAIN
<1>7. \A u \in Thread : KeepsThreadSlot(u) => u = 0
  BY <1>3 DEF KeepsThreadSlot, Registered
<1>8. \A i \in ThreadSlot : i > sgm_total_thread => i >= DOMAIN_2
  BY <1>3 DEF DOMAIN_2, ThreadSlot
<1>9. ThreadTable
  BY <1>2, <1>3, <1>5, <1>6, <1>7, <1>8, Numbers DEF ThreadTable, THREAD_NONOCCUPIED
<1> QED
  BY <1>4, <1>9, CommonInit DEF ThreadInv

(* The slot of a thread is the only one with its pthread_t. *)
LEMMA OneSlot ==
  ASSUME ThreadInv, NEW u \in Thread, Live(u), NEW i \in ThreadSlot,
         sgm_thread_id[i] = tid[u]
  PROVE  i = thread_id[u]
BY DEF ThreadInv, TidsDistinct, ThreadTable, Owned

LEMMA KeepsLive ==
  ASSUME ThreadInv, NEW u \in Thread, KeepsThreadSlot(u)
  PROVE  Live(u)
BY DEF ThreadInv, Stages, KeepsThreadSlot, Registered, Live

LEMMA FoundBySearch ==
  ASSUME ThreadInv, NEW u \in Thread, KeepsThreadSlot(u)
  PROVE  sdrad_get_sti(tid[u]) = {thread_id[u]}
<1>1. SlotOf(u) /\ Live(u)
  BY KeepsLive DEF ThreadInv, ThreadTable
<1>2. \A i \in ThreadSlot : sgm_thread_id[i] = tid[u] => i = thread_id[u]
  BY <1>1, OneSlot
<1>3. {k \in ThreadSlot : k <= sgm_total_thread /\ sgm_thread_id[k] = tid[u]}
        = {thread_id[u]}
  BY <1>1, <1>2 DEF SlotOf
<1>4. thread_id[u] <= thread_id[u]
  BY <1>1 DEF SlotOf, ThreadSlot
<1> QED
  BY <1>3, <1>4 DEF sdrad_get_sti

LEMMA JoinedKeeps ==
  ASSUME ThreadInv, pc[0] \in {"scan", "release"}
  PROVE  /\ peer[0] \in Thread \ {0} /\ pc[peer[0]] = "ended"
         /\ peer[0] \in reaped /\ KeepsThreadSlot(peer[0])
BY Numbers DEF ThreadInv, CommonInv, TypeOK, Stages, KeepsThreadSlot, Joining

(* A thread moves on without touching the table of threads. *)
LEMMA MovesOn ==
  ASSUME ThreadInv, CommonInv',
         UNCHANGED <<sgm_thread_id, sgm_total_thread, tid, reaped, thread_id, peer>>,
         NEW t \in Thread, NEW x, pc' = [pc EXCEPT ![t] = x],
         pc[t] \in {"register", "request", "claim", "publish", "setup", "app",
                   "spin", "take"},
         x \in {"claim", "publish", "setup", "app", "take", "ended", "corrupt"},
         pc[t] = "register" => x = "corrupt",
         t = 0 => x \in {"app", "take", "corrupt"},
         pc[0] = "release" => found'[0] = found[0]
  PROVE  ThreadInv'
<1> USE DEF ThreadInv, CommonInv, TypeOK
<1>1. t \notin reaped
  BY DEF Stages
<1>2. Stages'
  BY <1>1, Numbers DEF Stages
<1>3. \A u \in Thread : /\ Live(u)' <=> Live(u)
                        /\ KeepsThreadSlot(u)' => KeepsThreadSlot(u)
  BY <1>1 DEF Live, KeepsThreadSlot, Registered, Joining
<1>4. TidsDistinct'
  BY <1>3 DEF TidsDistinct
<1>5. \A i \in ThreadSlot : Owned(i) => Owned(i)'
  BY <1>3 DEF Owned
<1>6. ThreadTable'
  BY <1>3, <1>5, Numbers DEF ThreadTable, SlotOf, StillFree
<1> QED
  BY <1>2, <1>4, <1>6

LEMMA CreateThread ==
  ASSUME OneCreator, ThreadInv, CommonInv', NEW t \in Thread, NEW u \in Thread,
         pthread_create(t, u) \/ pthread_create_fails(t, u)
  PROVE  ThreadInv'
<1> USE DEF ThreadInv, CommonInv, TypeOK
<1>1. /\ t = 0 /\ u # 0 /\ pc[0] = "app" /\ pc[u] = "unborn" /\ u \notin reaped
      /\ Spawn(0, u)
  BY DEF OneCreator, Stages, At, NextUnborn, pthread_create, pthread_create_fails
<1>2. UNCHANGED <<sgm_thread_id, sgm_total_thread, reaped, thread_id>>
  BY <1>1 DEF Spawn, tables
<1>3. \/ /\ pc' = [pc EXCEPT ![0] = "spin", ![u] = "find"]
         /\ \E id \in FreeTids : tid' = [tid EXCEPT ![u] = id]
      \/ pc' = [pc EXCEPT ![0] = "spin"] /\ tid' = tid
  BY <1>1 DEF pthread_create, pthread_create_fails, Goto
<1>4. Stages'
  BY <1>1, <1>2, <1>3, Numbers DEF Stages
<1>5. \A v \in Thread : Live(v) <=> pc[v] # "unborn" /\ v \notin reaped
  BY <1>1 DEF Stages, Live, Joining
<1>6. \A v \in Thread : Live(v)' <=> pc'[v] # "unborn" /\ v \notin reaped
  BY <1>1, <1>2, <1>3, <1>4 DEF Stages, Live, Joining
<1>7. \A v \in Thread \ {u} : (Live(v)' <=> Live(v)) /\ tid'[v] = tid[v]
  BY <1>1, <1>2, <1>3, <1>5, <1>6, Numbers
<1>8. Live(u)' => tid'[u] \in Tid /\ \A v \in Thread : v \notin reaped => tid[v] # tid'[u]
  BY <1>1, <1>3, <1>6 DEF FreeTids
<1>9. TidsDistinct'
  BY <1>5, <1>7, <1>8 DEF TidsDistinct
<1>10. \A v \in Thread : KeepsThreadSlot(v)' => KeepsThreadSlot(v) /\ v # u
  BY <1>1, <1>2, <1>3, <1>4 DEF Stages, KeepsThreadSlot, Registered, Joining
<1>11. \A i \in ThreadSlot : Owned(i) => Owned(i)'
  BY <1>1, <1>2, <1>3, <1>7, Numbers DEF Owned, Live
<1>12. ThreadTable'
  BY <1>1, <1>2, <1>3, <1>7, <1>10, <1>11, Numbers DEF ThreadTable, SlotOf, StillFree
<1> QED
  BY <1>4, <1>9, <1>12

LEMMA FindThreadSlot ==
  ASSUME ThreadInv, CommonInv', NEW u \in Thread, find_thread_slot(u)
  PROVE  ThreadInv'
<1> USE DEF ThreadInv, CommonInv, TypeOK
<1>1. PICK i \in sdrad_find_free_thread_id :
        /\ thread_id' = [thread_id EXCEPT ![u] = i]
        /\ pc[u] = "find" /\ pc' = [pc EXCEPT ![u] = "register"]
        /\ UNCHANGED <<sgm_thread_id, sgm_total_thread, tid, reaped, found, peer>>
  BY DEF find_thread_slot, tables, At, Goto
<1>2. u # 0 /\ u \notin reaped
  BY <1>1 DEF Stages
<1>3. Stages'
  BY <1>1, <1>2, Numbers DEF Stages
<1>4. \A v \in Thread : /\ Live(v)' <=> Live(v)
                        /\ KeepsThreadSlot(v)' <=> KeepsThreadSlot(v)
                        /\ KeepsThreadSlot(v) => v # u
  BY <1>1, <1>2 DEF Live, KeepsThreadSlot, Registered, Joining
<1>5. TidsDistinct'
  BY <1>1, <1>4 DEF TidsDistinct
<1>6. \A j \in ThreadSlot : Owned(j) => Owned(j)'
  BY <1>1, <1>4 DEF Owned
<1>7. StillFree(u)'
  <2>1. CASE i = -1
    BY <1>1, <2>1 DEF StillFree
  <2>2. CASE i # -1
    <3>1. /\ i \in ThreadSlot /\ sgm_thread_id[i] = THREAD_NONOCCUPIED
          /\ \A j \in ThreadSlot : sgm_thread_id[j] = THREAD_NONOCCUPIED => i <= j
      BY <2>2, FreeThreadId
    <3>2. i <= sgm_total_thread + 1
      <4>1. CASE sgm_total_thread + 1 \in ThreadSlot
        BY <3>1, <4>1 DEF ThreadTable
      <4>2. CASE sgm_total_thread + 1 \notin ThreadSlot
        BY <3>1, <4>2, ThreadsAssumption DEF ThreadSlot
      <4> QED
        BY <4>1, <4>2
    <3> QED
      BY <1>1, <3>1, <3>2 DEF StillFree
  <2> QED
    BY <2>1, <2>2
<1>8. \A v \in Thread \ {u} : pc[v] = "register" => StillFree(v)'
  BY <1>1 DEF ThreadTable, StillFree
<1>9. peer[0] # u \/ pc[0] # "release"
  BY <1>1, JoinedKeeps
<1>10. ThreadTable'
  BY <1>1, <1>2, <1>4, <1>6, <1>7, <1>8, <1>9, JoinedKeeps, Numbers
     DEF ThreadTable, SlotOf
<1> QED
  BY <1>3, <1>5, <1>10

LEMMA RegisterThread ==
  ASSUME ThreadInv, CommonInv', NEW u \in Thread, register_thread(u)
  PROVE  ThreadInv'
<1> USE DEF ThreadInv, CommonInv, TypeOK
<1>1. CASE thread_id[u] = -1
  BY <1>1, MovesOn DEF register_thread, Corrupts, tables, locals, At, Goto
<1>2. CASE thread_id[u] # -1
  <2> DEFINE i == thread_id[u]
  <2>1. /\ pc[u] = "register" /\ pc' = [pc EXCEPT ![u] = "request"]
        /\ sgm_thread_id' = [sgm_thread_id EXCEPT ![i] = tid[u]]
        /\ sgm_total_thread' = sgm_total_thread + 1
        /\ UNCHANGED <<tid, reaped, thread_id, found, peer>>
    BY <1>2 DEF register_thread, locals, At, Goto
  <2>2. /\ i \in ThreadSlot /\ i <= sgm_total_thread + 1
        /\ sgm_thread_id[i] = THREAD_NONOCCUPIED
    BY <1>2, <2>1 DEF ThreadTable, StillFree
  <2>3. u # 0 /\ u \notin reaped
    BY <2>1 DEF Stages
  <2>4. Stages'
    BY <2>1, <2>3, Numbers DEF Stages
  <2>5. \A v \in Thread : /\ Live(v)' <=> Live(v)
                          /\ KeepsThreadSlot(v)' => KeepsThreadSlot(v) \/ v = u
    BY <2>1, <2>3 DEF Live, KeepsThreadSlot, Registered, Joining
  <2>6. TidsDistinct'
    BY <2>1, <2>5 DEF TidsDistinct
  <2>7. SlotOf(u)' /\ Owned(i)'
    BY <2>1, <2>2, <2>3, <2>5 DEF SlotOf, Owned, Live, ThreadSlot
  <2>8. \A v \in Thread : KeepsThreadSlot(v) => thread_id[v] # i /\ SlotOf(v)
    <3>1. \A v \in Thread : KeepsThreadSlot(v) => tid[v] \in Tid /\ SlotOf(v)
      BY KeepsLive DEF TidsDistinct, ThreadTable
    <3> QED
      BY <2>2, <3>1, Numbers DEF SlotOf
  <2>9. \A v \in Thread : KeepsThreadSlot(v) => SlotOf(v)'
    BY <2>1, <2>2, <2>8 DEF SlotOf, ThreadSlot
  <2>10. \A j \in ThreadSlot \ {i} : Owned(j) => Owned(j)'
    BY <2>1, <2>5 DEF Owned
  <2>11. \A v \in Thread : pc'[v] # "register"
    BY <2>1 DEF Handshake, Constructing
  <2>12. \A j \in ThreadSlot \ {i} : sgm_thread_id'[j] = sgm_thread_id[j]
    BY <2>1, <2>2
  <2>13. \A j \in ThreadSlot : j > sgm_total_thread + 1 =>
            j # i /\ j > sgm_total_thread
    BY <2>2 DEF ThreadSlot
  <2>14. sgm_thread_id'[i] # 0
    <3>1. tid[u] \in Tid
      BY <2>1, <2>3 DEF TidsDistinct, Live
    <3> QED
      BY <2>1, <2>2, <3>1, Numbers
  <2>15. \A j \in ThreadSlot : j >= DOMAIN_2 => sgm_thread_id'[j] # 0
    BY <2>12, <2>14 DEF ThreadTable
  <2>16. ThreadTable'
    BY <2>1, <2>3, <2>5, <2>7, <2>9, <2>10, <2>11, <2>12, <2>13, <2>15, Numbers
       DEF ThreadTable
  <2> QED
    BY <2>4, <2>6, <2>16
<1> QED
  BY <1>1, <1>2

LEMMA JoinThread ==
  ASSUME OneCreator, ThreadInv, CommonInv', NEW t \in Thread, NEW u \in Thread,
         pthread_join(t, u)
  PROVE  ThreadInv'
<1> USE DEF ThreadInv, CommonInv, TypeOK
<1>1. /\ t = 0 /\ u # 0 /\ pc[0] = "app" /\ pc[u] = "ended" /\ u \notin reaped
      /\ reaped' = reaped \cup {u}
      /\ peer' = [peer EXCEPT ![0] = u]
      /\ pc' = [pc EXCEPT ![0] = "scan"]
      /\ UNCHANGED <<sgm_thread_id, sgm_total_thread, tid, thread_id, found>>
  BY DEF OneCreator, pthread_join, Joinable, tables, At, Goto
<1>2. Stages'
  BY <1>1, Numbers DEF Stages
<1>3. \A v \in Thread : /\ Live(v)' <=> Live(v)
                        /\ KeepsThreadSlot(v)' => KeepsThreadSlot(v)
  BY <1>1, <1>2, Numbers DEF Stages, Live, KeepsThreadSlot, Registered, Joining
<1>4. TidsDistinct'
  BY <1>1, <1>3 DEF TidsDistinct
<1>5. \A i \in ThreadSlot : Owned(i) => Owned(i)'
  BY <1>1, <1>3, Numbers DEF Owned
<1>6. ThreadTable'
  BY <1>1, <1>3, <1>5, Numbers DEF ThreadTable, SlotOf, StillFree
<1> QED
  BY <1>2, <1>4, <1>6

(* The joined thread still has its slot, so the search has an answer.        *)
LEMMA ScanFinds ==
  ASSUME ThreadInv, NEW t \in Thread, join_scan(t)
  PROVE  /\ t = 0 /\ pc[0] = "scan" /\ NotCorrupt
         /\ pc' = [pc EXCEPT ![0] = "release"]
         /\ UNCHANGED <<sgm_thread_id, sgm_total_thread, active_domain, tid, reaped,
                        thread_id, requested, peer>>
         /\ FreeDomainOf(thread_id[peer[0]])
         /\ found' = [found EXCEPT ![0] = thread_id[peer[0]]]
<1>1. t = 0 /\ pc[0] = "scan" /\ NotCorrupt
  BY DEF join_scan, ThreadInv, Stages, At
<1>2. peer[0] \in Thread /\ KeepsThreadSlot(peer[0])
  BY <1>1, JoinedKeeps
<1>3. sdrad_get_sti(tid[peer[0]]) = {thread_id[peer[0]]}
  BY <1>2, FoundBySearch
<1> QED
  BY <1>1, <1>3 DEF join_scan, Goto

LEMMA ScanThread ==
  ASSUME ThreadInv, CommonInv', NEW t \in Thread, join_scan(t)
  PROVE  ThreadInv'
<1> USE DEF ThreadInv, CommonInv, TypeOK
<1>1. /\ t = 0 /\ pc[0] = "scan"
      /\ pc' = [pc EXCEPT ![0] = "release"]
      /\ UNCHANGED <<sgm_thread_id, sgm_total_thread, tid, reaped, thread_id, peer>>
  BY ScanFinds
<1>2. found' = [found EXCEPT ![0] = thread_id[peer[0]]]
  BY ScanFinds
<1>3. Stages'
  BY <1>1, Numbers DEF Stages
<1>4. \A v \in Thread : /\ Live(v)' <=> Live(v)
                        /\ KeepsThreadSlot(v)' <=> KeepsThreadSlot(v)
  BY <1>1, <1>3, Numbers DEF Stages, Live, KeepsThreadSlot, Registered, Joining
<1>5. TidsDistinct'
  BY <1>1, <1>4 DEF TidsDistinct
<1>6. \A i \in ThreadSlot : Owned(i) => Owned(i)'
  BY <1>1, <1>4, Numbers DEF Owned
<1>7. ThreadTable'
  BY <1>1, <1>2, <1>4, <1>6, Numbers DEF ThreadTable, SlotOf, StillFree
<1> QED
  BY <1>3, <1>5, <1>7

LEMMA ReleaseThread ==
  ASSUME ThreadInv, CommonInv', NEW t \in Thread, join_release(t)
  PROVE  ThreadInv'
<1> USE DEF ThreadInv, CommonInv, TypeOK
<1> DEFINE u == peer[0]
<1> DEFINE i == thread_id[u]
<1>1. /\ t = 0 /\ pc[0] = "release" /\ found[0] = i
      /\ pc' = [pc EXCEPT ![0] = "app"]
      /\ sgm_thread_id' = [sgm_thread_id EXCEPT ![i] = THREAD_NONOCCUPIED]
      /\ UNCHANGED <<sgm_total_thread, tid, reaped, thread_id, found, peer>>
  BY DEF join_release, FreeThreadSlot, Stages, ThreadTable, locals, At, Goto
<1>2. /\ u \in Thread \ {0} /\ u \in reaped /\ pc[u] = "ended"
      /\ KeepsThreadSlot(u) /\ Live(u) /\ SlotOf(u)
  BY <1>1, JoinedKeeps, KeepsLive DEF ThreadTable
<1>3. Stages'
  BY <1>1, Numbers DEF Stages
<1>4. \A v \in Thread : /\ Live(v)' <=> Live(v) /\ v # u
                        /\ KeepsThreadSlot(v)' => KeepsThreadSlot(v) /\ v # u
  BY <1>1, <1>2, <1>3, Numbers DEF Stages, Live, KeepsThreadSlot, Registered, Joining
<1>5. TidsDistinct'
  BY <1>1, <1>4 DEF TidsDistinct
<1>6. \A v \in Thread : KeepsThreadSlot(v) /\ v # u => thread_id[v] # i
  <2>1. \A v \in Thread : KeepsThreadSlot(v) /\ thread_id[v] = i => tid[v] = tid[u]
    BY <1>2 DEF ThreadTable, SlotOf
  <2> QED
    BY <1>2, <2>1, KeepsLive DEF TidsDistinct
<1>7. sgm_thread_id'[i] \notin Tid /\ sgm_thread_id'[i] = THREAD_NONOCCUPIED
  BY <1>1, <1>2, Numbers DEF SlotOf
<1>8. \A j \in ThreadSlot \ {i} : sgm_thread_id'[j] = sgm_thread_id[j]
  BY <1>1, <1>2 DEF SlotOf
<1>9. \A j \in ThreadSlot \ {i} : Owned(j) => Owned(j)'
  BY <1>1, <1>2, <1>4, <1>8, Numbers DEF Owned
<1>10. \A v \in Thread : KeepsThreadSlot(v)' => SlotOf(v)'
  BY <1>1, <1>4, <1>6, <1>8 DEF ThreadTable, SlotOf
<1>11. \A v \in Thread : StillFree(v) => StillFree(v)'
  BY <1>1, <1>7, <1>8 DEF StillFree
<1>12. \A j \in ThreadSlot : j >= DOMAIN_2 => sgm_thread_id'[j] # 0
  BY <1>7, <1>8 DEF ThreadTable, THREAD_NONOCCUPIED
<1>13. \A j \in ThreadSlot : j > sgm_total_thread => sgm_thread_id'[j] = THREAD_NONOCCUPIED
  BY <1>7, <1>8 DEF ThreadTable
<1>14. \A j \in ThreadSlot : sgm_thread_id'[j] \in Tid => Owned(j)'
  BY <1>7, <1>8, <1>9 DEF ThreadTable
<1>15. \A v \in Thread : pc'[v] = "register" => StillFree(v)'
  BY <1>1, <1>11 DEF ThreadTable
<1>16. pc'[0] = "app"
  BY <1>1, Numbers
<1>17. ThreadTable'
  BY <1>1, <1>10, <1>12, <1>13, <1>14, <1>15, <1>16 DEF ThreadTable
<1> QED
  BY <1>3, <1>5, <1>17

LEMMA ThreadNext ==
  ASSUME OneCreator, ThreadInv, [Next]_vars
  PROVE  ThreadInv'
<1>1. CommonInv'
  BY CommonNext DEF ThreadInv
<1>2. pc \in [Thread -> Pc] /\ found \in [Thread -> Slot \cup ThreadSlot \cup {-1}]
  BY DEF ThreadInv, CommonInv, TypeOK
<1>3. ASSUME NEW t \in Thread, Constructor(t)
      PROVE  ThreadInv'
  <2>1. CASE find_thread_slot(t)
    BY <1>1, <2>1, FindThreadSlot
  <2>2. CASE register_thread(t)
    BY <1>1, <2>2, RegisterThread
  <2>3. CASE find_domain(t) \/ claim_domain(t) \/ publish_done(t) \/ setup_and_start(t)
    <3>1. t # 0
      BY <2>3 DEF ThreadInv, Stages, find_domain, claim_domain, publish_done,
                  setup_and_start, At
    <3>2. pc[0] = "release" => found'[0] = found[0]
      BY <1>2, <2>3, <3>1, Numbers DEF find_domain, FindDomain, claim_domain, publish_done,
                              setup_and_start, Corrupts, locals
    <3>3. CASE find_domain(t)
      BY <1>1, <3>1, <3>2, <3>3, MovesOn DEF find_domain, tables, At, Goto
    <3>4. CASE claim_domain(t)
      BY <1>1, <3>1, <3>2, <3>4, MovesOn
         DEF claim_domain, Corrupts, tables, locals, At, Goto
    <3>5. CASE publish_done(t)
      BY <1>1, <3>1, <3>2, <3>5, MovesOn DEF publish_done, tables, At, Goto
    <3>6. CASE setup_and_start(t)
      BY <1>1, <3>1, <3>2, <3>6, MovesOn DEF setup_and_start, tables, locals, At, Goto
    <3> QED
      BY <2>3, <3>3, <3>4, <3>5, <3>6
  <2> QED
    BY <1>3, <2>1, <2>2, <2>3 DEF Constructor
<1>4. ASSUME NEW t \in Thread,
             \/ pthread_create_returns(t) \/ sdrad_request_sdi(t) \/ take_domain(t)
      PROVE  ThreadInv'
  <2>1. pc[0] = "release" => found'[0] = found[0]
    BY <1>2, <1>4, Numbers
       DEF pthread_create_returns, sdrad_request_sdi, FindDomain, take_domain,
           Corrupts, locals, At
  <2>2. CASE pthread_create_returns(t)
    BY <1>1, <2>1, <2>2, MovesOn DEF pthread_create_returns, tables, locals, At, Goto
  <2>3. CASE sdrad_request_sdi(t)
    BY <1>1, <2>1, <2>3, MovesOn DEF sdrad_request_sdi, tables, At, Goto
  <2>4. CASE take_domain(t)
    BY <1>1, <2>1, <2>4, MovesOn DEF take_domain, Corrupts, tables, locals, At, Goto
  <2> QED
    BY <1>4, <2>2, <2>3, <2>4
<1>5. ASSUME NEW t \in Thread, thread_ends(t)
      PROVE  ThreadInv'
  BY <1>1, <1>2, <1>5, MovesOn DEF OneCreator, thread_ends, tables, At, Goto
<1>6. ASSUME NEW t \in Thread, join_scan(t) \/ join_release(t)
      PROVE  ThreadInv'
  BY <1>1, <1>6, ScanThread, ReleaseThread
<1>7. ASSUME NEW t \in Thread, NEW u \in Thread,
             pthread_create(t, u) \/ pthread_create_fails(t, u) \/ pthread_join(t, u)
      PROVE  ThreadInv'
  BY <1>1, <1>7, CreateThread, JoinThread
<1>8. CASE UNCHANGED vars
  BY <1>1, <1>8 DEF ThreadInv, Stages, TidsDistinct, Live, ThreadTable, SlotOf, Owned,
                    StillFree, KeepsThreadSlot, Registered, Joining, vars, tables, locals
<1> QED
  BY <1>3, <1>4, <1>5, <1>6, <1>7, <1>8
     DEF Next, Library, Quiet, pthread_create_spins

THEOREM ThreadInvariance ==
  ASSUME OneCreator
  PROVE  Spec => []ThreadInv
<1>1. Init => ThreadInv
  BY ThreadInit
<1>2. ThreadInv /\ [Next]_vars => ThreadInv'
  BY ThreadNext
<1> QED
  BY <1>1, <1>2, PTL DEF Spec

(* When one thread creates and joins the others and all are joined, every    *)
(* call of the library works on the metadata of its own caller, however many *)
(* threads come and go and however the C library reuses its pthread_t.       *)
THEOREM ThreadsFindThemselves ==
  ASSUME OneCreator
  PROVE  Spec => []FindsItself
<1>1. ThreadInv => FindsItself
  BY FoundBySearch DEF FindsItself, KeepsThreadSlot
<1> QED
  BY <1>1, ThreadInvariance, PTL

-----------------------------------------------------------------------------
(* DomainInv is inductive if, besides, only that thread calls sdrad_init.    *)

LEMMA DomainInit ==
  ASSUME Init
  PROVE  DomainInv
<1>1. ThreadInv
  BY ThreadInit
<1>2. \A u \in Thread : KeepsDomain(u) => u = 0 /\ thread_id[u] = ROOT_DOMAIN
  BY DEF Init, KeepsDomain, HasDomain, Registered
<1>3. active_domain[ROOT_DOMAIN] = ROOT_DOMAIN /\ status[ROOT_DOMAIN] = DOMAIN_OCCUPIED
  BY Numbers DEF Init, ROOT_DOMAIN, DOMAIN_2
<1>4. \A d \in Slot : d >= DOMAIN_2 => status[d] # DOMAIN_OCCUPIED
  BY DEF Init, DOMAIN_2, Slot, DOMAIN_OCCUPIED, DOMAIN_NONOCCUPIED
<1>5. \A u \in Thread : requested[u] = {} /\ pc[u] \notin {"claim", "take"}
  BY DEF Init
<1>6. DomainTable
  BY <1>2, <1>3, <1>4, <1>5 DEF DomainTable, Keeps
<1> QED
  BY <1>1, <1>6 DEF DomainInv

LEMMA SlotsApart ==
  ASSUME ThreadInv, NEW u \in Thread, NEW v \in Thread,
         KeepsThreadSlot(u), KeepsThreadSlot(v), thread_id[u] = thread_id[v]
  PROVE  u = v
<1>1. SlotOf(u) /\ SlotOf(v) /\ Live(u) /\ Live(v)
  BY KeepsLive DEF ThreadInv, ThreadTable
<1> QED
  BY <1>1 DEF ThreadInv, TidsDistinct, SlotOf

LEMMA FreeSlotNotKept ==
  ASSUME ThreadInv, NEW u \in Thread, thread_id[u] # -1, StillFree(u),
         NEW v \in Thread, KeepsThreadSlot(v)
  PROVE  thread_id[v] # thread_id[u]
<1>1. SlotOf(v) /\ tid[v] \in Tid
  BY KeepsLive DEF ThreadInv, TidsDistinct, ThreadTable
<1> QED
  BY <1>1, Numbers DEF SlotOf, StillFree

LEMMA DomainNeedsSlot ==
  ASSUME NEW u \in Thread, KeepsDomain(u)
  PROVE  KeepsThreadSlot(u)
BY DEF KeepsDomain, KeepsThreadSlot, HasDomain, Joining

(* A constructor claims while its creator spins, and the creator is thread 0.*)
LEMMA ClaimsAlone ==
  ASSUME ThreadInv, NEW u \in Thread, pc[u] \in Constructing
  PROVE  pc[0] = "spin" /\ u # 0 /\ \A v \in Thread : pc[v] \in Constructing => v = u
<1>1. sgm_lock \in Thread /\ pc[sgm_lock] = "spin"
  BY DEF ThreadInv, CommonInv, TypeOK, Handshake
<1>2. sgm_lock = 0
  BY <1>1 DEF ThreadInv, Stages
<1> QED
  BY <1>1, <1>2 DEF ThreadInv, CommonInv, Handshake, Constructing

(* Nothing happens to the domain slots, but for one that was looked up.      *)
LEMMA DomainsStay ==
  ASSUME DomainInv, ThreadInv', NotCorrupt,
         UNCHANGED <<status, active_domain, requested>>,
         \A u \in Thread : KeepsDomain(u)' => KeepsDomain(u),
         NotCorrupt' => \A u \in Thread : KeepsDomain(u) => KeepsDomain(u)',
         \A u \in Thread : KeepsDomain(u) => thread_id'[u] = thread_id[u],
         \A u \in Thread : pc'[u] = "take" => u = 0,
         \A u \in Thread : pc'[u] \in {"claim", "take"} =>
           \/ pc[u] = pc'[u] /\ found'[u] = found[u]
           \/ found'[u] # -1 => status[found'[u]] = DOMAIN_NONOCCUPIED
  PROVE  DomainInv'
<1>1. \A u \in Thread : \A d \in Slot : Keeps(u, d)' => Keeps(u, d)
  BY DEF Keeps
<1>2. NotCorrupt' => \A u \in Thread : \A d \in Slot : Keeps(u, d) => Keeps(u, d)'
  BY DEF Keeps
<1>3. DomainTable'
  BY <1>1, <1>2 DEF DomainInv, DomainTable
<1> QED
  BY <1>3 DEF DomainInv

LEMMA CorruptDomain ==
  ASSUME DomainInv, ThreadInv', NEW t \in Thread, Corrupts(t), NotCorrupt
  PROVE  DomainInv'
<1> USE DEF Corrupts, tables, locals, Goto
<1>1. pc' = [pc EXCEPT ![t] = "corrupt"] /\ t \in DOMAIN pc
  BY DEF DomainInv, ThreadInv, CommonInv, TypeOK
<1>2. ~NotCorrupt'
  BY <1>1 DEF NotCorrupt
<1>3. \A u \in Thread : KeepsDomain(u)' => KeepsDomain(u)
  <2>1. \A u \in Thread : pc'[u] = pc[u] \/ pc'[u] = "corrupt"
    BY <1>1
  <2> QED
    BY <2>1 DEF KeepsDomain, HasDomain, Registered, Joining
<1>4. \A u \in Thread : pc'[u] \in {"claim", "take"} => pc[u] = pc'[u]
  BY <1>1
<1>5. \A u \in Thread : pc'[u] = "take" => u = 0
  BY <1>4 DEF DomainInv, DomainTable
<1> QED
  BY <1>2, <1>3, <1>4, <1>5, DomainsStay

LEMMA CreateDomain ==
  ASSUME OneCreator, DomainInv, ThreadInv', NEW t \in Thread, NEW u \in Thread,
         pthread_create(t, u) \/ pthread_create_fails(t, u)
  PROVE  DomainInv'
<1>1. /\ t = 0 /\ NotCorrupt /\ pc[0] = "app" /\ pc[u] = "unborn" /\ u # 0
      /\ Spawn(0, u)
      /\ pc' = [pc EXCEPT ![0] = "spin", ![u] = "find"] \/ pc' = [pc EXCEPT ![0] = "spin"]
  BY DEF OneCreator, pthread_create, pthread_create_fails, At, NextUnborn, Goto
<1>2. pc \in [Thread -> Pc] /\ peer \in [Thread -> Thread \cup {NoThread}]
  BY DEF DomainInv, ThreadInv, CommonInv, TypeOK
<1>3. UNCHANGED <<status, active_domain, requested, thread_id, found, reaped>>
  BY <1>1 DEF Spawn, tables
<1>4. \A v \in Thread : KeepsDomain(v)' <=> KeepsDomain(v)
  <2>1. \A v \in Thread : ~Joining(v, {"scan"}) /\ ~Joining(v, {"scan"})'
    BY <1>1, <1>2 DEF DomainInv, ThreadInv, Stages, Joining
  <2> QED
    BY <1>1, <1>2, <1>3, <2>1, Numbers DEF KeepsDomain, HasDomain, Registered
<1>5. \A v \in Thread : pc'[v] \in {"claim", "take"} => pc[v] = pc'[v]
  BY <1>1, <1>2
<1>6. \A v \in Thread : pc'[v] = "take" => v = 0
  BY <1>5 DEF DomainInv, DomainTable
<1> QED
  BY <1>1, <1>3, <1>4, <1>5, <1>6, DomainsStay

LEMMA RegisterDomain ==
  ASSUME DomainInv, ThreadInv', NEW u \in Thread, register_thread(u)
  PROVE  DomainInv'
<1>1. CASE thread_id[u] = -1
  BY <1>1, CorruptDomain DEF register_thread, At
<1>2. CASE thread_id[u] # -1
  <2>1. /\ pc[u] = "register" /\ NotCorrupt
        /\ pc' = [pc EXCEPT ![u] = "request"]
        /\ active_domain' = [active_domain EXCEPT ![thread_id[u]] = 0]
        /\ UNCHANGED <<status, requested, thread_id, found, reaped, peer>>
    BY <1>2 DEF register_thread, At, Goto, locals
  <2>2. pc \in [Thread -> Pc] /\ active_domain \in [ThreadSlot -> Slot]
    BY DEF DomainInv, ThreadInv, CommonInv, TypeOK
  <2>3. StillFree(u)
    BY <2>1 DEF DomainInv, ThreadInv, ThreadTable
  <2>4. \A v \in Thread : KeepsDomain(v) => active_domain'[thread_id[v]] = active_domain[thread_id[v]]
    <3>1. \A v \in Thread : KeepsDomain(v) => thread_id[v] # thread_id[u]
      BY <1>2, <2>3, DomainNeedsSlot, FreeSlotNotKept DEF DomainInv
    <3> QED
      BY <2>1, <2>2, <3>1
  <2>5. \A v \in Thread : KeepsDomain(v)' <=> KeepsDomain(v)
    BY <2>1, <2>2 DEF KeepsDomain, HasDomain, Registered, Joining
  <2>6. \A v \in Thread : \A d \in Slot : Keeps(v, d)' <=> Keeps(v, d)
    BY <2>1, <2>4, <2>5 DEF Keeps
  <2>7. \A v \in Thread : pc'[v] \in {"claim", "take"} => pc[v] = pc'[v]
    BY <2>1, <2>2
  <2>8. DomainTable'
    BY <2>1, <2>4, <2>5, <2>6, <2>7 DEF DomainInv, DomainTable
  <2> QED
    BY <2>8 DEF DomainInv
<1> QED
  BY <1>1, <1>2

(* A slot looked up is nobody's, and becomes the slot of whoever looked.     *)
LEMMA ClaimDomain ==
  ASSUME DomainInv, ThreadInv', NEW u \in Thread, claim_domain(u)
  PROVE  DomainInv'
<1>1. CASE found[u] = -1
  BY <1>1, CorruptDomain DEF claim_domain, At
<1>2. CASE found[u] # -1
  <2> DEFINE sdi == found[u]
  <2>1. /\ pc[u] = "claim" /\ NotCorrupt
        /\ pc' = [pc EXCEPT ![u] = "publish"]
        /\ status' = [status EXCEPT ![sdi] = DOMAIN_OCCUPIED]
        /\ active_domain' = [active_domain EXCEPT ![thread_id[u]] = sdi]
        /\ UNCHANGED <<requested, thread_id, found, reaped, peer>>
    BY <1>2 DEF claim_domain, TakeDomain, At, Goto, locals
  <2>2. /\ pc \in [Thread -> Pc] /\ active_domain \in [ThreadSlot -> Slot]
        /\ status \in [Slot -> {DOMAIN_OCCUPIED, DOMAIN_NONOCCUPIED}]
    BY DEF DomainInv, ThreadInv, CommonInv, TypeOK
  <2>3. sdi \in Slot /\ status[sdi] = DOMAIN_NONOCCUPIED
    BY <1>2, <2>1 DEF DomainInv, DomainTable, ThreadInv, CommonInv, FoundSlot
  <2>4. \A v \in Thread : ~Keeps(v, sdi)
    BY <2>3 DEF DomainInv, DomainTable, DOMAIN_OCCUPIED, DOMAIN_NONOCCUPIED
  <2>5. KeepsThreadSlot(u) /\ ~KeepsDomain(u) /\ thread_id[u] \in ThreadSlot
    <3>1. KeepsThreadSlot(u) /\ ~KeepsDomain(u)
      BY <2>1 DEF KeepsThreadSlot, KeepsDomain, HasDomain, Registered
    <3> QED
      BY <3>1 DEF DomainInv, ThreadInv, ThreadTable, SlotOf
  <2>6. u # 0 /\ \A v \in Thread : pc'[v] \notin {"claim", "take"}
    <3>1. pc[0] = "spin" /\ u # 0 /\ \A v \in Thread \ {u} : pc[v] # "claim"
      BY <2>1, ClaimsAlone DEF DomainInv, Constructing
    <3> QED
      BY <2>1, <2>2, <3>1 DEF DomainInv, DomainTable
  <2>7. \A v \in Thread : KeepsDomain(v)' <=> KeepsDomain(v) \/ v = u
    BY <2>1, <2>2 DEF KeepsDomain, HasDomain, Registered, Joining
  <2>8. \A v \in Thread : KeepsDomain(v) =>
          v # u /\ active_domain'[thread_id[v]] = active_domain[thread_id[v]]
    <3>1. \A v \in Thread : KeepsDomain(v) => v # u /\ thread_id[v] # thread_id[u]
      BY <2>5, DomainNeedsSlot, SlotsApart DEF DomainInv
    <3> QED
      BY <2>1, <2>2, <3>1
  <2>9. active_domain'[thread_id[u]] = sdi
    BY <2>1, <2>2, <2>5
  <2>10. requested[u] = {}
    BY <2>6 DEF DomainInv, DomainTable
  <2>11. \A v \in Thread : \A d \in Slot :
           Keeps(v, d)' <=> Keeps(v, d) \/ (v = u /\ d = sdi)
    BY <2>1, <2>5, <2>7, <2>8, <2>9 DEF Keeps
  <2>12. \A d \in Slot : status'[d] = IF d = sdi THEN DOMAIN_OCCUPIED ELSE status[d]
    BY <2>1, <2>2
  <2> HIDE DEF sdi
  <2>13. DomainTable'
    BY <2>1, <2>3, <2>4, <2>6, <2>7, <2>8, <2>9, <2>10, <2>11, <2>12
       DEF DomainInv, DomainTable
  <2> QED
    BY <2>13 DEF DomainInv
<1> QED
  BY <1>1, <1>2

LEMMA TakeDomainStep ==
  ASSUME DomainInv, ThreadInv', NEW t \in Thread, take_domain(t)
  PROVE  DomainInv'
<1>1. CASE found[t] = -1
  BY <1>1, CorruptDomain DEF take_domain, At
<1>2. CASE found[t] # -1
  <2> DEFINE sdi == found[t]
  <2>1. /\ pc[t] = "take" /\ NotCorrupt
        /\ pc' = [pc EXCEPT ![t] = "app"]
        /\ status' = [status EXCEPT ![sdi] = DOMAIN_OCCUPIED]
        /\ requested' = [requested EXCEPT ![t] = @ \cup {sdi}]
        /\ UNCHANGED <<active_domain, thread_id, found, reaped, peer>>
    BY <1>2 DEF take_domain, TakeDomain, At, Goto
  <2>2. /\ pc \in [Thread -> Pc] /\ requested \in [Thread -> SUBSET Slot]
        /\ status \in [Slot -> {DOMAIN_OCCUPIED, DOMAIN_NONOCCUPIED}]
    BY DEF DomainInv, ThreadInv, CommonInv, TypeOK
  <2>3. sdi \in Slot /\ status[sdi] = DOMAIN_NONOCCUPIED /\ t = 0
    BY <1>2, <2>1 DEF DomainInv, DomainTable, ThreadInv, CommonInv, FoundSlot
  <2>4. \A v \in Thread : ~Keeps(v, sdi)
    BY <2>3 DEF DomainInv, DomainTable, DOMAIN_OCCUPIED, DOMAIN_NONOCCUPIED
  <2>5. \A v \in Thread : pc'[v] \notin {"claim", "take"}
    <3>1. \A v \in Thread : pc[v] # "claim"
      BY <2>1, <2>3, ClaimsAlone DEF DomainInv, Constructing
    <3> QED
      BY <2>1, <2>2, <2>3, <3>1 DEF DomainInv, DomainTable
  <2>6. \A v \in Thread : KeepsDomain(v)' <=> KeepsDomain(v)
    BY <2>1, <2>2 DEF KeepsDomain, HasDomain, Registered, Joining
  <2>7. \A v \in Thread : \A d \in Slot :
          Keeps(v, d)' <=> Keeps(v, d) \/ (v = t /\ d = sdi)
    BY <2>1, <2>2, <2>6 DEF Keeps
  <2>8. KeepsDomain(t) => active_domain[thread_id[t]] # sdi
    BY <2>3, <2>4 DEF Keeps
  <2>9. \A v \in Thread : requested'[v] = IF v = t THEN requested[t] \cup {sdi} ELSE requested[v]
    BY <2>1, <2>2
  <2>10. \A d \in Slot : status'[d] = IF d = sdi THEN DOMAIN_OCCUPIED ELSE status[d]
    BY <2>1, <2>2
  <2> HIDE DEF sdi
  <2>11. DomainTable'
    BY <2>1, <2>3, <2>4, <2>5, <2>6, <2>7, <2>8, <2>9, <2>10
       DEF DomainInv, DomainTable
  <2> QED
    BY <2>11 DEF DomainInv
<1> QED
  BY <1>1, <1>2

(* The slot that is freed is the joined thread's, and nobody else's.         *)
LEMMA ScanDomain ==
  ASSUME DomainInv, ThreadInv', NEW t \in Thread, join_scan(t)
  PROVE  DomainInv'
<1> DEFINE u == peer[0]
<1> DEFINE sdi == active_domain[thread_id[u]]
<1>1. /\ t = 0 /\ pc[0] = "scan" /\ NotCorrupt
      /\ pc' = [pc EXCEPT ![0] = "release"]
      /\ UNCHANGED <<active_domain, requested, thread_id, reaped, peer>>
      /\ FreeDomainOf(thread_id[u]) /\ found' = [found EXCEPT ![0] = thread_id[u]]
  BY ScanFinds DEF DomainInv
<1>2. /\ pc \in [Thread -> Pc] /\ active_domain \in [ThreadSlot -> Slot]
      /\ status \in [Slot -> {DOMAIN_OCCUPIED, DOMAIN_NONOCCUPIED}]
      /\ found \in [Thread -> Slot \cup ThreadSlot \cup {-1}]
  BY DEF DomainInv, ThreadInv, CommonInv, TypeOK
<1>3. u \in Thread \ {0} /\ u \in reaped /\ pc[u] = "ended" /\ KeepsThreadSlot(u)
  BY <1>1, JoinedKeeps DEF DomainInv
<1>4. status' = [status EXCEPT ![sdi] = DOMAIN_NONOCCUPIED]
  BY <1>1 DEF FreeDomainOf
<1>5. KeepsDomain(u)
  BY <1>1, <1>3, Numbers DEF KeepsDomain, Joining
<1>6. thread_id[u] \in ThreadSlot /\ sdi \in Slot
  BY <1>2, <1>3 DEF DomainInv, ThreadInv, ThreadTable, SlotOf
<1>7. \A v \in Thread : KeepsDomain(v)' <=> KeepsDomain(v) /\ v # u
  <2>1. \A v \in Thread : Joining(v, {"scan"}) <=> v = u
    BY <1>1, Numbers DEF Joining, DomainInv, ThreadInv, Stages
  <2>2. \A v \in Thread : ~Joining(v, {"scan"})'
    BY <1>1, <1>2 DEF Joining, DomainInv, ThreadInv, Stages
  <2>3. \A v \in Thread : v \in reaped => pc[v] = "ended"
    BY DEF DomainInv, ThreadInv, Stages
  <2> QED
    BY <1>1, <1>2, <1>3, <2>1, <2>2, <2>3, Numbers DEF KeepsDomain, HasDomain, Registered
<1>8. requested[u] = {}
  BY <1>3 DEF DomainInv, DomainTable
<1>9. \A v \in Thread : \A d \in Slot : Keeps(v, d)' <=> Keeps(v, d) /\ v # u
  BY <1>1, <1>7, <1>8 DEF Keeps
<1>10. Keeps(u, sdi) /\ \A d \in Slot : Keeps(u, d) => d = sdi
  BY <1>5, <1>8 DEF Keeps
<1>11. \A v \in Thread : pc'[v] \notin {"claim", "take"}
  <2>1. \A v \in Thread : pc[v] # "claim"
    BY <1>1, ClaimsAlone DEF DomainInv, Constructing
  <2> QED
    BY <1>1, <1>2, <2>1 DEF DomainInv, DomainTable
<1>12. \A d \in Slot : status'[d] = IF d = sdi THEN DOMAIN_NONOCCUPIED ELSE status[d]
  BY <1>2, <1>4
<1>13. \A v \in Thread : KeepsDomain(v) => active_domain'[thread_id'[v]] \notin requested'[v]
  BY <1>1 DEF DomainInv, DomainTable
<1> HIDE DEF u, sdi
<1>14. DomainTable'
  <2>1. \A v \in Thread : \A d \in Slot : Keeps(v, d)' => d # sdi
    BY <1>3, <1>6, <1>9, <1>10 DEF DomainInv, DomainTable
  <2>2. \A v \in Thread : \A d \in Slot : Keeps(v, d)' => status'[d] = DOMAIN_OCCUPIED
    BY <1>9, <1>12, <2>1 DEF DomainInv, DomainTable
  <2>3. \A d \in Slot : d >= DOMAIN_2 /\ status'[d] = DOMAIN_OCCUPIED
          => \E v \in Thread : Keeps(v, d)'
    <3>1. \A d \in Slot : status'[d] = DOMAIN_OCCUPIED => d # sdi /\ status[d] = DOMAIN_OCCUPIED
      BY <1>12 DEF DOMAIN_OCCUPIED, DOMAIN_NONOCCUPIED
    <3> QED
      BY <1>1, <1>9, <1>10, <3>1 DEF DomainInv, DomainTable
  <2> QED
    BY <1>1, <1>7, <1>9, <1>11, <1>13, <2>2, <2>3 DEF DomainInv, DomainTable
<1> QED
  BY <1>14 DEF DomainInv

(* The steps that leave the domain slots alone. *)
LEMMA OtherDomain ==
  ASSUME OneCreator, OneRequester, DomainInv, ThreadInv',
         NEW t \in Thread, NEW u \in Thread,
         \/ find_thread_slot(t) \/ find_domain(t) \/ publish_done(t)
         \/ setup_and_start(t) \/ pthread_create_returns(t) \/ sdrad_request_sdi(t)
         \/ thread_ends(t) \/ pthread_join(t, u) \/ join_release(t)
  PROVE  DomainInv'
<1>1. /\ pc \in [Thread -> Pc] /\ TypeOK
      /\ found \in [Thread -> Slot \cup ThreadSlot \cup {-1}]
      /\ peer \in [Thread -> Thread \cup {NoThread}]
      /\ thread_id \in [Thread -> ThreadSlot \cup {-1}]
  BY DEF DomainInv, ThreadInv, CommonInv, TypeOK
<1>2. \A v \in Thread : v \in reaped => pc[v] = "ended"
  BY DEF DomainInv, ThreadInv, Stages
<1>3. \A v \in Thread : pc[v] = "take" => v = 0
  BY DEF DomainInv, DomainTable
<1> USE DEF At, Goto, tables, locals
<1>4. CASE find_thread_slot(t) \/ publish_done(t) \/ setup_and_start(t)
           \/ pthread_create_returns(t)
  <2>1. /\ NotCorrupt /\ pc[t] \in {"find", "publish", "setup", "spin"}
        /\ pc' = [pc EXCEPT ![t] = IF pc[t] = "find" THEN "register"
                                  ELSE IF pc[t] = "publish" THEN "setup" ELSE "app"]
        /\ UNCHANGED <<status, active_domain, requested, found, reaped, peer>>
        /\ \A v \in Thread : thread_id'[v] # thread_id[v] => v = t /\ pc[t] = "find"
    BY <1>1, <1>4 DEF find_thread_slot, publish_done, setup_and_start, pthread_create_returns
  <2>2. \A v \in Thread : /\ KeepsDomain(v)' <=> KeepsDomain(v)
                          /\ KeepsDomain(v) => thread_id'[v] = thread_id[v]
    BY <1>1, <2>1 DEF KeepsDomain, HasDomain, Registered, Joining
  <2>3. \A v \in Thread : pc'[v] \in {"claim", "take"} => pc[v] = pc'[v]
    BY <1>1, <2>1
  <2> QED
    BY <1>3, <2>1, <2>2, <2>3, DomainsStay
<1>5. CASE find_domain(t) \/ sdrad_request_sdi(t)
  <2>1. PICK d \in sdrad_find_free_domain : found' = [found EXCEPT ![t] = d]
    BY <1>5 DEF find_domain, sdrad_request_sdi, FindDomain
  <2>2. d # -1 => status[d] = DOMAIN_NONOCCUPIED
    BY <1>1, <2>1, FreeDomain
  <2>3. /\ NotCorrupt /\ pc[t] \in {"request", "app"}
        /\ pc' = [pc EXCEPT ![t] = IF pc[t] = "request" THEN "claim" ELSE "take"]
        /\ UNCHANGED <<status, active_domain, requested, thread_id, reaped, peer>>
        /\ pc[t] = "app" => t = 0
    BY <1>1, <1>5 DEF OneRequester, find_domain, sdrad_request_sdi
  <2>4. \A v \in Thread : KeepsDomain(v)' <=> KeepsDomain(v)
    BY <1>1, <2>3 DEF KeepsDomain, HasDomain, Registered, Joining
  <2>5. \A v \in Thread : pc'[v] = "take" => v = 0
    BY <1>1, <1>3, <2>3
  <2>6. \A v \in Thread : pc'[v] \in {"claim", "take"} =>
          \/ pc[v] = pc'[v] /\ found'[v] = found[v]
          \/ found'[v] # -1 => status[found'[v]] = DOMAIN_NONOCCUPIED
    BY <1>1, <2>1, <2>2, <2>3
  <2> QED
    BY <2>3, <2>4, <2>5, <2>6, DomainsStay
<1>6. CASE thread_ends(t) \/ pthread_join(t, u)
  <2>1. /\ NotCorrupt /\ UNCHANGED <<status, active_domain, requested, thread_id, found>>
    BY <1>6 DEF thread_ends, pthread_join
  <2>2. \A v \in Thread : KeepsDomain(v)' <=> KeepsDomain(v)
    <3>1. CASE thread_ends(t)
      BY <1>1, <1>2, <3>1, Numbers
         DEF OneCreator, thread_ends, KeepsDomain, HasDomain, Registered, Joining
    <3>2. CASE pthread_join(t, u)
      <4>1. /\ t = 0 /\ u # 0 /\ pc[0] = "app" /\ pc[u] = "ended" /\ u \notin reaped
            /\ reaped' = reaped \cup {u}
            /\ pc' = [pc EXCEPT ![0] = "scan"] /\ peer' = [peer EXCEPT ![0] = u]
        BY <3>2 DEF OneCreator, pthread_join, Joinable
      <4>2. \A v \in Thread : ~Joining(v, {"scan"}) /\ (Joining(v, {"scan"})' <=> v = u)
        BY <1>1, <4>1, Numbers DEF Joining, DomainInv, ThreadInv, Stages
      <4> QED
        BY <1>1, <1>2, <4>1, <4>2, Numbers
           DEF KeepsDomain, HasDomain, Registered, DomainInv, ThreadInv, ThreadTable
    <3> QED
      BY <1>6, <3>1, <3>2
  <2>3. \A v \in Thread : pc'[v] \in {"claim", "take"} => pc[v] = pc'[v]
    BY <1>1, <1>6 DEF thread_ends, pthread_join
  <2> QED
    BY <1>3, <2>1, <2>2, <2>3, DomainsStay
<1>7. CASE join_release(t)
  <2>1. /\ NotCorrupt /\ t = 0 /\ pc[0] = "release" /\ pc' = [pc EXCEPT ![0] = "app"]
        /\ UNCHANGED <<status, active_domain, requested, thread_id, found, reaped, peer>>
    BY <1>7 DEF join_release, DomainInv, ThreadInv, Stages
  <2>2. \A v \in Thread : KeepsDomain(v)' <=> KeepsDomain(v)
    BY <1>1, <2>1, Numbers DEF KeepsDomain, HasDomain, Registered, Joining
  <2>3. \A v \in Thread : pc'[v] \in {"claim", "take"} => pc[v] = pc'[v]
    BY <1>1, <2>1
  <2> QED
    BY <1>3, <2>1, <2>2, <2>3, DomainsStay
<1> QED
  BY <1>4, <1>5, <1>6, <1>7

LEMMA DomainNext ==
  ASSUME OneCreator, OneRequester, DomainInv, [Next]_vars
  PROVE  DomainInv'
<1>1. ThreadInv'
  BY ThreadNext DEF DomainInv
<1>2. ASSUME NEW t \in Thread, Library(t)
      PROVE  DomainInv'
  BY <1>1, <1>2, OtherDomain, RegisterDomain, ClaimDomain, TakeDomainStep,
     ScanDomain DEF Library, Constructor
<1>3. ASSUME NEW t \in Thread, sdrad_request_sdi(t) \/ thread_ends(t)
      PROVE  DomainInv'
  BY <1>1, <1>3, OtherDomain
<1>4. ASSUME NEW t \in Thread, NEW u \in Thread,
             pthread_create(t, u) \/ pthread_create_fails(t, u) \/ pthread_join(t, u)
      PROVE  DomainInv'
  BY <1>1, <1>4, CreateDomain, OtherDomain
<1>5. CASE UNCHANGED vars
  BY <1>1, <1>5 DEF DomainInv, DomainTable, Keeps, KeepsDomain, HasDomain, Registered,
                    Joining, NotCorrupt, vars, tables, locals
<1> QED
  BY <1>2, <1>3, <1>4, <1>5 DEF Next, Quiet, pthread_create_spins

THEOREM DomainInvariance ==
  ASSUME OneCreator, OneRequester
  PROVE  Spec => []DomainInv
<1>1. Init => DomainInv
  BY DomainInit
<1>2. DomainInv /\ [Next]_vars => DomainInv'
  BY DomainNext
<1> QED
  BY <1>1, <1>2, PTL DEF Spec

(* When one thread creates, joins and calls sdrad_init, no two threads ever  *)
(* hold one domain slot, whatever the order of their constructors' steps.    *)
THEOREM ThreadsHoldDistinctDomains ==
  ASSUME OneCreator, OneRequester
  PROVE  Spec => []DomainsDistinct
<1>1. ASSUME DomainInv, NEW u \in Thread, NEW v \in Thread, u # v
      PROVE  Held(u) \cap Held(v) = {}
  <2>1. \A w \in Thread : Held(w) \subseteq Slot
    <3>1. \A w \in Thread : Registered(w) => thread_id[w] \in ThreadSlot
      BY <1>1 DEF KeepsThreadSlot, DomainInv, ThreadInv, ThreadTable, SlotOf
    <3> QED
      BY <1>1, <3>1 DEF Held, HasDomain, DomainInv, ThreadInv, CommonInv, TypeOK
  <2>2. \A w \in Thread : \A d \in Held(w) : Keeps(w, d)
    BY DEF Held, Keeps, KeepsDomain
  <2> QED
    BY <1>1, <2>1, <2>2 DEF DomainInv, DomainTable
<1>2. DomainInv => DomainsDistinct
  BY <1>1 DEF DomainsDistinct
<1> QED
  BY <1>2, DomainInvariance, PTL

(* Under the same assumptions creating and joining threads loses no slot of  *)
(* either table and gives none away twice.                                   *)
THEOREM ThreadSlotsAccounted ==
  ASSUME OneCreator, OneRequester
  PROVE  Spec => []SlotsAccounted
<1>1. ASSUME DomainInv, NotCorrupt, NEW i \in ThreadSlot, i >= DOMAIN_2
      PROVE  sgm_thread_id[i] # THREAD_NONOCCUPIED
               <=> \E u \in Thread : KeepsThreadSlot(u) /\ thread_id[u] = i
  <2>1. ASSUME sgm_thread_id[i] # THREAD_NONOCCUPIED
        PROVE  \E u \in Thread : KeepsThreadSlot(u) /\ thread_id[u] = i
    <3>1. sgm_thread_id[i] \in Tid
      BY <1>1, <2>1 DEF DomainInv, ThreadInv, CommonInv, TypeOK, ThreadTable
    <3>2. PICK u \in Thread : /\ Live(u) /\ pc[u] \notin {"find", "register"}
                             /\ thread_id[u] = i
      BY <1>1, <3>1 DEF DomainInv, ThreadInv, ThreadTable, Owned
    <3>3. pc[u] \in Pc /\ pc[u] # "corrupt"
      BY <1>1 DEF DomainInv, ThreadInv, CommonInv, TypeOK, NotCorrupt
    <3> QED
      BY <3>2, <3>3 DEF Live, KeepsThreadSlot, Registered, Pc
  <2>2. ASSUME NEW u \in Thread, KeepsThreadSlot(u), thread_id[u] = i
        PROVE  sgm_thread_id[i] # THREAD_NONOCCUPIED
    <3>1. SlotOf(u) /\ tid[u] \in Tid
      BY <1>1, <2>2, KeepsLive DEF DomainInv, ThreadInv, TidsDistinct, ThreadTable
    <3> QED
      BY <2>2, <3>1, Numbers DEF SlotOf
  <2> QED
    BY <2>1, <2>2
<1>2. ASSUME DomainInv, NotCorrupt, NEW d \in Slot, d >= DOMAIN_2
      PROVE  status[d] = DOMAIN_OCCUPIED <=> \E u \in Thread : Keeps(u, d)
  BY <1>2 DEF DomainInv, DomainTable
<1>3. DomainInv => SlotsAccounted
  BY <1>1, <1>2 DEF SlotsAccounted, Keeps
<1> QED
  BY <1>3, DomainInvariance, PTL
=============================================================================
