----------------------------- MODULE SdradThreads -----------------------------
(***************************************************************************)
(* The SDRAD_MULTITHREAD build: how pthread_create, the constructor that   *)
(* runs first in a new thread, pthread_join and the sdrad_init of running  *)
(* threads share the thread table and the table of domain slots.           *)
(*                                                                         *)
(* A step is what one thread does between two accesses to that state which *)
(* another thread may come between.  sgm_lock is a recursive mutex; no     *)
(* path of this module takes it twice.  The waits of pthread_create spin:  *)
(* the condition variable's calls are inside assert(), compiled out.       *)
(*                                                                         *)
(* Not modelled here: the stack bounds, key and PKRU that the constructor  *)
(* stores for its own thread, which no other thread reads; allocation.     *)
(***************************************************************************)
EXTENDS SdradBase, FiniteSets

CONSTANTS
  NUM_OF_THREADS,  \* slots of the thread table, 200 in sdrad.h
  Thread,          \* threads, numbered in the order they are created, 0 the first
  Tid,             \* values of pthread_t
  Creators,        \* the threads that create and join others
  Requesters,      \* the threads that call sdrad_init
  MaxRequests,     \* bound: how often each of them does
  Detached,        \* threads the application does not join
  MayFail          \* pthread_create of the C library may fail

ASSUME ThreadsAssumption ==
  /\ NUM_OF_THREADS \in Nat /\ NUM_OF_THREADS > ROOT_DOMAIN
  /\ Thread \subseteq Nat /\ 0 \in Thread
  /\ 0 \notin Tid /\ THREAD_NONOCCUPIED \notin Tid
  /\ Creators \subseteq Thread /\ Requesters \subseteq Thread
  /\ MaxRequests \in Nat
  /\ Detached \subseteq Thread \ {0}
  /\ MayFail \in BOOLEAN

VARIABLES
  \* --- the global manager
  sgm_thread_id,      \* thread slot -> pthread_t, 0 in the slot of the monitor
  sgm_total_thread,
  status,             \* domain slot -> occupied or free
  active_domain,      \* thread slot -> active_domain of the metadata it points to
  start_routine,      \* the thread whose routine and argument are to be run
  constructor_done,   \* sdrad_pthread_constructor_done
  sgm_lock,           \* the thread that holds it, -1: none
  \* --- each thread
  pc,
  tid,                \* its pthread_t, 0 before it exists
  reaped,             \* the threads whose pthread_t the C library may give again
  thread_id,          \* local of the constructor: the slot it found
  found,              \* local of sdrad_request_sdi and pthread_join: the slot found
  requested,          \* the domain slots its sdrad_init calls got
  routine,            \* the thread whose routine it runs, -1 before
  peer                \* the thread it creates or joins

tables == <<sgm_thread_id, sgm_total_thread, status, active_domain>>
locals == <<tid, reaped, thread_id, found, requested, routine, peer>>
vars == <<tables, start_routine, constructor_done, sgm_lock, pc, locals>>

NoThread == -1
ThreadSlot == 0 .. NUM_OF_THREADS - 1

(* "unborn" .. "setup" are the stages of sdrad_pthread_construstor, "spin"   *)
(* is the wait in pthread_create, "scan" and "release" the two halves of     *)
(* pthread_join, "take" the store in sdrad_find_free_domain.  "corrupt": -1  *)
(* was used as an index.                                                     *)
Pc == {"unborn", "find", "register", "request", "claim", "publish", "setup",
       "app", "spin", "take", "scan", "release", "ended", "corrupt"}

NotCorrupt == \A t \in Thread : pc[t] # "corrupt"

At(t, here) == NotCorrupt /\ pc[t] = here
Goto(t, there) == pc' = [pc EXCEPT ![t] = there]

(* The lowest free index of a table, -1 if there is none. *)
LowestFree(table, free) ==
  LET open == {i \in DOMAIN table : table[i] = free}
  IN  IF open = {} THEN {-1} ELSE {i \in open : \A j \in open : i <= j}

sdrad_find_free_thread_id == LowestFree(sgm_thread_id, THREAD_NONOCCUPIED)
sdrad_find_free_domain == LowestFree(status, DOMAIN_NONOCCUPIED)

(* sdrad_get_sti and sdrad_get_sti_from_tid: the first slot with that        *)
(* pthread_t among the first sgm_total_thread + 1, none for -1.              *)
sdrad_get_sti(id) ==
  LET match == {k \in ThreadSlot : k <= sgm_total_thread /\ sgm_thread_id[k] = id}
  IN  {k \in match : \A j \in match : k <= j}

(* The C library gives a new thread any pthread_t that is not in use. *)
FreeTids == Tid \ {tid[t] : t \in Thread \ reaped}

-----------------------------------------------------------------------------
(* After sdrad_constructor. *)
Init ==
  /\ sgm_thread_id \in {[i \in ThreadSlot |->
       CASE i = MONITOR_DATA -> 0
         [] i = ROOT_DOMAIN -> id
         [] i >= DOMAIN_2 -> THREAD_NONOCCUPIED] : id \in Tid}
  /\ sgm_total_thread = ROOT_DOMAIN + 1
  /\ status = [i \in Slot |-> IF i < DOMAIN_2 THEN DOMAIN_OCCUPIED ELSE DOMAIN_NONOCCUPIED]
  /\ active_domain = [i \in ThreadSlot |-> IF i = ROOT_DOMAIN THEN ROOT_DOMAIN ELSE 0]
  /\ start_routine = NoThread
  /\ constructor_done = 0
  /\ sgm_lock = NoThread
  /\ pc = [t \in Thread |-> IF t = 0 THEN "app" ELSE "unborn"]
  /\ tid = [t \in Thread |-> IF t = 0 THEN sgm_thread_id[ROOT_DOMAIN] ELSE 0]
  /\ reaped = {}
  /\ thread_id = [t \in Thread |-> IF t = 0 THEN ROOT_DOMAIN ELSE 0]
  /\ found = [t \in Thread |-> 0]
  /\ requested = [t \in Thread |-> {}]
  /\ routine = [t \in Thread |-> IF t = 0 THEN 0 ELSE NoThread]
  /\ peer = [t \in Thread |-> NoThread]

-----------------------------------------------------------------------------
(* pthread_create: under the lock, the routine is left for the constructor   *)
(* and the thread is started; the caller spins until the constructor is done *)
(* with it, and only then unlocks.                                           *)

NextUnborn(u) == pc[u] = "unborn" /\ \A v \in Thread : v < u => pc[v] # "unborn"

Spawn(t, u) ==
  /\ sgm_lock' = t
  /\ start_routine' = u
  /\ constructor_done' = 0
  /\ peer' = [peer EXCEPT ![t] = u]
  /\ UNCHANGED <<tables, reaped, thread_id, found, requested, routine>>

(* Mutant: the lock is not taken. *)
never_locked(t) == TRUE

CanLock(t) == sgm_lock = NoThread

pthread_create(t, u) ==
  /\ t \in Creators
  /\ At(t, "app")
  /\ NextUnborn(u)
  /\ CanLock(t)
  /\ \E id \in FreeTids : tid' = [tid EXCEPT ![u] = id]
  /\ pc' = [pc EXCEPT ![t] = "spin", ![u] = "find"]
  /\ Spawn(t, u)

(* real_pthread_create fails: its answer is looked at after the wait. *)
pthread_create_fails(t, u) ==
  /\ MayFail
  /\ t \in Creators
  /\ At(t, "app")
  /\ NextUnborn(u)
  /\ CanLock(t)
  /\ Goto(t, "spin")
  /\ Spawn(t, u)
  /\ UNCHANGED tid

pthread_create_spins(t) ==
  /\ At(t, "spin")
  /\ constructor_done = 0
  /\ UNCHANGED vars

pthread_create_returns(t) ==
  /\ At(t, "spin")
  /\ constructor_done = 1
  /\ constructor_done' = 0
  /\ sgm_lock' = NoThread
  /\ Goto(t, "app")
  /\ UNCHANGED <<tables, start_routine, locals>>

-----------------------------------------------------------------------------
(* sdrad_pthread_construstor, in the new thread. *)

find_thread_slot(u) ==
  /\ At(u, "find")
  /\ \E i \in sdrad_find_free_thread_id : thread_id' = [thread_id EXCEPT ![u] = i]
  /\ Goto(u, "register")
  /\ UNCHANGED <<tables, start_routine, constructor_done, sgm_lock, tid, reaped,
                 found, requested, routine, peer>>

Corrupts(t) ==
  /\ Goto(t, "corrupt")
  /\ UNCHANGED <<tables, start_routine, constructor_done, sgm_lock, locals>>

register_thread(u) ==
  /\ At(u, "register")
  /\ IF thread_id[u] = -1
       THEN Corrupts(u)
       ELSE /\ sgm_thread_id' = [sgm_thread_id EXCEPT ![thread_id[u]] = tid[u]]
            /\ active_domain' = [active_domain EXCEPT ![thread_id[u]] = 0]
            /\ sgm_total_thread' = sgm_total_thread + 1
            /\ Goto(u, "request")
            /\ UNCHANGED <<status, start_routine, constructor_done, sgm_lock, locals>>

(* sdrad_request_sdi: the free slot is found, and then it is taken. *)
FindDomain(t) == \E d \in sdrad_find_free_domain : found' = [found EXCEPT ![t] = d]
TakeDomain(t) == status' = [status EXCEPT ![found[t]] = DOMAIN_OCCUPIED]

(* Mutant: the creator is told before the slot is taken. *)
find_domain_and_signal(u) ==
  /\ At(u, "request")
  /\ FindDomain(u)
  /\ constructor_done' = 1
  /\ Goto(u, "claim")
  /\ UNCHANGED <<tables, start_routine, sgm_lock, tid, reaped, thread_id,
                 requested, routine, peer>>

find_domain(u) ==
  /\ At(u, "request")
  /\ FindDomain(u)
  /\ Goto(u, "claim")
  /\ UNCHANGED <<tables, start_routine, constructor_done, sgm_lock, tid, reaped,
                 thread_id, requested, routine, peer>>

claim_domain(u) ==
  /\ At(u, "claim")
  /\ IF found[u] = -1
       THEN Corrupts(u)
       ELSE /\ TakeDomain(u)
            /\ active_domain' = [active_domain EXCEPT ![thread_id[u]] = found[u]]
            /\ Goto(u, "publish")
            /\ UNCHANGED <<sgm_thread_id, sgm_total_thread, start_routine,
                           constructor_done, sgm_lock, locals>>

(* Mutant: the lock is taken before the creator, which holds it, is told. *)
publish_under_lock(u) ==
  /\ At(u, "publish")
  /\ CanLock(u)
  /\ routine' = [routine EXCEPT ![u] = start_routine]
  /\ constructor_done' = 1
  /\ Goto(u, "setup")
  /\ UNCHANGED <<tables, start_routine, sgm_lock, tid, reaped, thread_id, found,
                 requested, peer>>

publish_done(u) ==
  /\ At(u, "publish")
  /\ routine' = [routine EXCEPT ![u] = start_routine]
  /\ constructor_done' = 1
  /\ Goto(u, "setup")
  /\ UNCHANGED <<tables, start_routine, sgm_lock, tid, reaped, thread_id, found,
                 requested, peer>>

(* The rest runs under the lock, then the routine is called. *)
setup_and_start(u) ==
  /\ At(u, "setup")
  /\ CanLock(u)
  /\ Goto(u, "app")
  /\ UNCHANGED <<tables, start_routine, constructor_done, sgm_lock, locals>>

-----------------------------------------------------------------------------
(* sdrad_init in a running thread asks for a domain slot in the same two     *)
(* steps, without the lock.                                                  *)
sdrad_request_sdi(t) ==
  /\ t \in Requesters
  /\ At(t, "app")
  /\ Cardinality(requested[t]) < MaxRequests
  /\ FindDomain(t)
  /\ Goto(t, "take")
  /\ UNCHANGED <<tables, start_routine, constructor_done, sgm_lock, tid, reaped,
                 thread_id, requested, routine, peer>>

take_domain(t) ==
  /\ At(t, "take")
  /\ IF found[t] = -1
       THEN Corrupts(t)
       ELSE /\ TakeDomain(t)
            /\ requested' = [requested EXCEPT ![t] = @ \cup {found[t]}]
            /\ Goto(t, "app")
            /\ UNCHANGED <<sgm_thread_id, sgm_total_thread, active_domain, start_routine,
                           constructor_done, sgm_lock, tid, reaped, thread_id,
                           found, routine, peer>>

-----------------------------------------------------------------------------
(* The routine returns.  Nobody joins a detached thread. *)
thread_ends(u) ==
  /\ u # 0
  /\ At(u, "app")
  /\ Goto(u, "ended")
  /\ reaped' = IF u \in Detached THEN reaped \cup {u} ELSE reaped
  /\ UNCHANGED <<tables, start_routine, constructor_done, sgm_lock, tid, thread_id,
                 found, requested, routine, peer>>

(* pthread_join.  The C library's pthread_join reaps the thread; the slots   *)
(* are given back after that, without the lock.                              *)

(* Mutant: the slots are given back before the wait. *)
joins_running(u) == pc[u] \in {"app", "ended"} /\ u \notin reaped

Joinable(u) == pc[u] = "ended" /\ u \notin reaped

pthread_join(t, u) ==
  /\ t \in Creators
  /\ At(t, "app")
  /\ Joinable(u)
  /\ u # t /\ u # 0
  /\ reaped' = reaped \cup {u}
  /\ peer' = [peer EXCEPT ![t] = u]
  /\ Goto(t, "scan")
  /\ UNCHANGED <<tables, start_routine, constructor_done, sgm_lock, tid, thread_id,
                 found, requested, routine>>

(* Mutant: the domain slot is not given back. *)
keep_domain(i) == UNCHANGED status

FreeDomainOf(i) == status' = [status EXCEPT ![active_domain[i]] = DOMAIN_NONOCCUPIED]

(* The slot is looked for by pthread_t. *)
join_scan(t) ==
  /\ At(t, "scan")
  /\ IF sdrad_get_sti(tid[peer[t]]) = {}
       THEN Corrupts(t)
       ELSE /\ \E i \in sdrad_get_sti(tid[peer[t]]) :
                 /\ FreeDomainOf(i)
                 /\ found' = [found EXCEPT ![t] = i]
            /\ Goto(t, "release")
            /\ UNCHANGED <<sgm_thread_id, sgm_total_thread, active_domain, start_routine,
                           constructor_done, sgm_lock, tid, reaped, thread_id, requested,
                           routine, peer>>

(* Mutant: the sentinel of the domain table. *)
release_with_domain_sentinel(i) ==
  sgm_thread_id' = [sgm_thread_id EXCEPT ![i] = DOMAIN_NONOCCUPIED]

FreeThreadSlot(i) == sgm_thread_id' = [sgm_thread_id EXCEPT ![i] = THREAD_NONOCCUPIED]

join_release(t) ==
  /\ At(t, "release")
  /\ FreeThreadSlot(found[t])
  /\ Goto(t, "app")
  /\ UNCHANGED <<sgm_total_thread, status, active_domain, start_routine,
                 constructor_done, sgm_lock, locals>>

-----------------------------------------------------------------------------
(* Nothing is left to do, or the state is corrupt: no more is modelled. *)
Quiet ==
  /\ \/ ~NotCorrupt
     \/ \A t \in Thread \ {0} : pc[t] \in {"unborn", "ended"}
  /\ UNCHANGED vars

Constructor(u) ==
  \/ find_thread_slot(u) \/ register_thread(u) \/ find_domain(u)
  \/ claim_domain(u) \/ publish_done(u) \/ setup_and_start(u)

Library(t) ==
  \/ Constructor(t)
  \/ pthread_create_returns(t)
  \/ take_domain(t)
  \/ join_scan(t) \/ join_release(t)

Next ==
  \/ \E t \in Thread :
       \/ Library(t)
       \/ pthread_create_spins(t)
       \/ sdrad_request_sdi(t)
       \/ thread_ends(t)
       \/ \E u \in Thread :
            \/ pthread_create(t, u) \/ pthread_create_fails(t, u)
            \/ pthread_join(t, u)
  \/ Quiet

(* The kernel schedules every thread that can run.  The application need not *)
(* call the library, nor end its routines.                                   *)
Fairness == \A t \in Thread : WF_vars(Library(t))

Spec == Init /\ [][Next]_vars /\ Fairness

-----------------------------------------------------------------------------
(* Properties *)

TypeOK ==
  /\ sgm_thread_id \in [ThreadSlot -> Tid \cup {0, THREAD_NONOCCUPIED}]
  /\ sgm_total_thread \in Nat
  /\ status \in [Slot -> {DOMAIN_OCCUPIED, DOMAIN_NONOCCUPIED}]
  /\ active_domain \in [ThreadSlot -> Slot]
  /\ start_routine \in Thread \cup {NoThread}
  /\ constructor_done \in {0, 1}
  /\ sgm_lock \in Thread \cup {NoThread}
  /\ pc \in [Thread -> Pc]
  /\ tid \in [Thread -> Tid \cup {0}]
  /\ reaped \subseteq Thread
  /\ thread_id \in [Thread -> ThreadSlot \cup {-1}]
  /\ found \in [Thread -> Slot \cup ThreadSlot \cup {-1}]
  /\ requested \in [Thread -> SUBSET Slot]
  /\ routine \in [Thread -> Thread \cup {NoThread}]
  /\ peer \in [Thread -> Thread \cup {NoThread}]

(* Every thread runs the routine its own pthread_create was given: the one   *)
(* global pthread_constructor_info is not overwritten before it is read,     *)
(* however many threads create threads at once.                              *)
RightRoutine == \A u \in Thread : routine[u] \in {NoThread, u}

(* A thread has a slot from its registration until it ends. *)
Registered(u) ==
  pc[u] \in {"request", "claim", "publish", "setup", "app", "spin", "take", "scan", "release"}

(* sdrad_get_sti, with which every call of the library starts, finds the     *)
(* metadata of the calling thread: not those of a thread that is gone, whose *)
(* pthread_t this one was given, and not none.                               *)
FindsItself ==
  \A u \in Thread : Registered(u) => sdrad_get_sti(tid[u]) = {thread_id[u]}

HasDomain(u) == Registered(u) /\ pc[u] \notin {"request", "claim"}

(* The domain slots a thread believes are its own. *)
Held(u) ==
  requested[u] \cup (IF HasDomain(u) THEN {active_domain[thread_id[u]]} ELSE {})

(* No two threads hold one domain slot: its d_info, key and PKRU would be    *)
(* shared, and a rewind of one would free the other's.                       *)
DomainsDistinct ==
  \A u, v \in Thread : u # v => Held(u) \cap Held(v) = {}

(* A joiner is at one of these stages of pthread_join(u). *)
Joining(u, stages) == \E t \in Thread : peer[t] = u /\ pc[t] \in stages

KeepsThreadSlot(u) ==
  \/ Registered(u)
  \/ pc[u] = "ended" /\ (u \in reaped => Joining(u, {"scan", "release"}))

KeepsDomain(u) ==
  \/ HasDomain(u)
  \/ pc[u] = "ended" /\ (u \in reaped => Joining(u, {"scan"}))

(* With one thread that creates and joins, and no detached thread, creating  *)
(* and joining neither loses nor doubles a slot: a thread slot is taken      *)
(* exactly while a thread keeps it, a domain slot while a thread keeps it or *)
(* has it from sdrad_init.                                                   *)
SlotsAccounted ==
  NotCorrupt =>
    /\ \A i \in ThreadSlot : i >= DOMAIN_2 =>
         (sgm_thread_id[i] # THREAD_NONOCCUPIED
            <=> \E u \in Thread : KeepsThreadSlot(u) /\ thread_id[u] = i)
    /\ \A d \in Slot : d >= DOMAIN_2 =>
         (status[d] = DOMAIN_OCCUPIED
            <=> \E u \in Thread : \/ d \in requested[u]
                                  \/ KeepsDomain(u) /\ active_domain[thread_id[u]] = d)

(* pthread_create returns, unless the tables are full: the thread it waits   *)
(* for needs nothing that it holds before constructor_done is set.           *)
CreateReturns ==
  \A t \in Thread : pc[t] = "spin" ~> pc[t] # "spin" \/ ~NotCorrupt
=============================================================================
