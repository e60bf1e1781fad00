----------------------------- MODULE RewindStack ------------------------------
(***************************************************************************)
(* What SDRaD promises about control flow.  The application is a stack of  *)
(* domains, each called from the one below it.  A domain that has saved a  *)
(* frame in the domain on top of the stack may be called from it.  A fault *)
(* takes the top domain off the stack and resumes the frame it had saved,  *)
(* which is in the domain below: nothing else is lost, and only a fault of *)
(* the root domain ends the process.  Recovery may fault in its turn, and  *)
(* it takes a finite time.                                                 *)
(***************************************************************************)
EXTENDS Naturals, Sequences

CONSTANTS
  Domain,  \* all domains
  Root     \* the domain the process starts in

VARIABLES
  chain,   \* the stack of domains, the root first
  frame,   \* domain -> level of chain that holds its saved frame, 0: none
  mode     \* "run", "fault", "aborted", "corrupt"

vars == <<chain, frame, mode>>

Top == chain[Len(chain)]
Below == SubSeq(chain, 1, Len(chain) - 1)

(* The frames that are left once the top of the chain is gone. *)
FramesBelow == [d \in Domain |-> IF frame[d] = Len(chain) THEN 0 ELSE frame[d]]

Init ==
  /\ chain = <<Root>>
  /\ frame = [d \in Domain |-> 0]
  /\ mode = "run"

(* sdrad_init: a domain that is not running gets a frame in the top domain. *)
Save(d) ==
  /\ mode = "run"
  /\ \A i \in 1 .. Len(chain) : chain[i] # d
  /\ frame' = [frame EXCEPT ![d] = Len(chain)]
  /\ UNCHANGED <<chain, mode>>

(* sdrad_enter *)
Call(d) ==
  /\ mode = "run"
  /\ \A i \in 1 .. Len(chain) : chain[i] # d
  /\ frame[d] = Len(chain)
  /\ chain' = Append(chain, d)
  /\ UNCHANGED <<frame, mode>>

(* sdrad_exit *)
Return ==
  /\ mode = "run"
  /\ Len(chain) > 1
  /\ chain' = Below
  /\ frame' = FramesBelow
  /\ UNCHANGED mode

Fault ==
  /\ mode = "run"
  /\ mode' = "fault"
  /\ UNCHANGED <<chain, frame>>

(* The domain below resumes, or faults before it does. *)
Unwind ==
  /\ mode = "fault"
  /\ Len(chain) > 1
  /\ frame[Top] = Len(chain) - 1
  /\ chain' = Below
  /\ frame' = FramesBelow
  /\ mode' \in {"run", "fault"}

Abort ==
  /\ mode = "fault"
  /\ chain = <<Root>>
  /\ mode' = "aborted"
  /\ UNCHANGED <<chain, frame>>

(* Out of slots, or a domain without a stack: nothing can be said any more. *)
Corrupt ==
  /\ mode = "run"
  /\ mode' = "corrupt"
  /\ UNCHANGED <<chain, frame>>

Next ==
  \/ \E d \in Domain : Save(d) \/ Call(d)
  \/ Return \/ Fault \/ Unwind \/ Abort \/ Corrupt

Spec == Init /\ [][Next]_vars /\ WF_vars(Unwind \/ Abort)
=============================================================================
