-------------------------------- MODULE Packing --------------------------------
(***************************************************************************)
(* The packed dataset of a training run: _post_process_datasets in         *)
(* swift/pipelines/train/sft.py wraps the dataset in an                    *)
(* IterablePackingDataset if --streaming is set, and in a PackingDataset   *)
(* if it is not.  Each class keeps its own state; a behaviour of this      *)
(* module uses one of the two and leaves the other untouched.              *)
(***************************************************************************)
EXTENDS IterablePacking, PackedIndex

VARIABLE streaming   \* args.streaming

packingVars == <<streaming, vars, mapVars>>

(* The class that is not used does not exist: its variables are fixed.     *)
NoStream == length = [s \in Samples |-> 1] /\ encoding = [s \in Samples |-> "ok"]
NoMap == lengths = [i \in Indices |-> 1]

PackingInit ==
    /\ streaming \in BOOLEAN
    /\ Init /\ MapInit
    /\ IF streaming THEN NoMap ELSE NoStream

PackingNext ==
    \/ streaming /\ Next /\ UNCHANGED <<streaming, mapVars>>
    \/ ~streaming /\ MapNext /\ UNCHANGED <<streaming, vars>>

(* The processes of the class in use keep running.                         *)
PackingSpec ==
    /\ PackingInit /\ [][PackingNext]_packingVars
    /\ WF_packingVars(streaming /\ Main /\ UNCHANGED <<streaming, mapVars>>)
    /\ \A w \in Procs :
          WF_packingVars(streaming /\ Processor(w) /\ UNCHANGED <<streaming, mapVars>>)
    /\ WF_packingVars(~streaming /\ Master /\ UNCHANGED <<streaming, vars>>)
    /\ \A r \in Ranks :
          WF_packingVars(~streaming /\ Worker(r) /\ UNCHANGED <<streaming, vars>>)

(* The constructor of the map-style dataset returns: the master waits for  *)
(* as many end markers as there are workers, and every worker sends one.   *)
PackingEnds == ~streaming ~> master = "done"
=============================================================================
