---------------------------- MODULE MCDisk ------------------------------------
(***************************************************************************)
(* The log with crashes at any moment, and what files hold: two parts that *)
(* do not share state here.  A behaviour is a behaviour of one of them,    *)
(* "part", chosen initially; the variables of the other keep a fixed       *)
(* initial value.                                                          *)
(***************************************************************************)
EXTENDS Log, TLC

VARIABLE part

\* What mkfs reads for the files it installs, by its read() calls.
Source == [x |-> << <<1, 2>>, <<3, 4>>, <<5>> >>, y |-> << <<7>> >>]

VARIABLES data_fs, data_content, data_handle, data_ops
D == INSTANCE FileData WITH BSIZE <- 2, NDIRECT <- 2, NINDIRECT <- 2, MAXOPBLOCKS <- 6,
  NMeta <- 1, FSSIZE <- 9, Files <- {"x", "y"}, Handles <- Procs,
  WriteSizes <- {1, 4, 7}, MaxOps <- 3, fs <- data_fs, content <- data_content,
  handle <- data_handle, ops <- data_ops
DVars == <<data_fs, data_content, data_handle, data_ops>>

---------------------------------------------------------------------------
allVars == <<part, vars, DVars>>

PartInit ==
  /\ part \in {"log", "data"}
  /\ Init
  /\ part # "log" => home = [b \in Blocks |-> 0] /\ dlog = [x \in 1..(NLOG - 1) |-> 0]
  /\ IF part = "data" THEN D!Init ELSE (data_fs = 0 /\ data_content = 0 /\ data_handle = 0 /\ data_ops = 0)

\* A step of part p leaves the variables of the other parts alone.
In(p) ==
  /\ part = p /\ UNCHANGED part
  /\ p # "log" => UNCHANGED vars
  /\ p # "data" => UNCHANGED DVars

PartNext ==
  \/ In("log") /\ Next
  \/ In("data") /\ D!Next

PartSpec == PartInit /\ [][PartNext]_allVars

---------------------------------------------------------------------------
(* The properties of the parts, stated and explained in their modules. *)

\* readi() finds what writei() wrote; the bitmap is exact; a chunk fits the log.
FilesHoldData == part = "data" => D!FilesHoldData

Symmetry == Permutations(Procs) \union Permutations(Blocks)
===============================================================================
