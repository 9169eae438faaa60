------------------------------- MODULE MCParts -------------------------------
(* Parts of the program that share no state, for TLC, with the creation of  *)
(* minifigs by a single server as one of them: a behaviour is about         *)
(* one part, its scene, and the others stay as they started.                *)
EXTENDS MinifigCreation, PacketFields, Appearance, Sha256Stream, PacketRing, TLC

VARIABLES
  scene,
  queue, list, circular, tree,
  stream, fresh, kinds, input, output, fields, arrived,
  ranges, carried

containerVars == <<queue, list, circular, tree>>
streamVars == <<stream, fresh, kinds, input, output, fields, arrived>>
acksVars == <<ranges, carried>>

\* Every known colour and two that are not.
SomeColors == KnownColors \cup {2, 97}
AllStyles == 1..40

Queue == INSTANCE RingQueue WITH
  Values <- {1, 2}, FirstSize <- 2, KeptSize <- 4, ForcedSizes <- {1, 3}, MaxSize <- 4
List == INSTANCE CircularList WITH Items <- {1, 2}, MaxNodes <- 4
\* Pages of two keys for a tree of three levels, pages of four for a half of two.
HighTree == INSTANCE BPlusTree WITH Order <- 2, MaxKey <- 8, MaxPages <- 10
BroadTree == INSTANCE BPlusTree WITH Order <- 4, MaxKey <- 8, MaxPages <- 6
Bits == INSTANCE BitStream WITH
  ByteBits <- 4, StackBytes <- 2, Widths <- {1, 6}, MaxBytes <- 1, MaxFields <- 2
\* A datagram with room for a single range, and one for all of them.
Acks == INSTANCE RangeList WITH
  Numbers <- 6, CountBits <- 16, IndexBits <- 32, Rooms <- {90, 200}, MaxRanges <- 4

ASSUME PartsAssumption ==
  /\ FieldAssumption /\ AppearanceAssumption
  /\ BlockAssumption /\ LengthAssumption
  /\ RingAssumption /\ Queue!QueueAssumption /\ Bits!BitAssumption

PartsInit ==
  /\ scene \in {"fields", "clothes", "hash", "roster",
               "queue", "list", "high tree", "broad tree", "ring", "bits", "acks"}
  /\ CreationInit /\ FieldsInit /\ ClothesInit /\ ShaInit
  /\ Queue!Init /\ List!Init /\ (scene = "list" \/ circular)
  /\ IF scene = "high tree" THEN HighTree!Init ELSE BroadTree!Init
  /\ RingInit
  /\ Bits!Init /\ (scene = "bits" \/ fresh = 0)
  /\ Acks!Init

PartsNext ==
  /\ UNCHANGED scene
  /\ \/ scene = "fields" /\ FieldsNext
     \/ scene # "fields" /\ UNCHANGED fieldVars
  /\ \/ scene = "clothes" /\ ClothesNext
     \/ scene # "clothes" /\ UNCHANGED clothesVars
  /\ \/ scene = "hash" /\ ShaNext
     \/ scene # "hash" /\ UNCHANGED hashVars
  /\ \/ scene = "roster" /\ CreationNext
     \/ scene # "roster" /\ UNCHANGED creationVars
  /\ \/ scene = "queue" /\ Queue!Next /\ UNCHANGED <<list, circular, tree>>
     \/ scene = "list" /\ List!Next /\ UNCHANGED <<queue, tree>>
     \/ scene = "high tree" /\ HighTree!Next /\ UNCHANGED <<queue, list, circular>>
     \/ scene = "broad tree" /\ BroadTree!Next /\ UNCHANGED <<queue, list, circular>>
     \/ scene \notin {"queue", "list", "high tree", "broad tree"} /\ UNCHANGED containerVars
  /\ \/ scene = "ring" /\ RingNext
     \/ scene # "ring" /\ UNCHANGED ringVars
  /\ \/ scene = "bits" /\ Bits!Next
     \/ scene # "bits" /\ UNCHANGED streamVars
  /\ \/ scene = "acks" /\ Acks!Next
     \/ scene # "acks" /\ UNCHANGED acksVars

PartsSpec ==
  PartsInit /\ [][PartsNext]_<<scene, fieldVars, clothesVars, hashVars, creationVars,
                               containerVars, ringVars, streamVars, acksVars>>

\* Where in memory the pages of a tree and the nodes of a list lie is not told
\* apart: what the links must be follows from the shape of the one and the
\* order of the other, and KeepsMap and KeepsSequence see them.
\* Nothing reads what the last acknowledgement carried, nor what was written
\* to a stream but the step that wrote it.
RECURSIVE Shape(_)
Shape(n) ==
  LET p == tree.page[n] IN
  <<p.isLeaf, p.size, p.keys,
    IF p.isLeaf THEN <<>> ELSE [i \in 0..p.size |-> Shape(p.children[i])]>>
View ==
  <<scene, fieldVars, clothesVars, hashVars, creationVars, queue,
    List!Contents(list), List!At(list), circular,
    IF tree.root = 0 THEN <<>> ELSE Shape(tree.root), ringVars,
    stream, fresh, kinds, output, fields, arrived, ranges>>

\* RingQueue and CircularList: every operation does to the elements what it
\* does to a sequence, wherever in the ring or the nodes they lie.
KeepsSequence ==
  [][/\ scene = "queue" => Queue!SequenceKept
     /\ scene = "list" => List!SequenceKept]_<<queue, list, circular>>
\* BPlusTree and RangeList: every operation does to the rows, or to the
\* numbers to acknowledge, what it does to a map or a set, whatever the pages
\* and the ranges become.
KeepsMap ==
  [][/\ scene = "high tree" => HighTree!MapKept
     /\ scene = "broad tree" => BroadTree!MapKept
     /\ scene = "acks" => Acks!NumbersKept]_<<tree, acksVars>>
\* BitStream: fields are read as they were written.
ReadsWhatWasWritten == [][scene = "bits" => Bits!FieldsKept]_streamVars
=============================================================================
