-------------------------- MODULE NandWriterProofs --------------------------
(***************************************************************************)
(* Theorems about what a run of mn_writer leaves on the flash, for any      *)
(* number of blocks, bad ones among them, of runs, of ini files, and of     *)
(* commands that fail or are cut off.                                       *)
(***************************************************************************)
EXTENDS NandWriter, FiniteSetTheorems, SequenceTheorems, WellFoundedInduction, TLAPS

(* What the theorems need of the types: which commands come next, and what  *)
(* the flash is made of.                                                    *)
FlashTypes ==
  /\ pc \in {"off", "erasesys", "sys", "erasearea", "entry", "done"}
  /\ pc = "sys" => i \in SysBlocks
  /\ badSys \subseteq SysBlocks /\ badArea \subseteq Blocks
  /\ DOMAIN sys = SysBlocks /\ DOMAIN area = Blocks
  /\ failed \in BOOLEAN

(* The good blocks that no bad one pushes a copy into. *)
Calm == {b \in SysBlocks \ badSys : b = 0 \/ b - 1 \notin badSys}

(* If nothing has failed, each of them is burnt once, after it was erased.  *)
SystemInv ==
  ~failed /\ TableHolds =>
    /\ pc = "sys" =>
         \A b \in Calm : sys[b] = IF b < i THEN <<"system", 0, run>> ELSE Erased
    /\ pc \in {"erasearea", "entry", "done"} =>
         \A b \in Calm : sys[b] = <<"system", 0, run>>

(* The third part of a piece is the run that burnt it: a block is not a     *)
(* piece that an earlier run has left.                                      *)
New(content) == content \in {Erased, Junk} \/ content[3] = run

NewInv ==
  ~failed /\ TableHolds =>
    /\ pc \in {"sys", "erasearea", "entry", "done"} => \A b \in SysBlocks \ badSys : New(sys[b])
    /\ pc \in {"entry", "done"} => \A b \in Blocks \ badArea : New(area[b])
-----------------------------------------------------------------------------
(* Where the tools put the one piece of a system block.                     *)

(* Fewer than one good block between two of them: there is none. *)
LEMMA NoneBelow ==
  ASSUME NEW b \in Int, NEW start \in Int, NEW bad, Below(b, start, bad) < 1
  PROVE  (start .. b - 1) \subseteq bad
<1> DEFINE good == (start .. b - 1) \ bad
<1>1. IsFiniteSet(start .. b - 1)
  BY FS_Interval
<1>2. IsFiniteSet(good)
  BY <1>1, FS_Subset
<1>3. Cardinality(good) \in Nat /\ Cardinality(good) < 1
  BY <1>2, FS_CardinalityType DEF Below
<1>4. Cardinality(good) = 0
  BY <1>3
<1>5. good = {}
  BY <1>2, <1>4, FS_EmptySet
<1>6. QED
  BY <1>5

(* The first good block takes the first piece. *)
LEMMA NothingBelow ==
  ASSUME NEW b \in Int, NEW bad
  PROVE  Below(b, b, bad) = 0
<1>1. (b .. b - 1) \ bad = {}
  OBVIOUS
<1>2. QED
  BY <1>1, FS_EmptySet DEF Below

(* A piece burnt from a calm block on goes into that block, and into none   *)
(* of the other calm ones; none of them is touched from another block.      *)
LEMMA CalmPlace ==
  ASSUME NEW b \in Calm, NEW start \in SysBlocks, FlashTypes
  PROVE  b \in Place(sys, badSys, start, 1) <=> b = start
<1>1. b \in SysBlocks /\ b \in Int /\ start \in Int /\ b \in DOMAIN sys \ badSys
  BY DEF Calm, FlashTypes, SysBlocks, uIBRAreaSize
<1>2. ASSUME b = start  PROVE  b \in Place(sys, badSys, start, 1)
  BY <1>1, <1>2, NothingBelow DEF Place
<1>3. ASSUME b \in Place(sys, badSys, start, 1), b # start  PROVE  FALSE
  <2>1. start < b /\ Below(b, start, badSys) < 1
    BY <1>1, <1>3 DEF Place
  <2>2. (start .. b - 1) \subseteq badSys
    BY <1>1, <2>1, NoneBelow
  <2>3. b - 1 \in badSys
    BY <1>1, <2>1, <2>2
  <2>4. b # 0 /\ b - 1 \notin badSys
    BY <1>1, <2>1 DEF Calm, SysBlocks, uIBRAreaSize
  <2>5. QED
    BY <2>3, <2>4
<1>4. QED
  BY <1>2, <1>3

-----------------------------------------------------------------------------
THEOREM FlashTypesHold == Spec => []FlashTypes
<1>1. Init => FlashTypes
  BY DEF Init, FlashTypes
<1>2. FlashTypes /\ [Next]_vars => FlashTypes'
  <2> SUFFICES ASSUME FlashTypes, [Next]_vars  PROVE FlashTypes'
    OBVIOUS
  <2>1. CASE Run
    BY <2>1 DEF Run, FlashTypes, chips
  <2>10. CASE Overrun
    <3>1. DOMAIN sys' = SysBlocks /\ DOMAIN area' = Blocks
      BY <2>10 DEF Overrun, FlashTypes
    <3>2. QED
      BY <2>10, <3>1 DEF Overrun, FlashTypes, chips
  <2>2. CASE EraseSystem
    <3>1. DOMAIN sys' = SysBlocks
      BY <2>2 DEF EraseSystem, ErasedTo, FlashTypes
    <3>2. /\ pc' = "off" \/ (pc' = "sys" /\ i' = 0)
          /\ failed' \in BOOLEAN
      BY <2>2 DEF EraseSystem, Then, FlashTypes
    <3>3. 0 \in SysBlocks
      BY DEF SysBlocks, uIBRAreaSize
    <3>4. QED
      BY <2>2, <3>1, <3>2, <3>3 DEF EraseSystem, FlashTypes, chips
  <2>3. CASE BurnSystem
    <3>1. DOMAIN sys' = SysBlocks
      BY <2>3 DEF BurnSystem, Written, FlashTypes
    <3>2. /\ pc' = "sys" => i' \in SysBlocks
          /\ pc' \in {"off", "sys", "erasearea"}
          /\ failed' \in BOOLEAN
      <4>1. i \in SysBlocks
        BY <2>3 DEF BurnSystem, At, FlashTypes
      <4>2. PICK all \in BOOLEAN :
              IF MoreCopies(i + 1) THEN Then(all, "sys", i + 1) ELSE Then(all, "erasearea", 0)
        BY <2>3 DEF BurnSystem
      <4>3. CASE MoreCopies(i + 1)
        <5>1. i + 1 \in SysBlocks
          BY <4>1, <4>3 DEF MoreCopies, SysBlocks, uIBRAreaSize
        <5>2. QED
          BY <4>1, <4>2, <4>3, <5>1 DEF Then, FlashTypes
      <4>4. CASE ~MoreCopies(i + 1)
        BY <4>1, <4>2, <4>4 DEF Then, FlashTypes
      <4>5. QED
        BY <4>3, <4>4
    <3>3. QED
      BY <2>3, <3>1, <3>2 DEF BurnSystem, FlashTypes, chips
  <2>4. CASE EraseArea
    <3>1. DOMAIN area' = Blocks
      BY <2>4 DEF EraseArea, EraseThen, ErasedTo, FlashTypes
    <3>2. QED
      BY <2>4, <3>1 DEF EraseArea, EraseThen, Then, FlashTypes, chips
  <2>5. CASE RunLastCommand
    <3>1. DOMAIN area' = Blocks
      BY <2>5 DEF RunLastCommand, EraseThen, ErasedTo, FlashTypes
    <3>2. pc' \in {"off", "entry"} /\ failed' \in BOOLEAN
      BY <2>5 DEF RunLastCommand, EraseThen, Then, FlashTypes
    <3>3. QED
      BY <2>5, <3>1, <3>2 DEF RunLastCommand, FlashTypes, chips
  <2>6. CASE BurnImage
    <3>1. DOMAIN area' = Blocks
      BY <2>6 DEF BurnImage, Written, FlashTypes
    <3>2. pc' \in {"off", "entry"} /\ failed' \in BOOLEAN
      BY <2>6 DEF BurnImage, Then, FlashTypes
    <3>3. QED
      BY <2>6, <3>1, <3>2 DEF BurnImage, FlashTypes, chips
  <2>7. CASE Done
    BY <2>7 DEF Done, FlashTypes, chips
  <2>8. CASE UNCHANGED vars
    BY <2>8 DEF vars, chips, FlashTypes
  <2>9. QED
    BY <2>1, <2>2, <2>3, <2>4, <2>5, <2>6, <2>7, <2>8, <2>10 DEF Next
<1>3. QED
  BY <1>1, <1>2, PTL DEF Spec

(* The calm blocks hold what this run has burnt so far: they were erased    *)
(* first, and no copy but their own reaches them.                           *)
THEOREM SystemBurnt == Spec => []SystemInv
<1>1. Init => SystemInv
  BY DEF Init, SystemInv
<1>2. FlashTypes /\ SystemInv /\ [Next]_vars => SystemInv'
  <2> SUFFICES ASSUME FlashTypes, SystemInv, [Next]_vars, ~failed', TableHolds'  PROVE
          /\ pc' = "sys" =>
               \A b \in Calm' : sys'[b] = IF b < i' THEN <<"system", 0, run'>> ELSE Erased
          /\ pc' \in {"erasearea", "entry", "done"} =>
               \A b \in Calm' : sys'[b] = <<"system", 0, run'>>
    BY DEF SystemInv
  <2>h. ini' = ini => TableHolds
    BY DEF TableHolds, Entries
  <2>c. Calm \subseteq SysBlocks \ badSys /\ SysBlocks \subseteq Int
    BY DEF Calm, SysBlocks, uIBRAreaSize
  <2>d. ASSUME NEW l, NEW n, NEW all \in BOOLEAN, Then(all, l, n), pc' # "off"
        PROVE  all /\ ~failed /\ pc' = l /\ i' = n
    BY <2>d DEF Then, FlashTypes
  <2>1. CASE Run \/ Overrun
    BY <2>1 DEF Run, Overrun
  <2>2. CASE EraseSystem
    <3>1. ASSUME pc' # "off"  PROVE pc' = "sys" /\ \A b \in Calm' : sys'[b] = Erased /\ ~(b < i')
      <4>1. PICK stop \in 0 .. uIBRAreaSize :
              sys' = ErasedTo(sys, badSys, stop) /\ Then(stop = uIBRAreaSize, "sys", 0)
        BY <2>2 DEF EraseSystem
      <4>2. stop = uIBRAreaSize /\ pc' = "sys" /\ i' = 0
        BY <3>1, <4>1, <2>d
      <4>3. Calm' = Calm
        BY <2>2 DEF EraseSystem, Calm, chips
      <4>4. \A b \in Calm : sys'[b] = Erased
        BY <4>1, <4>2, <2>c DEF ErasedTo, FlashTypes, SysBlocks, uIBRAreaSize
      <4>5. QED
        BY <4>2, <4>3, <4>4, <2>c DEF SysBlocks, uIBRAreaSize
    <3>2. QED
      BY <3>1
  <2>3. CASE BurnSystem
    <3> SUFFICES ASSUME pc' # "off"  PROVE
            /\ pc' = "sys" =>
                 \A b \in Calm' : sys'[b] = IF b < i' THEN <<"system", 0, run'>> ELSE Erased
            /\ pc' \in {"erasearea", "entry", "done"} =>
                 \A b \in Calm' : sys'[b] = <<"system", 0, run'>>
      OBVIOUS
    <3>1. PICK done \in 0 .. 1, torn \in BOOLEAN :
            /\ sys' = Written(sys, badSys, i, "system", done, torn /\ done = 0)
            /\ IF MoreCopies(i + 1) THEN Then(done = 1, "sys", i + 1)
                                    ELSE Then(done = 1, "erasearea", 0)
      BY <2>3 DEF BurnSystem
    <3>2. pc = "sys" /\ i \in SysBlocks /\ Calm' = Calm /\ run' = run /\ TableHolds
      BY <2>3, <2>h DEF BurnSystem, At, FlashTypes, Calm, chips
    <3>3. CASE MoreCopies(i + 1)
      <4>1. done = 1 /\ ~failed /\ pc' = "sys" /\ i' = i + 1
        BY <3>1, <3>3, <2>d
      <4>2. ASSUME NEW b \in Calm
            PROVE  sys'[b] = IF b < i + 1 THEN <<"system", 0, run>> ELSE Erased
        <5>1. sys[b] = IF b < i THEN <<"system", 0, run>> ELSE Erased
          BY <3>2, <4>1 DEF SystemInv
        <5>2. b \in Place(sys, badSys, i, 1) <=> b = i
          BY <3>2, CalmPlace
        <5>3. Below(i, i, badSys) = 0
          BY <2>c, <3>2, NothingBelow
        <5>4. b \in DOMAIN sys /\ b \in Int /\ i \in Int
          BY <2>c, <3>2 DEF FlashTypes
        <5>5. sys'[b] = IF b \in Place(sys, badSys, i, 1)
                        THEN IF sys[b] = Erased
                             THEN <<"system", Below(b, i, badSys), run>> ELSE Junk
                        ELSE sys[b]
          BY <3>1, <4>1, <5>4 DEF Written
        <5>6. QED
          BY <5>1, <5>2, <5>3, <5>4, <5>5
      <4>3. QED
        BY <3>2, <4>1, <4>2
    <3>4. CASE ~MoreCopies(i + 1)
      <4>1. done = 1 /\ ~failed /\ pc' = "erasearea"
        BY <3>1, <3>4, <2>d
      <4>2. i = uIBRAreaSize - 1
        BY <3>2, <3>4 DEF MoreCopies, SysBlocks, uIBRAreaSize
      <4>3. ASSUME NEW b \in Calm  PROVE sys'[b] = <<"system", 0, run>>
        <5>1. sys[b] = IF b < i THEN <<"system", 0, run>> ELSE Erased
          BY <3>2, <4>1 DEF SystemInv
        <5>2. b \in Place(sys, badSys, i, 1) <=> b = i
          BY <3>2, CalmPlace
        <5>3. Below(i, i, badSys) = 0
          BY <2>c, <3>2, NothingBelow
        <5>4. b \in DOMAIN sys /\ b <= i /\ b \in Int /\ i \in Int
          BY <2>c, <3>2, <4>2 DEF FlashTypes, SysBlocks, uIBRAreaSize
        <5>5. sys'[b] = IF b \in Place(sys, badSys, i, 1)
                        THEN IF sys[b] = Erased
                             THEN <<"system", Below(b, i, badSys), run>> ELSE Junk
                        ELSE sys[b]
          BY <3>1, <4>1, <5>4 DEF Written
        <5>6. QED
          BY <5>1, <5>2, <5>3, <5>4, <5>5
      <4>4. QED
        BY <3>2, <4>1, <4>3
    <3>5. QED
      BY <3>3, <3>4
  <2>4. ASSUME EraseArea \/ RunLastCommand \/ BurnImage \/ Done
        PROVE  /\ pc' \in {"off", "entry", "done"} /\ pc \in {"erasearea", "entry"}
               /\ UNCHANGED <<ini, sys, run, badSys>>
               /\ pc' # "off" => ~failed
    <3>1. CASE EraseArea
      BY <3>1 DEF EraseArea, EraseThen, Then, At, chips, FlashTypes
    <3>2. CASE RunLastCommand
      BY <3>2 DEF RunLastCommand, EraseThen, Then, At, chips, FlashTypes
    <3>3. CASE BurnImage
      BY <3>3 DEF BurnImage, Then, At, chips, FlashTypes
    <3>4. CASE Done
      BY <3>4 DEF Done, At, chips
    <3>5. QED
      BY <2>4, <3>1, <3>2, <3>3, <3>4
  <2>5. CASE EraseArea \/ RunLastCommand \/ BurnImage \/ Done
    <3>1. Calm' = Calm
      BY <2>4, <2>5 DEF Calm
    <3>2. QED
      BY <2>4, <2>5, <2>h, <3>1 DEF SystemInv
  <2>6. CASE UNCHANGED vars
    <3>1. Calm' = Calm
      BY <2>6 DEF Calm, vars, chips
    <3>2. QED
      BY <2>6, <2>h, <3>1 DEF SystemInv, vars, chips
  <2>7. QED
    BY <2>1, <2>2, <2>3, <2>5, <2>6 DEF Next
<1>3. QED
  BY <1>1, <1>2, FlashTypesHold, PTL DEF Spec

(* There are as many system blocks as copies of the system block. *)
LEMMA FourSysBlocks == IsFiniteSet(SysBlocks) /\ Cardinality(SysBlocks) = uIBRAreaSize
<1>1. SysBlocks = 0 .. 3
  BY DEF SysBlocks, uIBRAreaSize
<1>2. IsFiniteSet(0 .. 3) /\ Cardinality(0 .. 3) = IF 0 > 3 THEN 0 ELSE 3 - 0 + 1
  <2>1. 0 \in Int /\ 3 \in Int
    OBVIOUS
  <2>2. QED
    BY ONLY <2>1, FS_Interval
<1>3. QED
  BY <1>1, <1>2 DEF uIBRAreaSize

(* What of an image is pushed out by bad blocks: the blocks of /dev/mtd0    *)
(* that are not calm are bad, or behind a bad one.                          *)
LEMMA MostAreCalm ==
  ASSUME FlashTypes
  PROVE  /\ IsFiniteSet(Calm) /\ IsFiniteSet(badSys)
         /\ Cardinality(Calm) \in Nat /\ Cardinality(badSys) \in Nat
         /\ Cardinality(Calm) >= uIBRAreaSize - 2 * Cardinality(badSys)
<1> DEFINE Behind == {b \in SysBlocks : b - 1 \in badSys}
           back   == [b \in Behind |-> b - 1]
<1>1. IsFiniteSet(SysBlocks) /\ Cardinality(SysBlocks) = uIBRAreaSize
  BY FourSysBlocks
<1>2. badSys \subseteq SysBlocks /\ Calm \subseteq SysBlocks /\ Behind \subseteq SysBlocks
  BY DEF FlashTypes, Calm
<1>3. IsFiniteSet(Calm) /\ IsFiniteSet(badSys) /\ IsFiniteSet(Behind)
  BY <1>1, <1>2, FS_Subset
<1>4. /\ Cardinality(Calm) \in Nat
      /\ Cardinality(badSys) \in Nat
      /\ Cardinality(Behind) \in Nat
  BY <1>3, FS_CardinalityType
<1>5. Cardinality(Behind) <= Cardinality(badSys)
  <2>1. back \in Injection(Behind, badSys)
    BY DEF Injection, IsInjective, SysBlocks, uIBRAreaSize
  <2>2. QED
    BY <1>3, <2>1, FS_Injection
<1>6. SysBlocks \subseteq Calm \cup (badSys \cup Behind)
  BY DEF Calm
<1>7. /\ IsFiniteSet(badSys \cup Behind)
      /\ Cardinality(badSys \cup Behind) \in Nat
      /\ Cardinality(badSys \cup Behind) <= Cardinality(badSys) + Cardinality(Behind)
  <2>1. IsFiniteSet(badSys \cap Behind)
    BY <1>3, FS_Subset
  <2>2. Cardinality(badSys \cap Behind) \in Nat
    BY <2>1, FS_CardinalityType
  <2>3. /\ IsFiniteSet(badSys \cup Behind)
        /\ Cardinality(badSys \cup Behind)
             = Cardinality(badSys) + Cardinality(Behind) - Cardinality(badSys \cap Behind)
    BY <1>3, FS_Union
  <2>4. Cardinality(badSys \cup Behind) \in Nat
    BY <2>3, FS_CardinalityType
  <2> HIDE DEF Behind
  <2>5. QED
    BY <1>4, <2>2, <2>3, <2>4
<1>8. /\ IsFiniteSet(Calm \cup (badSys \cup Behind))
      /\ Cardinality(Calm \cup (badSys \cup Behind)) \in Nat
      /\ Cardinality(Calm \cup (badSys \cup Behind))
           <= Cardinality(Calm) + Cardinality(badSys \cup Behind)
  <2>1. IsFiniteSet(Calm \cap (badSys \cup Behind))
    BY <1>3, FS_Subset
  <2>2. Cardinality(Calm \cap (badSys \cup Behind)) \in Nat
    BY <2>1, FS_CardinalityType
  <2>3. /\ IsFiniteSet(Calm \cup (badSys \cup Behind))
        /\ Cardinality(Calm \cup (badSys \cup Behind))
             = Cardinality(Calm) + Cardinality(badSys \cup Behind)
                 - Cardinality(Calm \cap (badSys \cup Behind))
    BY <1>3, <1>7, FS_Union
  <2>4. Cardinality(Calm \cup (badSys \cup Behind)) \in Nat
    BY <2>3, FS_CardinalityType
  <2> HIDE DEF Behind
  <2>5. QED
    BY <1>4, <1>7, <2>2, <2>3, <2>4
<1>9. uIBRAreaSize <= Cardinality(Calm \cup (badSys \cup Behind))
  BY <1>1, <1>6, <1>8, FS_Subset
<1> HIDE DEF Behind
<1>10. Cardinality(Calm) >= uIBRAreaSize - 2 * Cardinality(badSys)
  BY <1>4, <1>5, <1>7, <1>8, <1>9 DEF uIBRAreaSize
<1>11. QED
  BY <1>3, <1>4, <1>10

(* When all the tools of a run did their work, a bad block of /dev/mtd0 has *)
(* cost at most two of the four copies of the system block, the one it      *)
(* lies in and the one that nandwrite pushes into: the half of CopiesSurvive *)
(* about the loop of burn_images over the copies.                           *)
THEOREM SystemCopiesSurvive == Spec => []SystemSurvives
<1>1. FlashTypes /\ SystemInv => SystemSurvives
  <2> SUFFICES ASSUME FlashTypes, SystemInv, At("done"), ~failed, TableHolds
               PROVE  Cardinality(SystemCopies) >= uIBRAreaSize - 2 * Cardinality(badSys)
    BY DEF SystemSurvives
  <2>1. Calm \subseteq SystemCopies
    BY DEF SystemInv, SystemCopies, Calm, At
  <2>2. IsFiniteSet(SystemCopies)
    <3>1. IsFiniteSet(SysBlocks)
      BY FourSysBlocks
    <3>2. SystemCopies \subseteq SysBlocks
      BY DEF SystemCopies
    <3>3. QED
      BY <3>1, <3>2, FS_Subset
  <2>3. Cardinality(Calm) <= Cardinality(SystemCopies) /\ Cardinality(SystemCopies) \in Nat
    BY <2>1, <2>2, FS_Subset, FS_CardinalityType
  <2>4. QED
    BY <2>3, MostAreCalm DEF uIBRAreaSize
<1>2. QED
  BY <1>1, FlashTypesHold, SystemBurnt, PTL
-----------------------------------------------------------------------------
(* What an earlier run left                                                 *)

(* nandwrite leaves nothing that is not new where there was nothing before. *)
LEMMA WrittenIsNew ==
  ASSUME NEW flash, NEW bad, NEW start, NEW image, NEW done, NEW torn,
         NEW b \in DOMAIN flash, New(flash[b])
  PROVE  New(Written(flash, bad, start, image, done, torn)[b])
<1> DEFINE piece == <<image, Below(b, start, bad), run>>
<1>1. piece[3] = run
  OBVIOUS
<1>2. Written(flash, bad, start, image, done, torn)[b] \in {piece, Junk, flash[b]}
  BY DEF Written
<1> HIDE DEF piece
<1>3. QED
  BY <1>1, <1>2 DEF New

(* A run in which nothing failed has left no piece of an earlier one on the *)
(* good blocks that it has erased, whatever it has burnt since.             *)
THEOREM NewHolds == Spec => []NewInv
<1>1. Init => NewInv
  BY DEF Init, NewInv
<1>2. FlashTypes /\ NewInv /\ [Next]_vars => NewInv'
  <2> SUFFICES ASSUME FlashTypes, NewInv, [Next]_vars, ~failed', TableHolds', pc' # "off"  PROVE
          /\ pc' \in {"sys", "erasearea", "entry", "done"} =>
               \A b \in SysBlocks \ badSys' : New(sys[b])'
          /\ pc' \in {"entry", "done"} =>
               \A b \in Blocks \ badArea' : New(area[b])'
    BY DEF NewInv
  <2>h. ini' = ini => TableHolds
    BY DEF TableHolds, Entries
  <2>c. DOMAIN sys = SysBlocks /\ DOMAIN area = Blocks /\ SysBlocks \subseteq Int /\ Blocks \subseteq Int
        /\ (\A b \in SysBlocks : b < uIBRAreaSize) /\ (\A b \in Blocks : b < AreaBlocks)
        /\ uIBRAreaSize \in Int /\ AreaBlocks \in Int
    BY NandAssumption DEF FlashTypes, SysBlocks, Blocks, uIBRAreaSize
  <2>d. ASSUME NEW l, NEW n, NEW all \in BOOLEAN, Then(all, l, n)
        PROVE  all /\ ~failed /\ pc' = l
    BY <2>d DEF Then, FlashTypes
  <2>e. ASSUME NEW n, EraseThen(n)
        PROVE  /\ ~failed /\ pc' = "entry"
               /\ \A b \in Blocks \ badArea : area'[b] = Erased
    <3>1. PICK stop \in 0 .. AreaBlocks :
            area' = ErasedTo(area, badArea, stop) /\ Then(stop = AreaBlocks, "entry", n)
      BY <2>e DEF EraseThen
    <3>2. stop = AreaBlocks /\ ~failed /\ pc' = "entry"
      BY <3>1, <2>d
    <3>3. QED
      BY <3>1, <3>2, <2>c DEF ErasedTo
  <2>1. CASE Run \/ Overrun
    BY <2>1 DEF Run, Overrun
  <2>2. CASE EraseSystem
    <3>1. PICK stop \in 0 .. uIBRAreaSize :
            sys' = ErasedTo(sys, badSys, stop) /\ Then(stop = uIBRAreaSize, "sys", 0)
      BY <2>2 DEF EraseSystem
    <3>2. stop = uIBRAreaSize /\ pc' = "sys"
      BY <3>1, <2>d
    <3>3. \A b \in SysBlocks \ badSys : sys'[b] = Erased
      BY <3>1, <3>2, <2>c DEF ErasedTo
    <3>4. badSys' = badSys
      BY <2>2 DEF EraseSystem, chips
    <3>5. QED
      BY <3>2, <3>3, <3>4 DEF New
  <2>3. CASE BurnSystem
    <3>1. PICK done \in 0 .. 1, torn \in BOOLEAN :
            /\ sys' = Written(sys, badSys, i, "system", done, torn /\ done = 0)
            /\ IF MoreCopies(i + 1) THEN Then(done = 1, "sys", i + 1)
                                    ELSE Then(done = 1, "erasearea", 0)
      BY <2>3 DEF BurnSystem
    <3>2. ~failed /\ pc' \in {"sys", "erasearea"}
      <4>1. CASE MoreCopies(i + 1)
        BY <3>1, <4>1, <2>d
      <4>2. CASE ~MoreCopies(i + 1)
        BY <3>1, <4>2, <2>d
      <4>3. QED
        BY <4>1, <4>2
    <3>3. pc = "sys" /\ badSys' = badSys /\ run' = run /\ TableHolds
      BY <2>3, <2>h DEF BurnSystem, At, chips
    <3>4. \A b \in SysBlocks \ badSys : New(sys[b])
      BY <3>2, <3>3 DEF NewInv
    <3>5. ASSUME NEW b \in SysBlocks \ badSys  PROVE New(sys'[b])
      BY <3>1, <3>4, <2>c, WrittenIsNew
    <3>6. QED
      BY <3>2, <3>3, <3>5 DEF New
  <2>4. CASE EraseArea
    <3>1. ~failed /\ pc' = "entry" /\ \A b \in Blocks \ badArea : area'[b] = Erased
      BY <2>4, <2>e DEF EraseArea
    <3>2. pc = "erasearea" /\ UNCHANGED <<sys, badSys, badArea, run>> /\ TableHolds
      BY <2>4, <2>h DEF EraseArea, At, chips
    <3>3. QED
      BY <3>1, <3>2 DEF NewInv, New
  <2>5. CASE RunLastCommand
    <3>1. pc = "entry" /\ UNCHANGED <<sys, badSys, badArea, run>> /\ TableHolds
      BY <2>5, <2>h DEF RunLastCommand, At, chips
    <3>2. CASE i = 0
      <4>1. ~failed /\ pc' = "entry" /\ \A b \in Blocks \ badArea : area'[b] = Erased
        BY <2>5, <3>2, <2>e DEF RunLastCommand
      <4>2. QED
        BY <3>1, <4>1 DEF NewInv, New
    <3>3. CASE i # 0
      <4>1. ~failed /\ pc' = "entry" /\ area' = area
        BY <2>5, <3>3, <2>d DEF RunLastCommand
      <4>2. QED
        BY <3>1, <4>1 DEF NewInv, New
    <3>4. QED
      BY <3>2, <3>3
  <2>6. CASE BurnImage
    <3> DEFINE image == Entries[i + 1].flag
               start == Offset(i + 1)
               pieces == Pieces(Entries[i + 1].len)
               n == IF Fits(area, start, pieces) THEN pieces ELSE 0
    <3>1. PICK done \in 0 .. n, torn \in BOOLEAN :
            /\ area' = Written(area, badArea, start, image, done, torn /\ done < n)
            /\ Then(done = n, "entry", i + 1)
      BY <2>6 DEF BurnImage
    <3>2. ~failed /\ pc' = "entry"
      BY <3>1, <2>d
    <3>3. pc = "entry" /\ UNCHANGED <<sys, badSys, badArea, run>> /\ TableHolds
      BY <2>6, <2>h DEF BurnImage, At, chips
    <3>4. ASSUME NEW b \in Blocks \ badArea  PROVE New(area'[b])
      <4>1. New(area[b])
        BY <3>2, <3>3 DEF NewInv
      <4>2. QED
        BY <3>1, <4>1, <2>c, WrittenIsNew
    <3>5. QED
      BY <3>2, <3>3, <3>4 DEF NewInv, New
  <2>7. CASE Done
    BY <2>7, <2>h DEF Done, At, chips, NewInv, New
  <2>8. CASE UNCHANGED vars
    BY <2>8, <2>h DEF vars, chips, NewInv, New
  <2>9. QED
    BY <2>1, <2>2, <2>3, <2>4, <2>5, <2>6, <2>7, <2>8 DEF Next
<1>3. QED
  BY <1>1, <1>2, FlashTypesHold, PTL DEF Spec

(* When all the tools of a run did their work, no good block of the flash   *)
(* holds a piece that an earlier run has left, whatever that run was of and *)
(* wherever it broke off: the two erases come before all that is burnt, and *)
(* the second erase of /dev/mtd1, which the default branch of the switch    *)
(* runs, before the first image.  The ini file must not name more images    *)
(* than FWInfo holds.                                                       *)
THEOREM NothingLeftBehind ==
  Spec => [](At("done") /\ ~failed /\ TableHolds =>
               /\ \A b \in SysBlocks \ badSys : New(sys[b])
               /\ \A b \in Blocks \ badArea : New(area[b]))
<1>1. NewInv => (At("done") /\ ~failed /\ TableHolds =>
                   /\ \A b \in SysBlocks \ badSys : New(sys[b])
                   /\ \A b \in Blocks \ badArea : New(area[b]))
  BY DEF NewInv, At
<1>2. QED
  BY <1>1, NewHolds, PTL
-----------------------------------------------------------------------------
(* The table of images                                                      *)

(* Every set of natural numbers has a least one: what the facts about the   *)
(* table, which is filled entry by entry, are proved with.                  *)
LEMMA Least ==
  ASSUME NEW S \in SUBSET Nat, S # {}
  PROVE  \E n \in S : \A m \in S : n <= m
<1> DEFINE R == OpToRel(<, Nat)
<1>1. IsWellFoundedOn(R, Nat)
  BY NatLessThanWellFounded
<1>2. S \subseteq Nat
  OBVIOUS
<1>3. \A x, y \in Nat : x < y => <<x, y>> \in R
  BY DEF OpToRel
<1> HIDE DEF R
<1>4. \E x \in S : \A y \in S : ~ (<<y, x>> \in R)
  BY ONLY <1>1, <1>2, S # {}, WFMin
<1>5. PICK n \in S : \A m \in S : ~ (<<m, n>> \in R)
  BY <1>4
<1>6. \A m \in S : m \in Nat /\ n \in Nat /\ ~ (m < n)
  BY <1>2, <1>3, <1>5
<1>7. \A m \in S : n <= m
  BY <1>6
<1>8. QED
  BY <1>7

(* One entry, some more, and then n times the same one. *)
LEMMA EntryByEntry ==
  ASSUME NEW L, NEW first \in L, NEW more \in Seq(L), NEW last \in L, NEW n \in Nat,
         NEW all, all = <<first>> \o more \o [k \in 1 .. n |-> last]
  PROVE  /\ Len(more) \in Nat /\ Len(all) = 1 + Len(more) + n
         /\ all[1] = first
         /\ \A k \in 1 .. Len(more) : all[1 + k] = more[k]
         /\ \A k \in 2 + Len(more) .. Len(all) : all[k] = last
<1> DEFINE begin == <<first>>
           end   == [k \in 1 .. n |-> last]
<1>1. begin \in Seq(L) /\ Len(begin) = 1 /\ begin[1] = first
  OBVIOUS
<1>2. end \in [1 .. n -> L] /\ \A k \in 1 .. n : end[k] = last
  OBVIOUS
<1>3. end \in Seq(L) /\ Len(end) = n
  <2>1. end \in Seq(L)
    BY <1>2, SeqDef
  <2>2. 1 .. Len(end) = 1 .. n /\ Len(end) \in Nat
    BY <1>2, <2>1, LenProperties
  <2>3. QED
    BY <2>2
<1>4. Len(more) \in Nat
  BY LenProperties
<1>5. all = begin \o more \o end
  OBVIOUS
<1> HIDE DEF begin, end
<1> DEFINE head == begin \o more
<1>6. /\ head \in Seq(L) /\ Len(head) = 1 + Len(more)
      /\ \A k \in 1 .. 1 + Len(more) :
           head[k] = IF k <= 1 THEN begin[k] ELSE more[k - 1]
  <2>1. begin \in Seq(L) /\ more \in Seq(L)
    BY <1>1
  <2>2. /\ begin \o more \in Seq(L) /\ Len(begin \o more) = Len(begin) + Len(more)
        /\ \A k \in 1 .. Len(begin) + Len(more) :
             (begin \o more)[k] = IF k <= Len(begin) THEN begin[k] ELSE more[k - Len(begin)]
    BY ONLY <2>1, ConcatProperties
  <2>3. QED
    BY ONLY <2>2, <1>1
<1>7. all = head \o end
  BY <1>5
<1> HIDE DEF head
<1>8. /\ Len(all) = Len(head) + n
      /\ \A k \in 1 .. Len(head) + n :
           all[k] = IF k <= Len(head) THEN head[k] ELSE end[k - Len(head)]
  <2>1. head \in Seq(L) /\ end \in Seq(L)
    BY <1>3, <1>6
  <2>2. /\ Len(head \o end) = Len(head) + Len(end)
        /\ \A k \in 1 .. Len(head) + Len(end) :
             (head \o end)[k] = IF k <= Len(head) THEN head[k] ELSE end[k - Len(head)]
    BY ONLY <2>1, ConcatProperties
  <2>3. QED
    BY ONLY <2>2, <1>3, <1>7
<1>9. Len(all) = 1 + Len(more) + n
  BY <1>4, <1>6, <1>8
<1>10. all[1] = first
  <2>1. 1 \in 1 .. Len(head) + n /\ 1 <= Len(head) /\ 1 \in 1 .. 1 + Len(more)
    BY <1>4, <1>6
  <2>2. QED
    BY <2>1, <1>1, <1>6, <1>8
<1>11. ASSUME NEW k \in 1 .. Len(more)  PROVE all[1 + k] = more[k]
  <2>1. /\ 1 + k \in 1 .. Len(head) + n /\ 1 + k <= Len(head)
        /\ 1 + k \in 1 .. 1 + Len(more) /\ ~ (1 + k <= 1) /\ (1 + k) - 1 = k
    BY <1>4, <1>6
  <2>2. QED
    BY <2>1, <1>6, <1>8
<1>12. ASSUME NEW k \in 2 + Len(more) .. Len(all)  PROVE all[k] = last
  <2>1. /\ k \in 1 .. Len(head) + n /\ ~ (k <= Len(head))
        /\ k - Len(head) \in 1 .. n
    BY <1>4, <1>6, <1>8
  <2>2. QED
    BY <2>1, <1>2, <1>8
<1>13. QED
  BY <1>4, <1>9, <1>10, <1>11, <1>12

(* The entries that main makes of an ini file: the system image, the logo   *)
(* if there is one, and as many of the program as the file says.            *)
Logos(f) == IF f.logo = NoName THEN 0 ELSE 1

LEMMA FilesAre ==
  ASSUME NEW f \in Inis
  PROVE  /\ Logos(f) \in 0 .. 1 /\ Copies(f) \in Nat
         /\ Len(Files(f)) = 1 + Logos(f) + Copies(f)
         /\ Files(f)[1] = [flag |-> "system", len |-> BlockLen]
         /\ Logos(f) = 1 => Files(f)[2] = [flag |-> "logo", len |-> f.logo]
         /\ \A k \in 2 + Logos(f) .. Len(Files(f)) : Files(f)[k] = [flag |-> "exec", len |-> f.exec]
<1> DEFINE system == [flag |-> "system", len |-> BlockLen]
           logo   == [flag |-> "logo", len |-> f.logo]
           exec   == [flag |-> "exec", len |-> f.exec]
           logos  == IF f.logo = NoName THEN <<>> ELSE <<logo>>
           n      == Copies(f)
           L      == {system, logo, exec}
<1>1. Logos(f) \in 0 .. 1 /\ n \in Nat
  BY NandAssumption DEF Logos, Copies
<1>2. Files(f) = <<system>> \o logos \o [k \in 1 .. n |-> exec]
  BY DEF Files
<1>3. system \in L /\ logo \in L /\ exec \in L
  OBVIOUS
<1> HIDE DEF system, logo, exec, L, n
<1>4. logos \in Seq(L) /\ Len(logos) = Logos(f) /\ (Logos(f) = 1 => logos[1] = logo)
  BY <1>3 DEF Logos
<1> HIDE DEF logos
<1>5. /\ Len(logos) \in Nat /\ Len(Files(f)) = 1 + Len(logos) + n
      /\ Files(f)[1] = system
      /\ \A k \in 1 .. Len(logos) : Files(f)[1 + k] = logos[k]
      /\ \A k \in 2 + Len(logos) .. Len(Files(f)) : Files(f)[k] = exec
  BY <1>1, <1>2, <1>3, <1>4, EntryByEntry
<1>6. Logos(f) = 1 => Files(f)[2] = logo
  <2>1. Logos(f) = 1 => 1 \in 1 .. Len(logos) /\ 1 + 1 = 2
    BY <1>4
  <2>2. QED
    BY <2>1, <1>4, <1>5
<1>7. QED
  BY <1>1, <1>4, <1>5, <1>6 DEF system, logo, exec, n

(* The end of the k-th entry, from the ends of those before it. *)
EndOf(files, end, k) ==
  IF k = 1 THEN 3
  ELSE IF files[k].len = Missing THEN UINT16Values - 1
  ELSE EndBlock(UINT16(end[k - 1] + 1), files[k].len)

(* The table can be filled: each entry looks only at the one before it. *)
LEMMA EndsAre ==
  ASSUME NEW files, Len(files) \in Nat
  PROVE  EndBlocks(files) = [k \in 1 .. Len(files) |-> EndOf(files, EndBlocks(files), k)]
<1> DEFINE Filled(n, end) == end = [k \in 1 .. n |-> EndOf(files, end, k)]
           S == {n \in Nat : ~ \E end : Filled(n, end)}
<1>1. S = {}
  <2>1. SUFFICES ASSUME S # {}  PROVE FALSE
    OBVIOUS
  <2>2. PICK n \in S : \A m \in S : n <= m
    BY <2>1, Least
  <2>3. n \in Nat /\ ~ \E end : Filled(n, end)
    OBVIOUS
  <2>4. CASE n = 0
    <3> DEFINE none == [k \in 1 .. 0 |-> 0]
    <3>1. none = [k \in 1 .. 0 |-> EndOf(files, none, k)]
      OBVIOUS
    <3>2. QED
      BY <2>3, <2>4, <3>1
  <2>5. CASE n # 0
    <3>1. n - 1 \in Nat /\ ~ (n <= n - 1)
      BY <2>3, <2>5
    <3>2. PICK end : Filled(n - 1, end)
      BY <3>1, <2>2
    <3> DEFINE more == [k \in 1 .. n |-> EndOf(files, end, k)]
    <3>3. ASSUME NEW k \in 1 .. n  PROVE EndOf(files, end, k) = EndOf(files, more, k)
      <4>1. CASE k = 1
        BY <4>1 DEF EndOf
      <4>2. CASE k # 1
        <5>1. k - 1 \in 1 .. n - 1 /\ k - 1 \in 1 .. n
          BY <2>3, <4>2
        <5>2. end[k - 1] = EndOf(files, end, k - 1)
          BY <3>2, <5>1
        <5>3. more[k - 1] = EndOf(files, end, k - 1)
          BY <5>1
        <5>4. QED
          BY <4>2, <5>2, <5>3 DEF EndOf
      <4>3. QED
        BY <4>1, <4>2
    <3>4. more = [k \in 1 .. n |-> EndOf(files, more, k)]
      BY <3>3
    <3>5. QED
      BY <2>3, <3>4
  <2>6. QED
    BY <2>4, <2>5
<1>2. \E end : Filled(Len(files), end)
  BY <1>1
<1>3. EndBlocks(files) = CHOOSE end : Filled(Len(files), end)
  BY DEF EndBlocks, EndOf
<1>4. Filled(Len(files), EndBlocks(files))
  BY <1>2, <1>3
<1>5. QED
  BY <1>4

(* What TypeOK says of the table: which images there are, with lengths that *)
(* are lengths or Missing.                                                  *)
LEMMA EntriesType ==
  ASSUME NEW f \in Inis
  PROVE  /\ Len(Files(f)) \in Nat /\ 1 <= Len(Files(f))
         /\ Files(f)[1].flag = "system" /\ Files(f)[1].len = BlockLen
         /\ \A k \in 2 .. Len(Files(f)) :
              Files(f)[k].flag \in {"logo", "exec"} /\ Files(f)[k].len \in Nat \cup {Missing}
<1> DEFINE file == Files(f)
           N    == Len(Files(f))
           l    == Logos(f)
           n    == Copies(f)
<1>1. /\ l \in 0 .. 1 /\ n \in Nat /\ N = 1 + l + n
      /\ file[1] = [flag |-> "system", len |-> BlockLen]
      /\ l = 1 => file[2] = [flag |-> "logo", len |-> f.logo]
      /\ \A k \in 2 + l .. N : file[k] = [flag |-> "exec", len |-> f.exec]
  BY ONLY f \in Inis, FilesAre
<1>2. (l = 1 => f.logo # NoName) /\ (n # 0 => f.exec # NoName)
  BY DEF Logos, Copies
<1>3. f.logo \in Nat \cup {NoName, Missing} /\ f.exec \in Nat \cup {NoName, Missing}
  BY NandAssumption
<1> HIDE DEF file, N, l, n
<1>4. N \in Nat /\ 1 <= N
  BY ONLY <1>1
<1>5. file[1].flag = "system" /\ file[1].len = BlockLen
  BY ONLY <1>1
<1>6. ASSUME NEW k \in 2 .. N
      PROVE  file[k].flag \in {"logo", "exec"} /\ file[k].len \in Nat \cup {Missing}
  <2>1. CASE k < 2 + l
    <3>1. l = 1 /\ k = 2
      BY ONLY <2>1, <1>1, k \in 2 .. N
    <3>2. QED
      BY ONLY <3>1, <1>1, <1>2, <1>3
  <2>2. CASE ~(k < 2 + l)
    <3>1. k \in 2 + l .. N /\ n # 0
      BY ONLY <2>2, <1>1, k \in 2 .. N
    <3>2. QED
      BY ONLY <3>1, <1>1, <1>2, <1>3
  <2>3. QED
    BY <2>1, <2>2
<1>7. QED
  BY <1>4, <1>5, <1>6 DEF file, N

LEMMA UINT16Type ==
  ASSUME NEW n \in Int
  PROVE  UINT16(n) \in Nat /\ UINT16(n) < UINT16Values
<1>1. UINT16Values \in Nat \ {0}
  BY SMT DEF UINT16Values
<1>2. QED
  BY <1>1 DEF UINT16

(* Every entry ends at a number. *)
LEMMA EndsType ==
  ASSUME NEW f \in Inis
  PROVE  \A k \in 1 .. Len(Files(f)) : EndBlocks(Files(f))[k] \in Nat
<1> DEFINE file == Files(f)
           N    == Len(file)
           end  == EndBlocks(file)
           S    == {k \in 1 .. N : end[k] \notin Nat}
<1>1. /\ N \in Nat /\ 1 <= N /\ file[1].len = BlockLen
      /\ \A k \in 2 .. N : file[k].len \in Nat \cup {Missing}
  BY ONLY f \in Inis, EntriesType
<1>2. end = [k \in 1 .. N |-> EndOf(file, end, k)]
  <2>1. N \in Nat
    BY ONLY <1>1
  <2>2. QED
    BY <2>1, EndsAre
<1> HIDE DEF file, end, N
<1>3. N \in Nat /\ BlockLen \in Nat \ {0}
  BY <1>1, NandAssumption
<1>4. \A k \in 1 .. N : file[k].len \in Int
  <2>1. ASSUME NEW k \in 1 .. N  PROVE file[k].len \in Int
    <3>1. k = 1 \/ k \in 2 .. N
      BY <1>3
    <3>2. QED
      BY <3>1, <1>1, <1>3 DEF Missing
  <2>2. QED
    BY <2>1
<1>5. S = {}
  <2>1. SUFFICES ASSUME S # {}  PROVE FALSE
    OBVIOUS
  <2>2. S \in SUBSET Nat
    BY <1>3
  <2>3. \E k \in S : \A m \in S : k <= m
    <3> HIDE DEF S
    <3>1. QED
      BY ONLY <2>1, <2>2, Least
  <2>4. PICK k \in S : \A m \in S : k <= m
    BY <2>3
  <2>5. k \in 1 .. N /\ end[k] \notin Nat /\ end[k] = EndOf(file, end, k)
    BY <1>2
  <2>6. k # 1
    BY <2>5 DEF EndOf
  <2>7. k - 1 \in 1 .. N /\ ~ (k <= k - 1)
    BY <1>3, <2>5, <2>6
  <2>8. end[k - 1] \in Nat
    BY <2>4, <2>7
  <2>9. file[k].len \div BlockLen \in Int
    BY <1>3, <1>4, <2>5
  <2>10. end[k - 1] + 1 \in Int
    BY <2>8
  <2>11. UINT16(end[k - 1] + 1) \in Nat
    BY <2>10, UINT16Type
  <2>12. UINT16(end[k - 1] + 1) + file[k].len \div BlockLen \in Int
    BY <2>9, <2>11
  <2>13. UINT16(UINT16(end[k - 1] + 1) + file[k].len \div BlockLen) \in Nat
    BY <2>12, UINT16Type
  <2>14. EndBlock(UINT16(end[k - 1] + 1), file[k].len) \in Nat
    BY <2>13 DEF EndBlock
  <2>15. UINT16Values - 1 \in Nat
    BY SMT DEF UINT16Values
  <2>16. QED
    BY <2>5, <2>6, <2>14, <2>15 DEF EndOf
<1>6. QED
  BY <1>5 DEF N, end, file

(* Every image starts at a number in the table, which may be negative, and  *)
(* at an address.                                                           *)
LEMMA StartType ==
  ASSUME ini \in Inis, NEW k \in 2 .. Len(Entries)
  PROVE  Start(k) \in Int
<1>1. Len(Files(ini)) \in Nat /\ 1 <= Len(Files(ini))
  BY ONLY ini \in Inis, EntriesType
<1>2. k - 1 \in 1 .. Len(Files(ini))
  BY <1>1 DEF Entries
<1>3. EndBlocks(Files(ini))[k - 1] \in Nat
  BY <1>2, EndsType
<1>4. EndBlocks(Entries)[k - 1] + 1 \in Int
  BY <1>3 DEF Entries
<1>5. UINT16(EndBlocks(Entries)[k - 1] + 1) \in Nat
  BY <1>4, UINT16Type
<1>6. QED
  BY <1>5 DEF Start, uIBRAreaSize

LEMMA OffsetType ==
  ASSUME ini \in Inis, NEW k \in 2 .. Len(Entries)
  PROVE  Offset(k) \in Nat
<1>1. Start(k) \in Int
  BY StartType
<1>2. AddressBlocks \in Nat \ {0}
  BY NandAssumption
<1>3. QED
  BY <1>1, <1>2 DEF Offset
-----------------------------------------------------------------------------
(* The types                                                                *)

(* No run, no command. *)
TypeInv == TypeOK /\ (pc # "off" => run >= 1)

(* Every piece of an image that nandwrite puts somewhere is one of it. *)
LEMMA WrittenType ==
  ASSUME NEW Bs \in SUBSET Int, NEW Contents, NEW flash \in [Bs -> Contents],
         NEW bad, NEW start \in Int, NEW image, NEW most \in Int,
         NEW done \in Int, done <= most, NEW torn \in BOOLEAN, Junk \in Contents,
         \A n \in Nat : n < most => <<image, n, run>> \in Contents
  PROVE  Written(flash, bad, start, image, done, torn) \in [Bs -> Contents]
<1>1. ASSUME NEW b \in Bs
      PROVE  Written(flash, bad, start, image, done, torn)[b] \in Contents
  <2>1. Below(b, start, bad) \in Nat
    <3>1. IsFiniteSet(start .. b - 1)
      BY FS_Interval
    <3>2. IsFiniteSet((start .. b - 1) \ bad)
      BY <3>1, FS_Subset
    <3>3. QED
      BY <3>2, FS_CardinalityType DEF Below
  <2>2. b \in Place(flash, bad, start, done) => Below(b, start, bad) < done
    BY DEF Place
  <2>3. b \in Place(flash, bad, start, done) =>
          <<image, Below(b, start, bad), run>> \in Contents
    BY <2>1, <2>2
  <2>4. QED
    BY <2>3 DEF Written
<1>2. QED
  BY <1>1 DEF Written

(* What a block can hold. *)
Contents ==
  {Erased, Junk} \cup {"system", "logo", "exec"} \X (0 .. AreaBlocks) \X (1 .. MaxRuns)

(* flash_erase leaves blocks that hold what they may. *)
LEMMA ErasedType ==
  ASSUME NEW Bs, NEW flash \in [Bs -> Contents], NEW bad, NEW stop
  PROVE  ErasedTo(flash, bad, stop) \in [Bs -> Contents]
BY DEF ErasedTo, Contents

(* Loop variable, table and flash keep their types: the loops end where     *)
(* they should, and there is no piece on the flash that no image has.       *)
THEOREM TypeCorrect == Spec => []TypeOK
<1>a. TypeOK <=>
        /\ pc \in {"off", "erasesys", "sys", "erasearea", "entry", "done"}
        /\ ini \in Inis
        /\ i \in 0 .. MAX_FWInfo
        /\ pc = "sys" => i < uIBRAreaSize
        /\ pc = "entry" => i <= Len(Entries)
        /\ pc \notin {"off", "done"} => TableHolds
        /\ sys \in [SysBlocks -> Contents] /\ area \in [Blocks -> Contents]
        /\ badSys \subseteq SysBlocks /\ badArea \subseteq Blocks
        /\ run \in 0 .. MaxRuns
        /\ failed \in BOOLEAN /\ faults \in 0 .. MaxFaults
  BY DEF TypeOK, Contents
<1>b. /\ SysBlocks \subseteq Int /\ Blocks \subseteq Int
      /\ AreaBlocks \in Nat /\ MaxRuns \in Nat /\ MaxFaults \in Nat
      /\ uIBRAreaSize = 4 /\ MAX_FWInfo = 16
  BY NandAssumption DEF SysBlocks, Blocks, uIBRAreaSize, MAX_FWInfo
<1>1. Init => TypeInv
  <2> SUFFICES ASSUME Init  PROVE TypeInv
    OBVIOUS
  <2>1. sys \in [SysBlocks -> Contents] /\ area \in [Blocks -> Contents]
    BY DEF Init, Contents
  <2>2. badSys \subseteq SysBlocks /\ badArea \subseteq Blocks
    BY DEF Init
  <2>3. /\ pc = "off" /\ ini \in Inis /\ i = 0 /\ run = 0
        /\ failed = FALSE /\ faults = 0
    BY DEF Init
  <2>4. i \in 0 .. MAX_FWInfo /\ run \in 0 .. MaxRuns /\ faults \in 0 .. MaxFaults
    BY <2>3, <1>b
  <2>5. QED
    BY <2>1, <2>2, <2>3, <2>4, <1>a DEF TypeInv
<1>2. TypeInv /\ [Next]_vars => TypeInv'
  <2> SUFFICES ASSUME TypeInv, [Next]_vars  PROVE TypeInv'
    OBVIOUS
  <2>a. /\ pc \in {"off", "erasesys", "sys", "erasearea", "entry", "done"}
        /\ ini \in Inis
        /\ i \in 0 .. MAX_FWInfo
        /\ pc = "sys" => i < uIBRAreaSize
        /\ pc = "entry" => i <= Len(Entries)
        /\ pc \notin {"off", "done"} => TableHolds
        /\ sys \in [SysBlocks -> Contents] /\ area \in [Blocks -> Contents]
        /\ badSys \subseteq SysBlocks /\ badArea \subseteq Blocks
        /\ run \in 0 .. MaxRuns
        /\ failed \in BOOLEAN /\ faults \in 0 .. MaxFaults
        /\ pc # "off" => run >= 1
    BY <1>a DEF TypeInv
  <2>b. Len(Entries) \in Nat /\ 1 <= Len(Entries)
    BY <2>a, EntriesType DEF Entries
  <2>h. TableHolds => \A n \in Nat : n <= Len(Entries) => n \in 0 .. MAX_FWInfo
    BY <1>b, <2>b DEF TableHolds
  <2>u. ini' = ini => Entries' = Entries /\ TableHolds' = TableHolds
    BY DEF TableHolds, Entries
  <2>c. ASSUME /\ pc' \in {"off", "erasesys", "sys", "erasearea", "entry", "done"}
               /\ ini' \in Inis
               /\ i' \in 0 .. MAX_FWInfo
               /\ pc' = "sys" => i' < uIBRAreaSize
               /\ pc' = "entry" => i' <= Len(Entries')
               /\ pc' \notin {"off", "done"} => TableHolds'
               /\ sys' \in [SysBlocks -> Contents] /\ area' \in [Blocks -> Contents]
               /\ badSys' \subseteq SysBlocks /\ badArea' \subseteq Blocks
               /\ run' \in 0 .. MaxRuns
               /\ failed' \in BOOLEAN /\ faults' \in 0 .. MaxFaults
               /\ pc' # "off" => run' >= 1
        PROVE  TypeInv'
    BY <2>c DEF TypeInv, TypeOK, Contents
  <2>t. ASSUME NEW l \in {"sys", "erasearea", "entry"}, NEW n \in 0 .. MAX_FWInfo,
               NEW all \in BOOLEAN, Then(all, l, n)
        PROVE  /\ pc' \in {l, "off"} /\ i' \in 0 .. MAX_FWInfo /\ (pc' # "off" => i' = n)
               /\ failed' \in BOOLEAN /\ faults' \in 0 .. MaxFaults
    <3>1. faults' \in 0 .. MaxFaults
      BY <2>t, <2>a, <1>b DEF Then
    <3>2. QED
      BY <2>t, <2>a, <3>1 DEF Then
  <2>e. ASSUME NEW n \in 0 .. Len(Entries), EraseThen(n), run >= 1, TableHolds,
               UNCHANGED <<ini, sys, chips, run>>
        PROVE  TypeInv'
    <3>1. PICK stop \in 0 .. AreaBlocks :
            area' = ErasedTo(area, badArea, stop) /\ Then(stop = AreaBlocks, "entry", n)
      BY <2>e DEF EraseThen
    <3>2. area' \in [Blocks -> Contents]
      BY <3>1, <2>a, ErasedType
    <3>3. n \in 0 .. MAX_FWInfo
      BY <2>b, <2>h, <2>e
    <3>4. /\ pc' \in {"entry", "off"} /\ i' \in 0 .. MAX_FWInfo /\ (pc' # "off" => i' = n)
          /\ failed' \in BOOLEAN /\ faults' \in 0 .. MaxFaults
      BY <3>1, <3>3, <2>t
    <3>5. Entries' = Entries /\ TableHolds'
      BY <2>e, <2>u
    <3>6. n <= Len(Entries)
      BY <2>b
    <3>7. QED
      BY <3>2, <3>4, <3>5, <3>6, <2>a, <2>c, <2>e DEF chips
  <2>1. CASE Run
    <3>1. /\ pc' = "erasesys" /\ i' = 0 /\ failed' = FALSE /\ ini' \in Inis /\ TableHolds'
          /\ run' \in 0 .. MaxRuns /\ run' >= 1
          /\ UNCHANGED <<sys, area, badSys, badArea, faults>>
      BY <2>1, <2>a, <1>b DEF Run, chips
    <3>2. i' \in 0 .. MAX_FWInfo
      BY <3>1, <1>b
    <3>3. QED
      BY <3>1, <3>2, <2>a, <2>c
  <2>10. CASE Overrun
    <3>1. /\ pc' \in {"off", "done"} /\ i' = 0 /\ failed' = FALSE /\ ini' \in Inis
          /\ run' \in 0 .. MaxRuns /\ run' >= 1
          /\ UNCHANGED <<badSys, badArea, faults>>
      BY <2>10, <2>a, <1>b DEF Overrun, chips
    <3>2. i' \in 0 .. MAX_FWInfo
      BY <3>1, <1>b
    <3>3. Junk \in Contents
      BY DEF Contents
    <3>4. sys' \in [SysBlocks -> Contents] /\ area' \in [Blocks -> Contents]
      BY <2>10, <3>3, <2>a DEF Overrun
    <3>5. QED
      BY <3>1, <3>2, <3>4, <2>a, <2>c
  <2>2. CASE EraseSystem
    <3>1. PICK stop \in 0 .. uIBRAreaSize :
            sys' = ErasedTo(sys, badSys, stop) /\ Then(stop = uIBRAreaSize, "sys", 0)
      BY <2>2 DEF EraseSystem
    <3>2. sys' \in [SysBlocks -> Contents]
      BY <3>1, <2>a, ErasedType
    <3>3. 0 \in 0 .. MAX_FWInfo
      BY <1>b
    <3>4. /\ pc' \in {"sys", "off"} /\ i' \in 0 .. MAX_FWInfo /\ (pc' # "off" => i' = 0)
          /\ failed' \in BOOLEAN /\ faults' \in 0 .. MaxFaults
      BY <3>1, <3>3, <2>t
    <3>5. pc = "erasesys" /\ UNCHANGED <<ini, area, badSys, badArea, run>> /\ TableHolds'
      BY <2>2, <2>a, <2>u DEF EraseSystem, At, chips
    <3>6. QED
      BY <3>2, <3>4, <3>5, <2>a, <2>c, <1>b
  <2>3. CASE BurnSystem
    <3>1. PICK done \in 0 .. 1, torn \in BOOLEAN :
            /\ sys' = Written(sys, badSys, i, "system", done, torn /\ done = 0)
            /\ IF MoreCopies(i + 1) THEN Then(done = 1, "sys", i + 1)
                                    ELSE Then(done = 1, "erasearea", 0)
      BY <2>3 DEF BurnSystem
    <3>2. pc = "sys" /\ UNCHANGED <<ini, area, badSys, badArea, run>> /\ TableHolds'
      BY <2>3, <2>a, <2>u DEF BurnSystem, At, chips
    <3>3. sys' \in [SysBlocks -> Contents]
      <4>1. Junk \in Contents /\ \A n \in Nat : n < 1 => <<"system", n, run>> \in Contents
        <5>1. Junk \in Contents
          BY DEF Contents
        <5>2. 0 \in 0 .. AreaBlocks /\ run \in 1 .. MaxRuns
          BY <3>2, <2>a, <1>b
        <5>3. <<"system", 0, run>> \in Contents
          BY <5>2 DEF Contents
        <5>4. \A n \in Nat : n < 1 => n = 0
          OBVIOUS
        <5>5. QED
          BY <5>1, <5>3, <5>4
      <4>2. SysBlocks \in SUBSET Int /\ i \in Int /\ done \in Int /\ done <= 1 /\ 1 \in Int
            /\ (torn /\ done = 0) \in BOOLEAN
        BY <1>b, <2>a
      <4>3. Written(sys, badSys, i, "system", done, torn /\ done = 0) \in [SysBlocks -> Contents]
        BY <4>1, <4>2, <2>a, WrittenType
      <4>4. QED
        BY <4>3, <3>1
    <3>4. CASE MoreCopies(i + 1)
      <4>1. i + 1 \in 0 .. MAX_FWInfo /\ i + 1 < uIBRAreaSize
        BY <3>4, <3>2, <2>a, <1>b DEF MoreCopies
      <4>2. /\ pc' \in {"sys", "off"} /\ i' \in 0 .. MAX_FWInfo /\ (pc' # "off" => i' = i + 1)
            /\ failed' \in BOOLEAN /\ faults' \in 0 .. MaxFaults
        BY <3>1, <3>4, <4>1, <2>t
      <4>3. QED
        BY <4>1, <4>2, <3>2, <3>3, <2>a, <2>c
    <3>5. CASE ~MoreCopies(i + 1)
      <4>1. 0 \in 0 .. MAX_FWInfo
        BY <1>b
      <4>2. /\ pc' \in {"erasearea", "off"} /\ i' \in 0 .. MAX_FWInfo
            /\ failed' \in BOOLEAN /\ faults' \in 0 .. MaxFaults
        BY <3>1, <3>5, <4>1, <2>t
      <4>3. QED
        BY <4>2, <3>2, <3>3, <2>a, <2>c
    <3>6. QED
      BY <3>4, <3>5
  <2>4. CASE EraseArea
    <3>1. EraseThen(0) /\ run >= 1 /\ TableHolds /\ UNCHANGED <<ini, sys, chips, run>>
      BY <2>4, <2>a DEF EraseArea, At
    <3>2. 0 \in 0 .. Len(Entries)
      BY <2>b
    <3>3. QED
      BY <3>1, <3>2, <2>e
  <2>5. CASE RunLastCommand
    <3>1. /\ i + 1 \in 0 .. Len(Entries) /\ run >= 1 /\ pc = "entry" /\ TableHolds
          /\ UNCHANGED <<ini, sys, chips, run>>
      BY <2>5, <2>a, <2>b DEF RunLastCommand, At
    <3>2. CASE i = 0
      <4>1. EraseThen(i + 1)
        BY <2>5, <3>2 DEF RunLastCommand
      <4>2. QED
        BY <4>1, <3>1, <2>e
    <3>3. CASE i # 0
      <4>1. Then(TRUE, "entry", i + 1) /\ area' = area
        BY <2>5, <3>3 DEF RunLastCommand
      <4>2. i + 1 \in 0 .. MAX_FWInfo /\ i + 1 <= Len(Entries)
        BY <3>1, <2>b, <2>h
      <4>3. /\ pc' \in {"entry", "off"} /\ i' \in 0 .. MAX_FWInfo /\ (pc' # "off" => i' = i + 1)
            /\ failed' \in BOOLEAN /\ faults' \in 0 .. MaxFaults
        BY <4>1, <4>2, <2>t
      <4>4. Entries' = Entries /\ TableHolds'
        BY <3>1, <2>u
      <4>5. QED
        BY <4>1, <4>2, <4>3, <4>4, <3>1, <2>a, <2>c DEF chips
    <3>4. QED
      BY <3>2, <3>3
  <2>6. CASE BurnImage
    <3> DEFINE image == Entries[i + 1].flag
               start == Offset(i + 1)
               pieces == Pieces(Entries[i + 1].len)
               n == IF Fits(area, start, pieces) THEN pieces ELSE 0
    <3>1. PICK done \in 0 .. n, torn \in BOOLEAN :
            /\ area' = Written(area, badArea, start, image, done, torn /\ done < n)
            /\ Then(done = n, "entry", i + 1)
      BY <2>6 DEF BurnImage
    <3>2. /\ pc = "entry" /\ i \in 1 .. Len(Entries) - 1 /\ Entries[i + 1].len # Missing
          /\ UNCHANGED <<ini, sys, badSys, badArea, run>> /\ TableHolds
      BY <2>6, <2>a DEF BurnImage, At, chips
    <3>3. i + 1 \in 2 .. Len(Entries)
      BY <3>2, <2>b
    <3>4. image \in {"logo", "exec"} /\ Entries[i + 1].len \in Nat
      BY <3>2, <3>3, <2>a, EntriesType DEF Entries
    <3>5. start \in Nat
      BY <3>3, <2>a, OffsetType
    <3>6. pieces \in Int
      BY <3>4, NandAssumption DEF Pieces
    <3>7. n \in Int /\ n <= AreaBlocks
      <4>1. Cardinality(DOMAIN area) = AreaBlocks
        <5>1. DOMAIN area = 0 .. AreaBlocks - 1
          BY <2>a DEF Blocks
        <5>2. 0 \in Int /\ AreaBlocks - 1 \in Int
          BY <1>b
        <5>3. Cardinality(0 .. AreaBlocks - 1)
                = IF 0 > AreaBlocks - 1 THEN 0 ELSE AreaBlocks - 1 - 0 + 1
          BY ONLY <5>2, FS_Interval
        <5>4. QED
          BY <5>1, <5>3, <1>b
      <4>2. CASE Fits(area, start, pieces)
        <5>1. start + pieces <= AreaBlocks
          BY <4>1, <4>2 DEF Fits
        <5> HIDE DEF start, pieces
        <5>2. QED
          BY <4>2, <5>1, <3>5, <3>6, <1>b
      <4>3. CASE ~Fits(area, start, pieces)
        BY <4>3, <1>b
      <4>4. QED
        BY <4>2, <4>3
    <3> HIDE DEF image, start, pieces, n
    <3>8. area' \in [Blocks -> Contents]
      <4>1. Junk \in Contents /\ \A m \in Nat : m < AreaBlocks => <<image, m, run>> \in Contents
        <5>1. Junk \in Contents
          BY DEF Contents
        <5>2. run \in 1 .. MaxRuns
          BY <3>2, <2>a, <1>b
        <5>3. \A m \in 0 .. AreaBlocks : <<image, m, run>> \in Contents
          BY <5>2, <3>4 DEF Contents
        <5>4. \A m \in Nat : m < AreaBlocks => m \in 0 .. AreaBlocks
          BY <1>b
        <5>5. QED
          BY <5>1, <5>3, <5>4
      <4>2. /\ Blocks \in SUBSET Int /\ AreaBlocks \in Int
            /\ done \in Int /\ done <= AreaBlocks /\ (torn /\ done < n) \in BOOLEAN
            /\ start \in Int
        BY <1>b, <3>1, <3>5, <3>7
      <4>3. Written(area, badArea, start, image, done, torn /\ done < n) \in [Blocks -> Contents]
        BY <4>1, <4>2, <2>a, WrittenType
      <4>4. QED
        BY <4>3, <3>1
    <3>9. i + 1 \in 0 .. MAX_FWInfo /\ i + 1 <= Len(Entries)
      BY <3>2, <3>3, <2>b, <2>h
    <3>10. /\ pc' \in {"entry", "off"} /\ i' \in 0 .. MAX_FWInfo /\ (pc' # "off" => i' = i + 1)
           /\ failed' \in BOOLEAN /\ faults' \in 0 .. MaxFaults
      BY <3>1, <3>9, <2>t
    <3>11. Entries' = Entries /\ TableHolds'
      BY <3>2, <2>u
    <3>12. QED
      BY <3>2, <3>8, <3>9, <3>10, <3>11, <2>a, <2>c
  <2>7. CASE Done
    <3>1. pc' = "done" /\ pc = "entry"
          /\ UNCHANGED <<ini, i, sys, area, badSys, badArea, run, failed, faults>>
      BY <2>7 DEF Done, At, chips
    <3>2. QED
      BY <3>1, <2>a, <2>c
  <2>8. CASE UNCHANGED vars
    <3>1. UNCHANGED <<pc, ini, i, sys, area, badSys, badArea, run, failed, faults>>
      BY <2>8 DEF vars, chips
    <3>2. Entries' = Entries /\ TableHolds' = TableHolds
      BY <3>1, <2>u
    <3>3. QED
      BY <3>1, <3>2, <2>a, <2>c
  <2>9. QED
    BY <2>1, <2>2, <2>3, <2>4, <2>5, <2>6, <2>7, <2>8, <2>10 DEF Next
<1>3. TypeInv => TypeOK
  BY DEF TypeInv
<1>4. QED
  BY <1>1, <1>2, <1>3, PTL DEF Spec
-----------------------------------------------------------------------------
(* The images                                                               *)

(* The last of the blocks that the table sets aside for the k-th entry. *)
Last(k) == Offset(k) + Entries[k].len \div BlockLen

(* The good blocks that the k-th image is put into. *)
Put(k) ==
  {b \in Blocks \ badArea :
     Offset(k) <= b /\ Below(b, Offset(k), badArea) < Pieces(Entries[k].len)}

Images == 2 .. Len(Entries)

(* The images that have a bad block among those set aside for them, and     *)
(* those that an earlier one, pushed back by bad blocks, reaches into.      *)
Hit    == {k \in Images : \E b \in badArea : Offset(k) <= b /\ b <= Last(k)}
Pushed == {k \in Images : \E j \in 2 .. k - 1 : \E b \in Put(j) : Offset(k) <= b}

(* What a block that the k-th image is put into holds then. *)
Piece(k, b) == <<Entries[k].flag, Below(b, Offset(k), badArea), run>>

(* The other images have their blocks to themselves: what is burnt of them  *)
(* is there, and for the rest there is room, erased.                        *)
ImagesInv ==
  LaidOut /\ TableHolds /\ ~failed =>
    /\ pc \in {"entry", "done"} /\ i # 0 =>
         \A k \in Images \ (Hit \cup Pushed) : \A b \in Put(k) :
           area[b] = IF k <= i THEN Piece(k, b) ELSE Erased
    /\ pc = "done" => i = Len(Entries)

(* A number that the table can hold is held as it is. *)
LEMMA UINT16Is ==
  ASSUME NEW n \in Nat
  PROVE  UINT16(n) = n <=> n < UINT16Values
<1>1. UINT16Values \in Nat \ {0}
  BY SMT DEF UINT16Values
<1>2. UINT16(n) = n % UINT16Values
  BY DEF UINT16
<1>3. n % UINT16Values \in 0 .. UINT16Values - 1
  BY <1>1
<1>4. n < UINT16Values => n % UINT16Values = n
  BY <1>1
<1>5. QED
  BY <1>1, <1>2, <1>3, <1>4

(* The table sets aside at least the blocks that an image needs. *)
LEMMA PiecesFit ==
  ASSUME NEW len \in Nat
  PROVE  /\ Pieces(len) \in Nat /\ len \div BlockLen \in Nat
         /\ Pieces(len) <= len \div BlockLen + 1
<1>1. BlockLen \in Nat \ {0}
  BY NandAssumption
<1> DEFINE q == len \div BlockLen
           r == len % BlockLen
           p == (len + BlockLen - 1) \div BlockLen
           s == (len + BlockLen - 1) % BlockLen
<1>2. q \in Nat /\ r \in 0 .. BlockLen - 1 /\ len = BlockLen * q + r
  BY <1>1
<1>3. p \in Nat /\ s \in 0 .. BlockLen - 1 /\ len + BlockLen - 1 = BlockLen * p + s
  BY <1>1
<1> HIDE DEF q, r, p, s
<1>4. p <= q + 1
  <2> SUFFICES ASSUME p >= q + 2  PROVE FALSE
    BY <1>2, <1>3
  <2>1. BlockLen * p >= BlockLen * (q + 2)
    BY <1>1, <1>2, <1>3
  <2>2. BlockLen * (q + 2) = BlockLen * q + 2 * BlockLen
    BY <1>1, <1>2
  <2>3. BlockLen * p \in Nat /\ BlockLen * q \in Nat
    BY <1>1, <1>2, <1>3
  <2>4. QED
    BY <1>1, <1>2, <1>3, <2>1, <2>2, <2>3
<1>5. QED
  BY <1>2, <1>3, <1>4 DEF p, q, Pieces

(* What LaidOut says of the table, in numbers that do not wrap. *)
LEMMA TableIs ==
  ASSUME ini \in Inis, LaidOut
  PROVE  /\ Len(Entries) \in Nat /\ Len(Entries) >= 1
         /\ AreaBlocks \in Nat /\ uIBRAreaSize + AreaBlocks < UINT16Values
         /\ \A k \in Images : /\ Entries[k].flag \in {"logo", "exec"}
                              /\ Entries[k].len \in Nat
                              /\ Entries[k].len \div BlockLen \in Nat
                              /\ Pieces(Entries[k].len) \in Nat
                              /\ Pieces(Entries[k].len) <= Entries[k].len \div BlockLen + 1
                              /\ Start(k) \in Int
                              /\ Start(k) + Entries[k].len \div BlockLen < AreaBlocks
<1>1. Len(Entries) \in Nat /\ Len(Entries) >= 1
  BY EntriesType DEF Entries
<1>2. AreaBlocks \in Nat /\ uIBRAreaSize + AreaBlocks < UINT16Values
  <2>1. AreaBlocks \in Nat /\ uIBRAreaSize + AreaBlocks \in Nat
    BY NandAssumption DEF uIBRAreaSize
  <2>2. UINT16(uIBRAreaSize + AreaBlocks) = uIBRAreaSize + AreaBlocks
    BY DEF LaidOut
  <2>3. QED
    BY <2>1, <2>2, UINT16Is
<1>3. ASSUME NEW k \in Images
      PROVE  /\ Entries[k].flag \in {"logo", "exec"}
             /\ Entries[k].len \in Nat
             /\ Entries[k].len \div BlockLen \in Nat
             /\ Pieces(Entries[k].len) \in Nat
             /\ Pieces(Entries[k].len) <= Entries[k].len \div BlockLen + 1
             /\ Start(k) \in Int
             /\ Start(k) + Entries[k].len \div BlockLen < AreaBlocks
  <2>1. k \in 2 .. Len(Entries)
    BY DEF Images
  <2>2. Entries[k].flag \in {"logo", "exec"} /\ Entries[k].len \in Nat \cup {Missing}
    BY <2>1, EntriesType DEF Entries
  <2>3. Entries[k].len \in Nat
    BY <2>1, <2>2 DEF LaidOut
  <2>4. /\ Pieces(Entries[k].len) \in Nat
        /\ Entries[k].len \div BlockLen \in Nat
        /\ Pieces(Entries[k].len) <= Entries[k].len \div BlockLen + 1
    BY <2>3, PiecesFit
  <2>5. Start(k) \in Int
    BY <2>1, StartType
  <2>6. Start(k) + Entries[k].len \div BlockLen < AreaBlocks
    BY <2>1 DEF LaidOut
  <2>7. QED
    BY <2>2, <2>3, <2>4, <2>5, <2>6
<1>4. QED
  BY <1>1, <1>2, <1>3

(* In the table the images lie one behind the other from the first block on. *)
LEMMA StartsFollow ==
  ASSUME ini \in Inis, LaidOut
  PROVE  /\ \A k \in Images : Start(k) \in Nat
         /\ \A k \in Images : k + 1 \in Images => Start(k + 1) = Start(k) + Entries[k].len \div BlockLen + 1
<1> DEFINE N    == Len(Entries)
           end  == EndBlocks(Entries)
           d(k) == Entries[k].len \div BlockLen
           S    == {k \in Images : Start(k) \notin Nat}
<1>1. /\ N \in Nat /\ N >= 1
      /\ AreaBlocks \in Nat /\ 4 + AreaBlocks < UINT16Values
      /\ \A k \in Images : /\ Entries[k].len # Missing
                           /\ d(k) \in Nat
                           /\ Start(k) \in Int
                           /\ Start(k) + d(k) < AreaBlocks
  BY TableIs DEF uIBRAreaSize, Missing
<1>2. end = [k \in 1 .. N |-> EndOf(Entries, end, k)]
  <2>1. N \in Nat
    BY <1>1
  <2>2. QED
    BY <2>1, EndsAre
<1>3. UINT16Values \in Nat /\ UINT16Values > 4
  BY SMT DEF UINT16Values
<1>4. \A k \in Images : k \in 1 .. N /\ k - 1 \in 1 .. N /\ k # 1
  BY <1>1 DEF Images
<1>5. \A k \in Images : Start(k) = UINT16(end[k - 1] + 1) - 4
  BY DEF Start, uIBRAreaSize
<1>6. \A k \in Images : end[k] = UINT16(UINT16(end[k - 1] + 1) + d(k))
  BY <1>1, <1>2, <1>4 DEF EndOf, EndBlock
<1>7. end[1] = 3
  BY <1>1, <1>2 DEF EndOf
<1> HIDE DEF end, d, N
<1>8. 2 \in Images => Start(2) = 0
  <2>1. UINT16(3 + 1) = 4
    BY <1>3, UINT16Is
  <2>2. QED
    BY <2>1, <1>5, <1>7
<1>9. ASSUME NEW k \in Images, Start(k) \in Nat, k + 1 \in Images
      PROVE  Start(k + 1) = Start(k) + d(k) + 1
  <2>1. d(k) \in Nat /\ Start(k) + d(k) < AreaBlocks
    BY <1>1
  <2>2. UINT16(end[k - 1] + 1) = Start(k) + 4
    <3>1. end[k - 1] \in Nat
      BY <1>4, EndsType DEF end, N, Entries
    <3>2. UINT16(end[k - 1] + 1) \in Nat
      BY <3>1, UINT16Type
    <3>3. QED
      BY <3>2, <1>5
  <2>3. UINT16(Start(k) + 4 + d(k)) = Start(k) + 4 + d(k)
    <3>1. Start(k) + 4 + d(k) \in Nat /\ Start(k) + 4 + d(k) < UINT16Values
      BY <1>1, <1>3, <1>9, <2>1
    <3>2. QED
      BY <3>1, UINT16Is
  <2>4. end[k] = Start(k) + 4 + d(k)
    BY <1>6, <2>2, <2>3
  <2>5. UINT16(end[k] + 1) = end[k] + 1
    <3>1. end[k] + 1 \in Nat /\ end[k] + 1 < UINT16Values
      BY <1>1, <1>3, <1>9, <2>1, <2>4
    <3>2. QED
      BY <3>1, UINT16Is
  <2>6. (k + 1) - 1 = k
    BY <1>4, k \in 1 .. N
  <2>7. Start(k + 1) = UINT16(end[k] + 1) - 4
    BY <1>5, <1>9, <2>6
  <2>8. QED
    BY <2>1, <2>4, <2>5, <2>7, <1>9
<1>10. S = {}
  <2>1. SUFFICES ASSUME S # {}  PROVE FALSE
    OBVIOUS
  <2>2. S \in SUBSET Nat
    BY <1>1 DEF Images
  <2>3. \E k \in S : \A m \in S : k <= m
    <3> HIDE DEF S
    <3>1. QED
      BY ONLY <2>1, <2>2, Least
  <2>4. PICK k \in S : \A m \in S : k <= m
    BY <2>3
  <2>5. k \in Images /\ Start(k) \notin Nat /\ k \in 2 .. N
    BY DEF Images, N
  <2>6. k # 2
    BY <1>8, <2>5
  <2>7. k - 1 \in 2 .. N /\ ~ (k <= k - 1) /\ (k - 1) + 1 = k
    BY <1>1, <2>5, <2>6
  <2>8. k - 1 \in Images /\ Start(k - 1) \in Nat
    BY <2>4, <2>7 DEF Images, N
  <2>9. Start(k) = Start(k - 1) + d(k - 1) + 1
    BY <1>9, <2>5, <2>7, <2>8
  <2>10. d(k - 1) \in Nat
    BY <1>1, <2>8
  <2>11. QED
    BY <2>5, <2>8, <2>9, <2>10
<1>11. \A k \in Images : Start(k) \in Nat
  BY <1>10
<1>12. \A k \in Images : k + 1 \in Images => Start(k + 1) = Start(k) + Entries[k].len \div BlockLen + 1
  BY <1>9, <1>11 DEF d
<1>13. QED
  BY <1>11, <1>12

(* A flash that a UINT32 can address is burnt where the table says. *)
LEMMA Addressed ==
  ASSUME ini \in Inis, LaidOut, NEW k \in Images
  PROVE  Offset(k) = Start(k)
<1>1. Start(k) \in Nat
  BY StartsFollow
<1>2. Entries[k].len \div BlockLen \in Nat /\ Start(k) + Entries[k].len \div BlockLen < AreaBlocks
  BY TableIs
<1>3. AreaBlocks \in Nat /\ AddressBlocks \in Nat \ {0} /\ AreaBlocks <= AddressBlocks
  BY NandAssumption DEF LaidOut
<1>4. Start(k) < AddressBlocks
  BY <1>1, <1>2, <1>3
<1>5. QED
  BY <1>1, <1>3, <1>4 DEF Offset

(* The same of where they are burnt. *)
LEMMA LaidOutIs ==
  ASSUME ini \in Inis, LaidOut
  PROVE  /\ Len(Entries) \in Nat /\ Len(Entries) >= 1
         /\ AreaBlocks \in Nat /\ uIBRAreaSize + AreaBlocks < UINT16Values
         /\ \A k \in Images : /\ Entries[k].flag \in {"logo", "exec"}
                              /\ Entries[k].len \in Nat
                              /\ Entries[k].len \div BlockLen \in Nat
                              /\ Pieces(Entries[k].len) \in Nat
                              /\ Pieces(Entries[k].len) <= Entries[k].len \div BlockLen + 1
                              /\ Offset(k) \in Int
                              /\ Last(k) < AreaBlocks
<1>1. \A k \in Images : Offset(k) = Start(k)
  BY Addressed
<1>2. QED
  BY <1>1, TableIs DEF Last

LEMMA OneBehindAnother ==
  ASSUME ini \in Inis, LaidOut
  PROVE  /\ \A k \in Images : Offset(k) \in Nat
         /\ \A k \in Images : k + 1 \in Images => Offset(k + 1) = Last(k) + 1
<1>1. \A k \in Images : Offset(k) = Start(k)
  BY Addressed
<1>2. QED
  BY <1>1, StartsFollow DEF Last

(* Between the ends of two images there is a block at least for each image. *)
LEMMA Behind ==
  ASSUME ini \in Inis, LaidOut, NEW j \in Images, NEW k \in Images, j < k
  PROVE  /\ Offset(j) \in Nat /\ Offset(k) \in Nat
         /\ Last(j) \in Nat /\ Last(j) >= Offset(j) /\ Last(j) + (k - j) <= Offset(k)
<1> DEFINE N == Len(Entries)
           S == {m \in Images : j < m /\ ~(Last(j) + (m - j) <= Offset(m))}
<1>1. /\ N \in Nat
      /\ \A m \in Images : Entries[m].len \div BlockLen \in Nat
  BY LaidOutIs
<1>2. /\ \A m \in Images : Offset(m) \in Nat
      /\ \A m \in Images : m + 1 \in Images => Offset(m + 1) = Last(m) + 1
  BY OneBehindAnother
<1>3. \A m \in Images : Last(m) \in Nat /\ Last(m) >= Offset(m)
  BY <1>1, <1>2 DEF Last
<1>4. Images = 2 .. N
  BY DEF Images
<1> HIDE DEF N
<1>5. S = {}
  <2>1. SUFFICES ASSUME S # {}  PROVE FALSE
    OBVIOUS
  <2>2. S \in SUBSET Nat
    BY <1>1, <1>4
  <2>3. \E m \in S : \A n \in S : m <= n
    <3> HIDE DEF S
    <3>1. QED
      BY ONLY <2>1, <2>2, Least
  <2>4. PICK m \in S : \A n \in S : m <= n
    BY <2>3
  <2>5. m \in 2 .. N /\ j < m /\ ~(Last(j) + (m - j) <= Offset(m)) /\ j \in 2 .. N
    BY <1>4
  <2>6. CASE m = j + 1
    <3>1. Offset(m) = Last(j) + 1 /\ Last(j) \in Nat
      BY <1>2, <1>3, <2>6
    <3>2. QED
      BY <1>1, <2>5, <2>6, <3>1
  <2>7. CASE m # j + 1
    <3>1. m - 1 \in 2 .. N /\ j < m - 1 /\ ~(m <= m - 1) /\ (m - 1) + 1 = m
      BY <1>1, <2>5, <2>7
    <3>2. m - 1 \in Images /\ m - 1 \notin S
      BY <1>4, <2>4, <3>1
    <3>3. Last(j) + ((m - 1) - j) <= Offset(m - 1)
      BY <3>1, <3>2
    <3>4. Offset(m) = Last(m - 1) + 1
      BY <1>2, <3>1, <3>2
    <3>5. Last(j) \in Nat /\ Last(m - 1) \in Nat /\ Offset(m - 1) \in Nat
          /\ Last(m - 1) >= Offset(m - 1)
      BY <1>2, <1>3, <3>2
    <3>6. QED
      BY <1>1, <2>5, <3>1, <3>3, <3>4, <3>5
  <2>8. QED
    BY <2>6, <2>7
<1>6. QED
  BY <1>2, <1>3, <1>5

(* A number of good blocks is one. *)
LEMMA GoodType ==
  ASSUME NEW a \in Int, NEW b \in Int, NEW bad
  PROVE  /\ IsFiniteSet(a .. b) /\ IsFiniteSet((a .. b) \ bad)
         /\ Cardinality((a .. b) \ bad) \in Nat
         /\ Cardinality((a .. b) \ bad) <= IF a > b THEN 0 ELSE b - a + 1
<1>1. IsFiniteSet(a .. b) /\ Cardinality(a .. b) = IF a > b THEN 0 ELSE b - a + 1
  BY FS_Interval
<1>2. (a .. b) \ bad \in SUBSET (a .. b)
  OBVIOUS
<1>3. /\ IsFiniteSet((a .. b) \ bad)
      /\ Cardinality((a .. b) \ bad) <= Cardinality(a .. b)
  BY ONLY <1>1, <1>2, FS_Subset
<1>4. Cardinality((a .. b) \ bad) \in Nat
  BY <1>3, FS_CardinalityType
<1>5. QED
  BY <1>1, <1>3, <1>4

(* An image whose own blocks are good is put into these. *)
LEMMA PutInOrder ==
  ASSUME ini \in Inis, LaidOut, NEW k \in Images \ Hit
  PROVE  Put(k) = Offset(k) .. Offset(k) + Pieces(Entries[k].len) - 1
<1> DEFINE o == Offset(k)
           n == Pieces(Entries[k].len)
           l == Last(k)
<1>1. o \in Nat /\ n \in Nat /\ l \in Nat /\ o + n - 1 <= l /\ l < AreaBlocks /\ AreaBlocks \in Nat
  BY LaidOutIs, OneBehindAnother DEF Last
<1>2. \A b \in badArea : ~(o <= b /\ b <= l)
  BY DEF Hit
<1>3. \A b : b \in Put(k) <=> b \in Blocks \ badArea /\ o <= b /\ Below(b, o, badArea) < n
  BY DEF Put
<1> HIDE DEF o, n, l
<1>4. ASSUME NEW b \in o .. o + n - 1  PROVE b \in Put(k)
  <2>1. b \in Blocks /\ b \notin badArea /\ o <= b
    BY <1>1, <1>2 DEF Blocks
  <2>2. Below(b, o, badArea) < n
    <3>1. /\ Cardinality((o .. b - 1) \ badArea) \in Nat
          /\ Cardinality((o .. b - 1) \ badArea) <= IF o > b - 1 THEN 0 ELSE (b - 1) - o + 1
      <4>1. o \in Int /\ b - 1 \in Int
        BY <1>1
      <4>2. QED
        BY <4>1, GoodType
    <3>2. QED
      BY <1>1, <3>1 DEF Below
  <2>3. QED
    BY <1>3, <2>1, <2>2
<1>5. ASSUME NEW b \in Put(k)  PROVE b \in o .. o + n - 1
  <2>1. b \in Nat /\ o <= b /\ Below(b, o, badArea) < n
    BY <1>1, <1>3 DEF Blocks
  <2>2. SUFFICES ASSUME b >= o + n  PROVE FALSE
    BY <1>1, <2>1
  <2>3. o .. o + n - 1 \in SUBSET ((o .. b - 1) \ badArea)
    BY <1>1, <1>2, <2>1, <2>2
  <2>4. IsFiniteSet((o .. b - 1) \ badArea) /\ Cardinality((o .. b - 1) \ badArea) \in Nat
    <3>1. o \in Int /\ b - 1 \in Int
      BY <1>1, <2>1
    <3>2. QED
      BY <3>1, GoodType
  <2>5. Cardinality(o .. o + n - 1) <= Cardinality((o .. b - 1) \ badArea)
    BY ONLY <2>3, <2>4, FS_Subset
  <2>6. Cardinality(o .. o + n - 1) = n
    <3> DEFINE m == o + n - 1
    <3>1. o \in Int /\ m \in Int /\ m = o + n - 1
      BY <1>1
    <3> HIDE DEF m
    <3>2. Cardinality(o .. m) = IF o > m THEN 0 ELSE m - o + 1
      BY <3>1, FS_Interval
    <3>3. QED
      BY <1>1, <3>1, <3>2
  <2>7. QED
    BY <1>1, <2>1, <2>4, <2>5, <2>6 DEF Below
<1>6. Put(k) = o .. o + n - 1
  BY <1>4, <1>5
<1>7. QED
  BY <1>6 DEF o, n

(* An image that is neither hit nor pushed into shares no block. *)
LEMMA PutApart ==
  ASSUME ini \in Inis, LaidOut, NEW k \in Images \ (Hit \cup Pushed),
         NEW j \in Images, j # k
  PROVE  Put(j) \cap Put(k) = {}
<1> SUFFICES ASSUME NEW b \in Put(j), b \in Put(k)  PROVE FALSE
  OBVIOUS
<1>1. j \in Int /\ k \in Int /\ j \in 2 .. Len(Entries) /\ k \in 2 .. Len(Entries) /\ b \in Int
  BY DEF Images, Put, Blocks
<1>2. /\ Offset(k) \in Nat /\ Pieces(Entries[k].len) \in Nat
      /\ Offset(k) + Pieces(Entries[k].len) - 1 <= Last(k)
      /\ Last(k) \in Nat
  BY LaidOutIs, OneBehindAnother DEF Last
<1>3. Offset(k) <= b /\ Offset(j) <= b
  BY DEF Put
<1>4. CASE j < k
  <2>1. j \in 2 .. k - 1
    BY <1>1, <1>4
  <2>2. QED
    BY <1>3, <2>1 DEF Pushed
<1>5. CASE k < j
  <2>1. Put(k) = Offset(k) .. Offset(k) + Pieces(Entries[k].len) - 1
    BY PutInOrder
  <2>2. b <= Last(k)
    BY <1>1, <1>2, <2>1
  <2>3. Last(k) + (j - k) <= Offset(j) /\ Offset(j) \in Nat
    BY <1>5, Behind
  <2>4. QED
    BY <1>1, <1>2, <1>3, <1>5, <2>2, <2>3
<1>6. QED
  BY <1>1, <1>4, <1>5

(* Two parts of a set are at most as many as the two numbers together. *)
LEMMA TwoParts ==
  ASSUME NEW A, NEW B, NEW S, IsFiniteSet(A), IsFiniteSet(B), S \subseteq A \cup B
  PROVE  /\ IsFiniteSet(S) /\ Cardinality(S) \in Nat
         /\ Cardinality(A) \in Nat /\ Cardinality(B) \in Nat
         /\ Cardinality(S) <= Cardinality(A) + Cardinality(B)
         /\ A \cap B = {} => Cardinality(A \cup B) = Cardinality(A) + Cardinality(B)
<1>1. IsFiniteSet(A \cup B)
      /\ Cardinality(A \cup B) = Cardinality(A) + Cardinality(B) - Cardinality(A \cap B)
  BY FS_Union
<1>2. IsFiniteSet(A \cap B)
  BY FS_Subset
<1>3. /\ Cardinality(A) \in Nat /\ Cardinality(B) \in Nat
      /\ Cardinality(A \cap B) \in Nat /\ Cardinality(A \cup B) \in Nat
  BY <1>1, <1>2, FS_CardinalityType
<1>4. S \in SUBSET (A \cup B)
  OBVIOUS
<1>5. IsFiniteSet(S) /\ Cardinality(S) <= Cardinality(A \cup B)
  BY ONLY <1>1, <1>4, FS_Subset
<1>6. Cardinality(S) \in Nat
  BY <1>5, FS_CardinalityType
<1>7. A \cap B = {} => Cardinality(A \cap B) = 0
  BY FS_EmptySet
<1>8. QED
  BY <1>1, <1>3, <1>5, <1>6, <1>7

LEMMA BadIsFinite ==
  ASSUME badArea \subseteq Blocks
  PROVE  IsFiniteSet(badArea) /\ badArea \subseteq Nat /\ Cardinality(badArea) \in Nat
<1>1. AreaBlocks \in Nat /\ Blocks = 0 .. AreaBlocks - 1
  BY NandAssumption DEF Blocks
<1>2. IsFiniteSet(Blocks)
  <2>1. 0 \in Int /\ AreaBlocks - 1 \in Int
    BY <1>1
  <2>2. IsFiniteSet(0 .. AreaBlocks - 1)
    BY ONLY <2>1, FS_Interval
  <2>3. QED
    BY <1>1, <2>2
<1>3. badArea \in SUBSET Blocks
  OBVIOUS
<1>4. IsFiniteSet(badArea)
  BY ONLY <1>2, <1>3, FS_Subset
<1>5. QED
  BY <1>1, <1>4, FS_CardinalityType

(* A bad block hits one image at most. *)
LEMMA FewHit ==
  ASSUME ini \in Inis, LaidOut, badArea \subseteq Blocks
  PROVE  /\ IsFiniteSet(Hit) /\ Cardinality(Hit) \in Nat
         /\ Cardinality(Hit) <= Cardinality(badArea)
<1> DEFINE In(k, b) == Offset(k) <= b /\ b <= Last(k)
           f == [k \in Hit |-> CHOOSE b \in badArea : In(k, b)]
<1>1. \A k \in Hit : f[k] \in badArea /\ In(k, f[k])
  BY DEF Hit
<1>2. ASSUME NEW j \in Hit, NEW k \in Hit, j < k, f[j] = f[k]  PROVE FALSE
  <2>1. j \in Images /\ k \in Images /\ j \in Nat /\ k \in Nat
    BY DEF Hit, Images
  <2>2. /\ Offset(j) \in Nat /\ Offset(k) \in Nat
        /\ Last(j) \in Nat /\ Last(j) + (k - j) <= Offset(k)
    BY <1>2, <2>1, Behind
  <2>3. f[k] <= Last(j) /\ Offset(k) <= f[k] /\ f[k] \in Nat
    BY <1>1, <1>2, BadIsFinite
  <2> HIDE DEF f
  <2>4. QED
    BY <1>2, <2>1, <2>2, <2>3
<1>3. f \in Injection(Hit, badArea)
  <2>1. f \in [Hit -> badArea]
    BY <1>1
  <2>2. \A k \in Hit : k \in Int
    BY DEF Hit, Images
  <2> HIDE DEF f
  <2>3. ASSUME NEW j \in Hit, NEW k \in Hit, f[j] = f[k]  PROVE j = k
    BY <1>2, <2>2, <2>3
  <2>4. QED
    BY <2>1, <2>3 DEF Injection, IsInjective
<1>4. IsFiniteSet(badArea)
  BY BadIsFinite
<1> HIDE DEF f
<1>5. IsFiniteSet(Hit) /\ Cardinality(Hit) <= Cardinality(badArea)
  BY <1>3, <1>4, FS_Injection
<1>6. QED
  BY <1>5, FS_CardinalityType

(* The bad blocks before a block. *)
BadBefore(o) == {b \in badArea : b < o}

(* An image that reaches over others into a block has met at least as many  *)
(* bad blocks before that block as there are images it reaches over.        *)
LEMMA ReachNeedsBad ==
  ASSUME ini \in Inis, LaidOut, badArea \subseteq Blocks,
         NEW j \in Images, NEW k \in Images, j < k,
         NEW b \in Put(j), Offset(k) <= b
  PROVE  /\ IsFiniteSet(BadBefore(Offset(j))) /\ IsFiniteSet(BadBefore(Offset(k)))
         /\ Cardinality(BadBefore(Offset(j))) \in Nat
         /\ Cardinality(BadBefore(Offset(k))) \in Nat
         /\ Cardinality(BadBefore(Offset(j))) + (k - j) <= Cardinality(BadBefore(Offset(k)))
<1> DEFINE o == Offset(j)
           p == Offset(k)
           n == Pieces(Entries[j].len)
           blocks == o .. p - 1
           good   == blocks \ badArea
           hit    == {x \in badArea : o <= x /\ x < p}
<1>1. /\ o \in Nat /\ p \in Nat /\ Last(j) \in Nat /\ Last(j) >= o
      /\ Last(j) + (k - j) <= p
  BY Behind
<1>2. n \in Nat /\ o + n - 1 <= Last(j)
  BY <1>1, LaidOutIs DEF Last
<1>3. j \in Nat /\ k \in Nat /\ b \in Nat /\ p <= b
  BY DEF Images, Put, Blocks
<1>4. Cardinality((o .. b - 1) \ badArea) < n
  BY DEF Put, Below
<1>5. badArea \subseteq Nat /\ IsFiniteSet(badArea)
  BY BadIsFinite
<1> HIDE DEF o, p, n
<1>6. /\ IsFiniteSet(blocks) /\ Cardinality(blocks) = p - o
  <2>1. o \in Int /\ p - 1 \in Int
    BY <1>1
  <2> DEFINE q == p - 1
  <2>2. q \in Int /\ q = p - 1
    BY <1>1
  <2> HIDE DEF q
  <2>3. IsFiniteSet(o .. q) /\ Cardinality(o .. q) = IF o > q THEN 0 ELSE q - o + 1
    BY <2>1, <2>2, FS_Interval
  <2>4. o <= q + 1
    BY <1>1, <1>3, <2>2, j < k
  <2>5. QED
    BY <1>1, <2>2, <2>3, <2>4
<1>7. IsFiniteSet(good) /\ Cardinality(good) \in Nat /\ Cardinality(good) <= n - 1
  <2>1. /\ IsFiniteSet((o .. b - 1) \ badArea)
        /\ Cardinality((o .. b - 1) \ badArea) \in Nat
    <3>1. o \in Int /\ b - 1 \in Int
      BY <1>1, <1>3
    <3>2. QED
      BY <3>1, GoodType
  <2>2. good \in SUBSET ((o .. b - 1) \ badArea)
    BY <1>1, <1>3
  <2>3. IsFiniteSet(good) /\ Cardinality(good) <= Cardinality((o .. b - 1) \ badArea)
    BY ONLY <2>1, <2>2, FS_Subset
  <2>4. Cardinality(good) \in Nat
    BY <2>3, FS_CardinalityType
  <2> HIDE DEF good
  <2>5. QED
    BY <1>2, <1>4, <2>1, <2>3, <2>4 DEF n
<1>8. IsFiniteSet(hit)
  <2>1. hit \in SUBSET badArea
    OBVIOUS
  <2>2. QED
    BY ONLY <1>5, <2>1, FS_Subset
<1>9. blocks \subseteq good \cup hit
  BY <1>1
<1>10. /\ Cardinality(hit) \in Nat
       /\ Cardinality(blocks) <= Cardinality(good) + Cardinality(hit)
  BY <1>7, <1>8, <1>9, TwoParts
<1>11. /\ BadBefore(p) = BadBefore(o) \cup hit
       /\ BadBefore(o) \cap hit = {}
  <2>1. o <= p
    BY <1>1, <1>3, j < k
  <2>2. \A x \in badArea : (x < p <=> x < o \/ (o <= x /\ x < p)) /\ ~(x < o /\ o <= x)
    BY <1>1, <1>5, <2>1
  <2>3. QED
    BY <2>2 DEF BadBefore
<1>12. IsFiniteSet(BadBefore(o)) /\ IsFiniteSet(BadBefore(p))
  <2>1. BadBefore(o) \in SUBSET badArea /\ BadBefore(p) \in SUBSET badArea
    BY DEF BadBefore
  <2>2. QED
    BY ONLY <1>5, <2>1, FS_Subset
<1>13. /\ Cardinality(BadBefore(o)) \in Nat
       /\ Cardinality(BadBefore(p)) = Cardinality(BadBefore(o)) + Cardinality(hit)
  <2>1. BadBefore(p) \subseteq BadBefore(o) \cup hit
    BY <1>11
  <2>2. QED
    BY <1>8, <1>11, <1>12, <2>1, TwoParts
<1> HIDE DEF good, hit, blocks
<1>14. Cardinality(hit) >= k - j
  BY <1>1, <1>2, <1>3, <1>6, <1>7, <1>10
<1>15. QED
  BY <1>3, <1>10, <1>12, <1>13, <1>14 DEF o, p

(* A bad block pushes one image at most into the next. *)
LEMMA FewPushed ==
  ASSUME ini \in Inis, LaidOut, badArea \subseteq Blocks
  PROVE  /\ IsFiniteSet(Pushed) /\ Cardinality(Pushed) \in Nat
         /\ Cardinality(Pushed) <= Cardinality(badArea)
<1> DEFINE N         == Len(Entries)
           UpTo(k)   == {m \in Pushed : m <= k}
           Before(k) == BadBefore(Offset(k))
           S         == {k \in Images : ~(Cardinality(UpTo(k)) <= Cardinality(Before(k)))}
<1>1. N \in Nat /\ N >= 1 /\ Images = 2 .. N
  BY LaidOutIs DEF Images
<1>2. Pushed \subseteq Images
  BY DEF Pushed
<1>3. IsFiniteSet(badArea) /\ badArea \subseteq Nat /\ Cardinality(badArea) \in Nat
  BY BadIsFinite
<1> HIDE DEF N
<1>4. IsFiniteSet(Pushed)
  <2>1. 2 \in Int /\ N \in Int
    BY <1>1
  <2>2. IsFiniteSet(2 .. N)
    BY ONLY <2>1, FS_Interval
  <2>3. Pushed \in SUBSET (2 .. N)
    BY <1>1, <1>2
  <2>4. QED
    BY ONLY <2>2, <2>3, FS_Subset
<1>5. \A k : /\ IsFiniteSet(UpTo(k)) /\ Cardinality(UpTo(k)) \in Nat
             /\ IsFiniteSet(Before(k)) /\ Cardinality(Before(k)) \in Nat
             /\ Cardinality(Before(k)) <= Cardinality(badArea)
  <2> TAKE k
  <2>1. UpTo(k) \in SUBSET Pushed /\ Before(k) \in SUBSET badArea
    BY DEF BadBefore
  <2> HIDE DEF UpTo, Before
  <2>2. /\ IsFiniteSet(UpTo(k)) /\ IsFiniteSet(Before(k))
        /\ Cardinality(Before(k)) <= Cardinality(badArea)
    BY ONLY <1>3, <1>4, <2>1, FS_Subset
  <2>3. QED
    BY <2>2, FS_CardinalityType
<1>6. S = {}
  <2>1. SUFFICES ASSUME S # {}  PROVE FALSE
    OBVIOUS
  <2>2. S \in SUBSET Nat
    BY <1>1
  <2>3. \E k \in S : \A m \in S : k <= m
    <3> HIDE DEF S
    <3>1. QED
      BY ONLY <2>1, <2>2, Least
  <2>4. PICK k \in S : \A m \in S : k <= m
    BY <2>3
  <2>5. k \in Images /\ k \in 2 .. N /\ ~(Cardinality(UpTo(k)) <= Cardinality(Before(k)))
    BY <1>1
  <2>6. ASSUME NEW m \in Images, m < k
        PROVE  Cardinality(UpTo(m)) <= Cardinality(Before(m))
    <3>1. ~(k <= m)
      BY <1>1, <2>5, <2>6
    <3>2. QED
      BY <2>4, <3>1
  <2>7. CASE k \in Pushed
    <3>1. PICK j \in 2 .. k - 1 : \E b \in Put(j) : Offset(k) <= b
      BY <2>7 DEF Pushed
    <3>2. PICK b \in Put(j) : Offset(k) <= b
      BY <3>1
    <3>3. j \in Images /\ j < k /\ j \in Nat /\ k \in Nat
      BY <1>1, <2>5, <3>1
    <3>4. Cardinality(Before(j)) + (k - j) <= Cardinality(Before(k))
      BY <2>5, <3>2, <3>3, ReachNeedsBad
    <3>5. Cardinality(UpTo(j)) <= Cardinality(Before(j))
      BY <2>6, <3>3
    <3> DEFINE rest == j + 1 .. k
    <3>6. IsFiniteSet(rest) /\ Cardinality(rest) = k - j
      <4> DEFINE a == j + 1
      <4>1. a \in Int /\ k \in Int /\ a = j + 1
        BY <3>3
      <4> HIDE DEF a
      <4>2. IsFiniteSet(a .. k) /\ Cardinality(a .. k) = IF a > k THEN 0 ELSE k - a + 1
        BY <4>1, FS_Interval
      <4>3. QED
        BY <3>3, <4>1, <4>2
    <3>7. UpTo(k) \subseteq UpTo(j) \cup rest
      <4>1. ASSUME NEW m \in Pushed, m <= k, ~(m <= j)  PROVE m \in rest
        <5>1. m \in Nat
          BY <1>1, <1>2
        <5>2. QED
          BY <3>3, <4>1, <5>1
      <4>2. QED
        BY <4>1
    <3> HIDE DEF UpTo, Before, rest
    <3>8. Cardinality(UpTo(k)) <= Cardinality(UpTo(j)) + Cardinality(rest)
      BY <1>5, <3>6, <3>7, TwoParts
    <3>9. QED
      BY <1>5, <2>5, <3>3, <3>4, <3>5, <3>6, <3>8
  <2>8. CASE k \notin Pushed
    <3>1. CASE k = 2
      <4>1. UpTo(k) = {}
        <5>1. ASSUME NEW m \in Pushed, m <= k  PROVE FALSE
          <6>1. m \in 2 .. N
            BY <1>1, <1>2
          <6>2. m = k
            BY <1>1, <3>1, <5>1, <6>1
          <6>3. QED
            BY <2>8, <6>2
        <5>2. QED
          BY <5>1
      <4> HIDE DEF UpTo, Before
      <4>2. Cardinality(UpTo(k)) = 0
        BY <4>1, FS_EmptySet
      <4>3. QED
        BY <1>5, <2>5, <4>2
    <3>2. CASE k # 2
      <4> DEFINE j == k - 1
      <4>1. j \in 2 .. N /\ j < k /\ j \in Nat /\ k \in Nat /\ j + 1 = k
        BY <1>1, <2>5, <3>2
      <4> HIDE DEF j
      <4>2. j \in Images
        BY <1>1, <4>1
      <4>3. Cardinality(UpTo(j)) <= Cardinality(Before(j))
        BY <2>6, <4>1, <4>2
      <4>4. UpTo(k) \subseteq UpTo(j)
        <5>1. ASSUME NEW m \in Pushed, m <= k  PROVE m <= j
          <6>1. m \in Nat /\ m # k
            BY <1>1, <1>2, <2>8
          <6>2. QED
            BY <4>1, <5>1, <6>1
        <5>2. QED
          BY <5>1
      <4>5. Before(j) \subseteq Before(k)
        <5>1. Offset(j) \in Nat /\ Offset(k) \in Nat /\ Offset(j) <= Offset(k)
          <6>1. /\ Offset(j) \in Nat /\ Offset(k) \in Nat /\ Last(j) \in Nat
                /\ Last(j) >= Offset(j) /\ Last(j) + (k - j) <= Offset(k)
            BY <2>5, <4>1, <4>2, Behind
          <6>2. QED
            BY <4>1, <6>1
        <5>2. \A x \in badArea : x < Offset(j) => x < Offset(k)
          BY <1>3, <5>1
        <5>3. QED
          BY <5>2 DEF BadBefore
      <4> HIDE DEF UpTo, Before
      <4>6. /\ Cardinality(UpTo(k)) <= Cardinality(UpTo(j))
            /\ Cardinality(Before(j)) <= Cardinality(Before(k))
        <5>1. UpTo(k) \in SUBSET UpTo(j) /\ Before(j) \in SUBSET Before(k)
          BY <4>4, <4>5
        <5>2. IsFiniteSet(UpTo(j)) /\ IsFiniteSet(Before(k))
          BY <1>5
        <5>3. QED
          BY ONLY <5>1, <5>2, FS_Subset
      <4>7. QED
        BY <1>5, <2>5, <4>3, <4>6
    <3>3. QED
      BY <3>1, <3>2
  <2>9. QED
    BY <2>7, <2>8
<1>7. Cardinality(Pushed) <= Cardinality(badArea)
  <2>1. CASE N = 1
    <3>1. Pushed = {}
      BY <1>1, <1>2, <2>1
    <3>2. QED
      BY <1>3, <3>1, FS_EmptySet
  <2>2. CASE N # 1
    <3>1. N \in Images
      BY <1>1, <2>2
    <3>2. Cardinality(UpTo(N)) <= Cardinality(Before(N))
      BY <1>6, <3>1
    <3>3. UpTo(N) = Pushed
      <4>1. ASSUME NEW m \in Pushed  PROVE m <= N
        <5>1. m \in 2 .. N
          BY <1>1, <1>2
        <5>2. QED
          BY <1>1, <5>1
      <4>2. QED
        BY <4>1
    <3> HIDE DEF UpTo, Before
    <3>4. QED
      BY <1>3, <1>5, <3>2, <3>3
  <2>3. QED
    BY <2>1, <2>2
<1>8. QED
  BY <1>4, <1>7, FS_CardinalityType
-----------------------------------------------------------------------------
(* What is burnt stays                                                      *)

(* Where the images lie is settled by the ini file and the bad blocks. *)
LEMMA LayoutStays ==
  ASSUME UNCHANGED <<ini, badArea>>
  PROVE  /\ Entries' = Entries /\ Images' = Images
         /\ LaidOut' = LaidOut /\ TableHolds' = TableHolds
         /\ Hit' = Hit /\ Pushed' = Pushed
         /\ \A k : /\ Put(k)' = Put(k) /\ Offset(k)' = Offset(k)
                   /\ \A b : run' = run => Piece(k, b)' = Piece(k, b)
<1>1. Entries' = Entries
  BY DEF Entries
<1>2. \A k : Start(k)' = Start(k) /\ Offset(k)' = Offset(k)
  BY <1>1 DEF Start, Offset
<1>3. \A k : Last(k)' = Last(k)
  BY <1>1, <1>2 DEF Last
<1>4. \A k : Put(k)' = Put(k)
  BY <1>1, <1>2 DEF Put
<1>5. Images' = Images
  BY <1>1 DEF Images
<1>6. LaidOut' = LaidOut /\ TableHolds' = TableHolds
  BY <1>1, <1>2 DEF LaidOut, TableHolds
<1>7. Hit' = Hit
  BY <1>2, <1>3, <1>5 DEF Hit
<1>8. Pushed' = Pushed
  BY <1>2, <1>4, <1>5 DEF Pushed
<1>9. \A k, b : run' = run => Piece(k, b)' = Piece(k, b)
  BY <1>1, <1>2 DEF Piece
<1>10. QED
  BY <1>1, <1>2, <1>4, <1>5, <1>6, <1>7, <1>8, <1>9

(* When the images fit, nandwrite does not turn the k-th one down. *)
LEMMA ImageFits ==
  ASSUME ini \in Inis, LaidOut, NEW k \in Images, DOMAIN area = Blocks
  PROVE  /\ Fits(area, Offset(k), Pieces(Entries[k].len))
         /\ Place(area, badArea, Offset(k), Pieces(Entries[k].len)) = Put(k)
<1>1. /\ Offset(k) \in Nat /\ Pieces(Entries[k].len) \in Nat
      /\ Offset(k) + Pieces(Entries[k].len) <= AreaBlocks
      /\ AreaBlocks \in Nat
  BY LaidOutIs, OneBehindAnother DEF Last
<1>2. Cardinality(Blocks) = AreaBlocks
  <2> DEFINE q == AreaBlocks - 1
  <2>1. 0 \in Int /\ q \in Int /\ q = AreaBlocks - 1
    BY <1>1
  <2>2. Blocks = 0 .. q
    BY DEF Blocks
  <2> HIDE DEF q
  <2>3. Cardinality(0 .. q) = IF 0 > q THEN 0 ELSE q - 0 + 1
    BY <2>1, FS_Interval
  <2>4. QED
    BY <1>1, <2>1, <2>2, <2>3
<1>3. QED
  BY <1>1, <1>2 DEF Fits, Place, Put

(* Without failures the images that no bad block disturbs are burnt one by  *)
(* one into erased blocks, and no other image is burnt on top of them.      *)
THEOREM ImagesBurnt == Spec => []ImagesInv
<1>1. Init => ImagesInv
  BY DEF Init, ImagesInv
<1>2. FlashTypes /\ TypeOK /\ ImagesInv /\ [Next]_vars => ImagesInv'
  <2> SUFFICES ASSUME FlashTypes, TypeOK, ImagesInv, [Next]_vars,
                      LaidOut', TableHolds', ~failed'
               PROVE  /\ pc' \in {"entry", "done"} /\ i' # 0 =>
                           \A k \in (Images \ (Hit \cup Pushed))' : \A b \in Put(k)' :
                             area'[b] = IF k <= i' THEN Piece(k, b)' ELSE Erased
                      /\ pc' = "done" => i' = Len(Entries')
    BY DEF ImagesInv
  <2>a. /\ ini \in Inis /\ i \in Nat /\ badArea \subseteq Blocks /\ DOMAIN area = Blocks
    BY DEF TypeOK, FlashTypes, MAX_FWInfo
  <2>t. ASSUME NEW l, NEW n, NEW all \in BOOLEAN, Then(all, l, n)
        PROVE  pc' = "off" \/ (all /\ ~failed /\ pc' = l /\ i' = n)
    BY <2>t DEF Then, FlashTypes
  <2>s. ASSUME UNCHANGED <<ini, badArea>>
        PROVE  /\ LaidOut /\ TableHolds /\ Entries' = Entries /\ Images' = Images
               /\ (Images \ (Hit \cup Pushed))' = Images \ (Hit \cup Pushed)
               /\ \A k : Put(k)' = Put(k)
               /\ \A k, b : run' = run => Piece(k, b)' = Piece(k, b)
    BY <2>s, LayoutStays
  <2>k. \A k \in Images : k \in Nat /\ k >= 2
    BY DEF Images
  <2>p. \A k : Put(k) \subseteq Blocks \ badArea
    BY DEF Put
  <2>1. CASE Run \/ Overrun
    BY <2>1 DEF Run, Overrun
  <2>2. CASE EraseSystem \/ BurnSystem
    <3>1. pc' \in {"off", "sys", "erasearea"}
      <4>1. CASE EraseSystem
        BY <4>1 DEF EraseSystem, Then
      <4>2. CASE BurnSystem
        BY <4>2 DEF BurnSystem, Then
      <4>3. QED
        BY <2>2, <4>1, <4>2
    <3>2. QED
      BY <3>1
  <2>3. CASE EraseArea
    <3>1. PICK stop \in 0 .. AreaBlocks : Then(stop = AreaBlocks, "entry", 0)
      BY <2>3 DEF EraseArea, EraseThen
    <3>2. pc' = "off" \/ (pc' = "entry" /\ i' = 0)
      BY <3>1, <2>t
    <3>3. QED
      BY <3>2
  <2>4. CASE RunLastCommand
    <3>1. UNCHANGED <<ini, badArea, run>> /\ pc = "entry" /\ i < Len(Entries)
      BY <2>4 DEF RunLastCommand, chips, At
    <3>2. CASE i = 0
      <4>1. PICK stop \in 0 .. AreaBlocks :
              area' = ErasedTo(area, badArea, stop) /\ Then(stop = AreaBlocks, "entry", i + 1)
        BY <2>4, <3>2 DEF RunLastCommand, EraseThen
      <4>2. pc' = "off" \/ (stop = AreaBlocks /\ pc' = "entry" /\ i' = 1)
        <5>1. pc' = "off" \/ (stop = AreaBlocks /\ pc' = "entry" /\ i' = i + 1)
          BY <4>1, <2>t
        <5>2. QED
          BY <5>1, <3>2
      <4>3. ASSUME stop = AreaBlocks, NEW b \in Blocks \ badArea  PROVE area'[b] = Erased
        <5>1. ~(AreaBlocks <= b)
          BY NandAssumption DEF Blocks
        <5>2. QED
          BY <4>1, <4>3, <5>1, <2>a DEF ErasedTo
      <4>4. QED
        BY <3>1, <4>2, <4>3, <2>s, <2>k, <2>p
    <3>3. CASE i # 0
      <4>1. i + 1 \in Images /\ i + 1 \in 2 .. Len(Entries)
        <5>1. Len(Entries) \in Nat
          BY <3>1, <2>s, <2>a, LaidOutIs
        <5>2. QED
          BY <3>1, <3>3, <5>1, <2>a DEF Images
      <4>2. Entries[i + 1].flag # "system"
        BY <3>1, <4>1, <2>s, <2>a, LaidOutIs
      <4>3. Entries[i + 1].len # Missing
        BY <3>1, <4>1, <2>s DEF LaidOut
      <4>4. QED
        BY <2>4, <4>2, <4>3 DEF RunLastCommand
    <3>4. QED
      BY <3>2, <3>3
  <2>5. CASE BurnImage
    <3> DEFINE m == i + 1
               n == Pieces(Entries[m].len)
    <3>1. /\ UNCHANGED <<ini, badArea, run>> /\ pc = "entry" /\ i \in 1 .. Len(Entries) - 1
      BY <2>5 DEF BurnImage, chips, At
    <3>2. LaidOut /\ TableHolds /\ Len(Entries) \in Nat
      BY <3>1, <2>s, <2>a, LaidOutIs
    <3>3. m \in Images /\ i # 0
      BY <3>1, <3>2 DEF Images
    <3>4. /\ Fits(area, Offset(m), n)
          /\ Place(area, badArea, Offset(m), n) = Put(m)
      BY <3>2, <3>3, <2>a, ImageFits
    <3>5. PICK done \in 0 .. n, torn \in BOOLEAN :
            /\ area' = Written(area, badArea, Offset(m), Entries[m].flag, done, torn /\ done < n)
            /\ Then(done = n, "entry", m)
      BY <2>5, <3>4 DEF BurnImage
    <3>6. pc' = "off" \/ (done = n /\ ~failed /\ pc' = "entry" /\ i' = m)
      BY <3>5, <2>t
    <3>7. n \in Nat
      BY <3>2, <3>3, <2>a, LaidOutIs
    <3> HIDE DEF n
    <3>8. ASSUME done = n, ~failed,
                 NEW k \in Images \ (Hit \cup Pushed), NEW b \in Put(k)
          PROVE  area'[b] = IF k <= m THEN Piece(k, b) ELSE Erased
      <4>1. area[b] = IF k <= i THEN Piece(k, b) ELSE Erased
        BY <3>1, <3>2, <3>3, <3>8 DEF ImagesInv
      <4>2. b \in DOMAIN area
        BY <2>a, <2>p
      <4>3. ~(done < n)
        BY <3>7, <3>8
      <4>4. area'[b] = IF b \in Put(m)
                       THEN IF area[b] = Erased
                            THEN <<Entries[m].flag, Below(b, Offset(m), badArea), run>> ELSE Junk
                       ELSE area[b]
        BY <3>4, <3>5, <3>8, <4>2, <4>3 DEF Written
      <4>5. k \in Nat /\ i \in Nat /\ m = i + 1
        BY <2>a, <2>k
      <4>6. CASE k = m
        <5>1. ~(k <= i) /\ k <= m
          BY <4>5, <4>6
        <5>2. QED
          BY <4>1, <4>4, <4>6, <5>1 DEF Piece
      <4>7. CASE k # m
        <5>1. b \notin Put(m)
          BY <3>2, <3>3, <4>7, <2>a, PutApart
        <5>2. k <= i <=> k <= m
          BY <4>5, <4>7
        <5>3. QED
          BY <4>1, <4>4, <5>1, <5>2
      <4>8. QED
        BY <4>6, <4>7
    <3> HIDE DEF m
    <3>9. QED
      BY <3>1, <3>6, <3>8, <2>s
  <2>6. CASE Done
    <3>1. /\ UNCHANGED <<ini, badArea, run, area, i, failed>>
          /\ pc = "entry" /\ i = Len(Entries)
      BY <2>6 DEF Done, chips, At
    <3>2. QED
      BY <3>1, <2>s DEF ImagesInv
  <2>7. CASE UNCHANGED vars
    <3>1. UNCHANGED <<pc, ini, badArea, run, area, i, failed>>
      BY <2>7 DEF vars, chips
    <3>2. QED
      BY <3>1, <2>s DEF ImagesInv
  <2>8. QED
    BY <2>1, <2>2, <2>3, <2>4, <2>5, <2>6, <2>7 DEF Next
<1>3. QED
  BY <1>1, <1>2, FlashTypesHold, TypeCorrect, PTL DEF Spec

(* The same for the program: when all the tools of a run did their work and *)
(* the images fit, a bad block of /dev/mtd1 has cost at most two of the     *)
(* copies, the one it hits and the one that an earlier image is pushed      *)
(* into, whatever ini files and broken-off runs came before.                *)
THEOREM ProgramCopiesSurvive == Spec => []ProgramSurvives
<1>1. FlashTypes /\ TypeOK /\ ImagesInv => ProgramSurvives
  <2> SUFFICES ASSUME FlashTypes, TypeOK, ImagesInv,
                      At("done"), ~failed, TableHolds, LaidOut, ini.exec # NoName
               PROVE  Cardinality(ProgramCopies) >= ini.num - 2 * Cardinality(badArea)
    BY DEF ProgramSurvives
  <2> DEFINE N     == Len(Entries)
             first == 2 + Logos(ini)
             execs == first .. N
             lost  == Hit \cup Pushed
  <2>1. ini \in Inis /\ badArea \subseteq Blocks /\ DOMAIN area = Blocks
    BY DEF TypeOK, FlashTypes
  <2>2. /\ Logos(ini) \in 0 .. 1 /\ Copies(ini) \in Nat /\ N = 1 + Logos(ini) + Copies(ini)
        /\ ini.num \in Int /\ ini.num <= Copies(ini)
        /\ \A k \in execs : Entries[k] = [flag |-> "exec", len |-> ini.exec]
    <3>1. /\ Logos(ini) \in 0 .. 1 /\ Copies(ini) \in Nat
          /\ Len(Files(ini)) = 1 + Logos(ini) + Copies(ini)
          /\ \A k \in 2 + Logos(ini) .. Len(Files(ini)) :
               Files(ini)[k] = [flag |-> "exec", len |-> ini.exec]
      BY ONLY <2>1, FilesAre
    <3>2. ini.num \in Int /\ ini.num <= Copies(ini)
      BY <2>1, NandAssumption DEF Copies
    <3>3. QED
      BY <3>1, <3>2 DEF Entries
  <2>3. /\ pc = "done" /\ i = N
        /\ N \in Nat /\ Images = 2 .. N
    BY <2>1, LaidOutIs DEF At, ImagesInv, Images
  <2> HIDE DEF N
  <2>4. execs \subseteq Images /\ IsFiniteSet(execs) /\ Cardinality(execs) = Copies(ini)
    <3> DEFINE a == first
    <3>1. a \in Int /\ N \in Int /\ N = a - 1 + Copies(ini) /\ a >= 2
      BY <2>2, <2>3
    <3> HIDE DEF a
    <3>2. IsFiniteSet(a .. N) /\ Cardinality(a .. N) = IF a > N THEN 0 ELSE N - a + 1
      BY <3>1, FS_Interval
    <3>3. a .. N \subseteq Images
      BY <3>1, <2>3
    <3>4. execs = a .. N
      BY DEF a
    <3>5. QED
      BY <3>1, <3>2, <3>3, <3>4, <2>2
  <2>5. execs \ lost \subseteq ProgramCopies
    <3> SUFFICES ASSUME NEW k \in execs, k \notin lost  PROVE k \in ProgramCopies
      OBVIOUS
    <3> DEFINE n == Pieces(Entries[k].len)
    <3>1. k \in Images \ (Hit \cup Pushed) /\ k \in 1 .. Len(Entries) /\ k <= N
      BY <2>3, <2>4 DEF N
    <3>2. Entries[k].flag = "exec"
      BY <2>2
    <3>3. Place(area, badArea, Offset(k), n) = Put(k)
      BY <2>1, <3>1, ImageFits
    <3>4. Put(k) = Offset(k) .. Offset(k) + n - 1
      BY <2>1, <3>1, PutInOrder
    <3>5. Offset(k) \in Nat /\ n \in Nat
      BY <2>1, <3>1, LaidOutIs, OneBehindAnother
    <3> HIDE DEF n
    <3>6. Cardinality(Put(k)) = n
      <4> DEFINE q == Offset(k) + n - 1
      <4>1. Offset(k) \in Int /\ q \in Int /\ q = Offset(k) + n - 1
        BY <3>5
      <4> HIDE DEF q
      <4>2. Cardinality(Offset(k) .. q) = IF Offset(k) > q THEN 0 ELSE q - Offset(k) + 1
        BY <4>1, FS_Interval
      <4>3. QED
        BY <3>4, <3>5, <4>1, <4>2
    <3>7. \A b \in Put(k) : area[b] = Piece(k, b)
      <4>1. N # 0
        BY <2>2 DEF N
      <4>2. QED
        BY <2>3, <3>1, <4>1 DEF ImagesInv
    <3>8. Readable(k)
      BY <3>3, <3>6, <3>7 DEF Readable, Piece, n
    <3>9. QED
      BY <3>1, <3>2, <3>8 DEF ProgramCopies
  <2>6. /\ IsFiniteSet(Hit) /\ Cardinality(Hit) \in Nat
        /\ Cardinality(Hit) <= Cardinality(badArea)
    BY <2>1, FewHit
  <2>7. /\ IsFiniteSet(Pushed) /\ Cardinality(Pushed) \in Nat
        /\ Cardinality(Pushed) <= Cardinality(badArea)
    BY <2>1, FewPushed
  <2>8. Cardinality(badArea) \in Nat
    BY <2>1, BadIsFinite
  <2>9. /\ IsFiniteSet(lost) /\ Cardinality(lost) \in Nat
        /\ Cardinality(lost) <= Cardinality(Hit) + Cardinality(Pushed)
    BY <2>6, <2>7, TwoParts
  <2>10. IsFiniteSet(ProgramCopies) /\ Cardinality(ProgramCopies) \in Nat
    <3>1. 1 \in Int /\ N \in Int
      BY <2>3
    <3>2. IsFiniteSet(1 .. N)
      BY ONLY <3>1, FS_Interval
    <3>3. ProgramCopies \in SUBSET (1 .. N)
      BY DEF ProgramCopies, N
    <3>4. IsFiniteSet(ProgramCopies)
      BY ONLY <3>2, <3>3, FS_Subset
    <3>5. QED
      BY <3>4, FS_CardinalityType
  <2>11. execs \subseteq ProgramCopies \cup lost
    BY <2>5
  <2> HIDE DEF execs, lost
  <2>12. Cardinality(execs) <= Cardinality(ProgramCopies) + Cardinality(lost)
    BY <2>9, <2>10, <2>11, TwoParts
  <2>13. QED
    BY <2>2, <2>4, <2>6, <2>7, <2>8, <2>9, <2>10, <2>12
<1>2. QED
  BY <1>1, FlashTypesHold, TypeCorrect, ImagesBurnt, PTL

(* Both halves: what CopiesSurvive says of every flash and every history of *)
(* runs.                                                                    *)
THEOREM AllCopiesSurvive == Spec => []CopiesSurvive
<1>1. SystemSurvives /\ ProgramSurvives => CopiesSurvive
  BY DEF CopiesSurvive
<1>2. QED
  BY <1>1, SystemCopiesSurvive, ProgramCopiesSurvive, PTL
=============================================================================
