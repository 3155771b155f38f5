---------------------------- MODULE PublishProofs ----------------------------
(***************************************************************************)
(* Proofs about Publish, for any deploys, texts of any lengths, files and  *)
(* blocks.                                                                 *)
(***************************************************************************)
EXTENDS Publish, TLAPS

-----------------------------------------------------------------------------
(* Who has what.                                                           *)

\* A deploy has a text while it is on its way, and a file open only while it
\* writes; what it replaced is there.
DeployInv(d) ==
    /\ pc[d] \notin Ended => text[d] \in Texts
    /\ pc[d] \in {"staged", "writing"} => to[d]
    /\ pc[d] = "replaced" /\ to[d] => destination # NoFile
    /\ handle[d] \in Files => pc[d] = "writing"
    /\ pc[d] = "writing" => handle[d] \in Files

HandleInv == \A d \in Deployers : DeployInv(d)

\* A block that every text has and that is missing of a file with a name is
\* still to be written.
InEveryText == {k \in 1..Blocks : \A t \in Texts : k <= Length[t]}

Missing(f, k) == content[f][k] = Hole

ToBeWritten(f, k) == \E d \in Deployers : handle[d] = f /\ written[d] < k

Named == {temporary, destination} \ {NoFile}

HolesInv ==
    "crash" \notin disturbed =>
        \A f \in Named, k \in InEveryText : Missing(f, k) => ToBeWritten(f, k)

\* Where a deploy is that runs alone, and what its files hold.
PlanInv(d) ==
    /\ pc[d] = "writing" => /\ handle[d] = temporary
                            /\ \A k \in 1..written[d] : content[temporary][k] = text[d]
                            /\ \A k \in 1..Blocks : k > written[d] => content[temporary][k] = Hole
    /\ pc[d] = "replaced" /\ to[d] => content[destination] = Whole(text[d])
    /\ pc[d] = "replaced" /\ ~to[d] => staged[text[d]] = Whole(text[d])
    /\ applied[d] = Empty \/ (pc[d] = "published" /\ applied[d] = Whole(text[d]))

Alone == \A c, d \in Active : c = d

Solo == /\ Alone
        /\ temporary = NoFile \/ temporary # destination
        /\ \A d \in Deployers : PlanInv(d)

SoloInv == "overlap" \notin disturbed => Solo

-----------------------------------------------------------------------------
(* Lemmas about contents and files.                                        *)

\* What nobody has written, what a deploy writes, and what is left of a file
\* when it is freed have the type of a content.
LEMMA DataTypes ==
    /\ Empty \in Data
    /\ \A t \in Texts : Whole(t) \in Data
    /\ TypeOK => Freed \in [Files -> Data]
<1>1. Empty \in Data
  BY DEF Empty, Data
<1>2. \A t \in Texts : Whole(t) \in Data
  BY DEF Whole, Data
<1>3. TypeOK => Freed \in [Files -> Data]
  BY <1>1 DEF TypeOK, Freed
<1> QED
  BY <1>1, <1>2, <1>3

\* A text has at least one block and not more than the longest.
LEMMA Lengths == \A t \in Texts : Length[t] \in 1..Blocks
BY LengthAssumption

\* A text is not the empty content.
LEMMA WholeIsNotEmpty == \A t \in Texts : Whole(t) # Empty
<1> SUFFICES ASSUME NEW t \in Texts, Whole(t) = Empty PROVE FALSE
  OBVIOUS
<1>1. 1 \in 1..Blocks /\ 1 <= Length[t]
  BY Lengths, BlocksAssumption
<1>2. Whole(t)[1] = t /\ Empty[1] = Hole
  BY <1>1 DEF Whole, Empty
<1> QED
  BY <1>2, NamesAssumption

\* A file that keeps a name or somebody who has it open is not freed.
LEMMA NamedIsKept ==
    ASSUME TypeOK, NEW f \in Files, f \in {temporary', destination'}
    PROVE  Freed[f] = content[f]
BY DEF Freed

-----------------------------------------------------------------------------
(* Types, and who has what.                                                *)

\* The invariant is inductive together with the types.
LEMMA InitTypes == Init => TypeOK /\ HandleInv
<1> SUFFICES ASSUME Init PROVE TypeOK /\ HandleInv
  OBVIOUS
<1>1. TypeOK
  BY DataTypes, BlocksAssumption DEF Init, TypeOK, Ended
<1>2. HandleInv
  BY NamesAssumption DEF Init, HandleInv, DeployInv, Ended
<1> QED
  BY <1>1, <1>2

LEMMA StepTypes == TypeOK /\ HandleInv /\ [Next]_vars => TypeOK' /\ HandleInv'
<1> SUFFICES ASSUME TypeOK, HandleInv, [Next]_vars PROVE TypeOK' /\ HandleInv'
  OBVIOUS
<1> USE NamesAssumption, BlocksAssumption
<1>1. ASSUME NEW d \in Deployers, NEW t \in Texts, NEW withTo \in Outlets, Stage(d, t, withTo)
      PROVE  TypeOK' /\ HandleInv'
  <2>1. withTo \in BOOLEAN
    BY OutletsAssumption
  <2>2. TypeOK'
    BY <1>1, <2>1, DataTypes DEF Stage, TypeOK
  <2>3. HandleInv'
    BY <1>1, <2>1 DEF Stage, TypeOK, HandleInv, DeployInv, Ended
  <2> QED
    BY <2>2, <2>3
<1>2. ASSUME NEW d \in Deployers, WriteStaged(d) PROVE TypeOK' /\ HandleInv'
  <2>1. text[d] \in Texts
    BY <1>2 DEF WriteStaged, Goes, HandleInv, DeployInv, Ended
  <2>2. TypeOK'
    BY <1>2, <2>1, DataTypes DEF WriteStaged, Goes, TypeOK
  <2>3. HandleInv'
    BY <1>2, <2>1 DEF WriteStaged, Goes, TypeOK, HandleInv, DeployInv, Ended
  <2> QED
    BY <2>2, <2>3
<1>3. ASSUME NEW d \in Deployers, Open(d) PROVE TypeOK' /\ HandleInv'
  <2>1. PICK f \in Files : /\ temporary' = f
                           /\ content' = [content EXCEPT ![f] = Empty]
                           /\ handle' = [handle EXCEPT ![d] = f]
    BY <1>3 DEF Open
  <2>2. /\ Goes(d, "staged", "writing")
        /\ written' = [written EXCEPT ![d] = 0]
        /\ UNCHANGED <<staged, destination, text, to, applied, disturbed>>
    BY <1>3 DEF Open
  <2>3. TypeOK'
    BY <2>1, <2>2, DataTypes DEF Goes, TypeOK
  <2>4. HandleInv'
    BY <2>1, <2>2 DEF Goes, TypeOK, HandleInv, DeployInv, Ended
  <2> QED
    BY <2>3, <2>4
<1>4. ASSUME NEW d \in Deployers, Write(d) PROVE TypeOK' /\ HandleInv'
  <2>1. text[d] \in Texts /\ handle[d] \in Files
    BY <1>4 DEF Write, HandleInv, DeployInv, Ended
  <2>2. written[d] + 1 \in 1..Blocks
    BY <1>4, <2>1, Lengths DEF Write, AllOf, TypeOK
  <2>3. content' \in [Files -> Data]
    <3>1. content[handle[d]] \in Data
      BY <2>1 DEF TypeOK
    <3>2. [content[handle[d]] EXCEPT ![written[d] + 1] = text[d]] \in Data
      BY <2>1, <3>1 DEF Data
    <3> QED
      BY <1>4, <3>2 DEF Write, TypeOK
  <2>4. TypeOK'
    BY <1>4, <2>2, <2>3 DEF Write, TypeOK
  <2>5. HandleInv'
    BY <1>4 DEF Write, HandleInv, DeployInv
  <2> QED
    BY <2>4, <2>5
<1>5. ASSUME NEW d \in Deployers, Replace(d) PROVE TypeOK' /\ HandleInv'
  <2>1. TypeOK'
    BY <1>5, DataTypes DEF Replace, Goes, Close, TypeOK
  <2>2. HandleInv'
    BY <1>5 DEF Replace, Goes, Close, TypeOK, HandleInv, DeployInv, Ended
  <2> QED
    BY <2>1, <2>2
<1>6. ASSUME NEW d \in Deployers, ReplaceRaises(d) PROVE TypeOK' /\ HandleInv'
  <2>1. TypeOK'
    BY <1>6, DataTypes DEF ReplaceRaises, Goes, Abandon, Close, TypeOK, Ended
  <2>2. HandleInv'
    BY <1>6 DEF ReplaceRaises, Goes, Abandon, Close, TypeOK, HandleInv, DeployInv, Ended
  <2> QED
    BY <2>1, <2>2
<1>7. ASSUME NEW d \in Deployers, Apply(d) PROVE TypeOK' /\ HandleInv'
  <2>1. (IF to[d] THEN content[destination] ELSE staged[text[d]]) \in Data
    BY <1>7 DEF Apply, Goes, TypeOK, HandleInv, DeployInv, Ended
  <2>2. applied' \in [Deployers -> Data]
    BY <1>7, <2>1 DEF Apply, TypeOK
  <2>3. TypeOK'
    BY <1>7, <2>2 DEF Apply, Goes, TypeOK, Ended
  <2>4. HandleInv'
    BY <1>7 DEF Apply, Goes, TypeOK, HandleInv, DeployInv, Ended
  <2> QED
    BY <2>3, <2>4
<1>8. ASSUME NEW d \in Deployers, Crash(d) PROVE TypeOK' /\ HandleInv'
  <2>1. TypeOK'
    BY <1>8, DataTypes DEF Crash, Abandon, Close, TypeOK, Ended
  <2>2. HandleInv'
    BY <1>8 DEF Crash, Abandon, Close, TypeOK, HandleInv, DeployInv, Ended
  <2> QED
    BY <2>1, <2>2
<1>9. CASE UNCHANGED vars
  <2>1. TypeOK'
    BY <1>9 DEF vars, TypeOK
  <2>2. HandleInv'
    BY <1>9 DEF vars, HandleInv, DeployInv
  <2> QED
    BY <2>1, <2>2
<1> QED
  BY <1>1, <1>2, <1>3, <1>4, <1>5, <1>6, <1>7, <1>8, <1>9 DEF Next, Step

\* deploy_plan, however deploys overlap and crash: one that writes has a file
\* open and a text to write, and nobody else has a file open.
THEOREM HandlesCorrect == Spec => [](TypeOK /\ HandleInv)
BY InitTypes, StepTypes, PTL DEF Spec

\* deploy_plan: no deploy writes past the end of a text or to a file it has
\* not opened.
THEOREM TypeCorrect == Spec => []TypeOK
BY HandlesCorrect, PTL

-----------------------------------------------------------------------------
(* Whatever overlaps, a missing block is still to be written.              *)

LEMMA StepHoles ==
    TypeOK /\ HandleInv /\ HolesInv /\ TypeOK' /\ [Next]_vars => HolesInv'
<1> SUFFICES ASSUME TypeOK, HandleInv, HolesInv, TypeOK', [Next]_vars,
                    "crash" \notin disturbed',
                    NEW f \in Named', NEW k \in InEveryText, Missing(f, k)'
             PROVE  ToBeWritten(f, k)'
  BY DEF HolesInv
<1> USE NamesAssumption, BlocksAssumption
<1>1. "crash" \notin disturbed
  BY DEF Next, Step, Stage, WriteStaged, Open, Write, Replace, ReplaceRaises, Apply, Crash, vars
<1>2. \A g \in Named, j \in InEveryText : Missing(g, j) => ToBeWritten(g, j)
  BY <1>1 DEF HolesInv
<1>3. f \in Files /\ k \in 1..Blocks /\ \A t \in Texts : k <= Length[t]
  BY DEF Named, TypeOK, InEveryText
\* Neither the names nor what is open changes.
<1>4. ASSUME UNCHANGED <<content, temporary, destination, handle, written>>
      PROVE  ToBeWritten(f, k)'
  BY <1>2, <1>4 DEF Named, Missing, ToBeWritten
\* A deploy closes a file of which it has written every block.
<1>5. ASSUME NEW d \in Deployers, pc[d] = "writing", written[d] = AllOf(d), Close(d), content' = Freed, f \in Named
      PROVE  ToBeWritten(f, k)'
  <2>1. content'[f] = content[f]
    BY <1>3, <1>5, NamedIsKept DEF Named
  <2>2. PICK e \in Deployers : handle[e] = f /\ written[e] < k
    BY <1>2, <1>5, <2>1 DEF Missing, ToBeWritten
  <2>3. e # d
    <3>1. text[d] \in Texts
      BY <1>5 DEF HandleInv, DeployInv, Ended
    <3>2. written[d] = Length[text[d]] /\ k <= Length[text[d]] /\ Length[text[d]] \in Nat
      BY <1>3, <1>5, <3>1, Lengths DEF AllOf
    <3> QED
      BY <1>3, <2>2, <3>2
  <2> QED
    BY <1>5, <2>2, <2>3 DEF Close, ToBeWritten
<1>6. ASSUME NEW d \in Deployers, Open(d) PROVE ToBeWritten(f, k)'
  <2>1. PICK g \in Files : /\ IF temporary = NoFile THEN Unused(g) ELSE g = temporary
                           /\ temporary' = g
                           /\ content' = [content EXCEPT ![g] = Empty]
                           /\ handle' = [handle EXCEPT ![d] = g]
    BY <1>6 DEF Open
  <2>2. /\ written' = [written EXCEPT ![d] = 0] /\ destination' = destination
        /\ pc[d] = "staged"
    BY <1>6 DEF Open, Goes
  <2>3. CASE f = g
    BY <1>3, <2>1, <2>2, <2>3 DEF ToBeWritten, TypeOK
  <2>4. CASE f # g
    <3>1. f \in Named /\ content'[f] = content[f]
      BY <1>3, <2>1, <2>2, <2>4 DEF Named, TypeOK
    <3>2. PICK e \in Deployers : handle[e] = f /\ written[e] < k
      BY <1>2, <3>1 DEF Missing, ToBeWritten
    <3>3. e # d
      BY <1>3, <2>2, <3>2 DEF HandleInv, DeployInv
    <3> QED
      BY <2>1, <2>2, <3>2, <3>3 DEF ToBeWritten
  <2> QED
    BY <2>3, <2>4
<1>7. ASSUME NEW d \in Deployers, Write(d) PROVE ToBeWritten(f, k)'
  <2>1. /\ content' = [content EXCEPT ![handle[d]][written[d] + 1] = text[d]]
        /\ written' = [written EXCEPT ![d] = @ + 1]
        /\ UNCHANGED <<temporary, destination, handle>>
    BY <1>7 DEF Write
  <2>2. text[d] \in Texts /\ written[d] + 1 \in 1..Blocks
    <3>1. text[d] \in Texts
      BY <1>7 DEF Write, HandleInv, DeployInv, Ended
    <3>2. written[d] + 1 \in 1..Blocks
      BY <1>7, <3>1, Lengths DEF Write, AllOf, TypeOK
    <3> QED
      BY <3>1, <3>2
  <2>3. content[f] \in Data
    BY <1>3 DEF TypeOK
  <2>4. Missing(f, k) /\ ~(f = handle[d] /\ k = written[d] + 1)
    BY <1>3, <2>1, <2>2, <2>3 DEF Missing, TypeOK, Data
  <2>5. PICK e \in Deployers : handle[e] = f /\ written[e] < k
    BY <1>2, <2>1, <2>4 DEF Named, ToBeWritten
  <2>6. written'[e] < k
    BY <1>3, <2>1, <2>2, <2>4, <2>5 DEF TypeOK
  <2> QED
    BY <2>1, <2>5, <2>6 DEF ToBeWritten
<1>8. ASSUME NEW d \in Deployers, Replace(d) PROVE ToBeWritten(f, k)'
  <2>1. f \in Named
    BY <1>8 DEF Replace, Named
  <2> QED
    BY <1>5, <1>8, <2>1 DEF Replace, Goes
<1>9. ASSUME NEW d \in Deployers, ReplaceRaises(d) PROVE ToBeWritten(f, k)'
  <2>1. f \in Named
    BY <1>9 DEF ReplaceRaises, Named
  <2> QED
    BY <1>5, <1>9, <2>1 DEF ReplaceRaises, Abandon, Goes
<1>10. ASSUME NEW d \in Deployers, Crash(d) PROVE FALSE
  BY <1>10 DEF Crash
<1> QED
  BY <1>4, <1>6, <1>7, <1>8, <1>9, <1>10 DEF Next, Step, Stage, WriteStaged, Apply, vars

\* open, write and os.replace of deploy_plan: once all deploys have ended and
\* none has crashed, no part of the destination is missing that every text
\* has, however they overlapped; with texts of one length, none at all.
THEOREM NothingIsMissing == Spec => []NothingIsMissingAtRest
<1>1. Init => HolesInv
  BY DEF Init, HolesInv, Named
<1>2. TypeOK /\ HandleInv /\ HolesInv => NothingIsMissingAtRest
  <2> SUFFICES ASSUME TypeOK, HandleInv, HolesInv, destination # NoFile, Active = {},
                      "crash" \notin disturbed, NEW k \in 1..Blocks, Missing(destination, k),
                      \A t \in Texts : ~(Length[t] < k)
               PROVE  FALSE
    BY DEF NothingIsMissingAtRest, Missing
  <2>0. k \in InEveryText
    BY Lengths DEF InEveryText
  <2>1. PICK d \in Deployers : handle[d] = destination
    BY <2>0 DEF HolesInv, Named, ToBeWritten
  <2>2. destination \in Files
    BY DEF TypeOK
  <2>3. d \in Active
    BY <2>1, <2>2 DEF HandleInv, DeployInv, Active, Ended
  <2> QED
    BY <2>3
<1> QED
  BY <1>1, <1>2, StepHoles, HandlesCorrect, PTL DEF Spec

-----------------------------------------------------------------------------
(* Deploys that do not overlap.                                            *)

\* A step of a deploy that runs alone leaves nothing to show but what
\* concerns that deploy.
LEMMA OnlyOneDeploys ==
    ASSUME TypeOK, HandleInv, Solo, NEW d \in Active,
           \A e \in Deployers \ {d} : pc'[e] = pc[e] /\ text'[e] = text[e] /\ applied'[e] = applied[e],
           temporary' = NoFile \/ temporary' # destination',
           PlanInv(d)'
    PROVE  Solo'
<1>1. \A e \in Deployers \ {d} : pc[e] \in Ended /\ pc'[e] \in Ended
  BY DEF Solo, Alone, Active
<1>2. Alone'
  BY <1>1 DEF Alone, Active
<1>3. ASSUME NEW e \in Deployers \ {d} PROVE PlanInv(e)'
  <2>1. pc'[e] # "writing" /\ pc'[e] # "replaced"
    BY <1>1 DEF Ended
  <2>2. PlanInv(e)
    BY DEF Solo
  <2> QED
    BY <2>1, <2>2 DEF PlanInv
<1> QED
  BY <1>2, <1>3 DEF Solo

LEMMA StepSolo ==
    TypeOK /\ HandleInv /\ SoloInv /\ TypeOK' /\ [Next]_vars => SoloInv'
<1> SUFFICES ASSUME TypeOK, HandleInv, SoloInv, TypeOK', [Next]_vars,
                    "overlap" \notin disturbed'
             PROVE  Solo'
  BY DEF SoloInv
<1> USE NamesAssumption, BlocksAssumption
<1>1. Solo
  BY DEF SoloInv, Next, Step, Stage, WriteStaged, Open, Write, Replace, ReplaceRaises,
         Apply, Crash, vars
<1>2. ASSUME NEW d \in Deployers, NEW t \in Texts, NEW withTo \in Outlets, Stage(d, t, withTo)
      PROVE  Solo'
  <2>1. Active = {} /\ pc'[d] = "staging" /\ applied'[d] = Empty
    BY <1>2 DEF Stage, TypeOK
  <2>2. \A e \in Deployers \ {d} : pc[e] \in Ended /\ pc'[e] = pc[e]
    BY <1>2, <2>1 DEF Stage, Active
  <2>3. Alone'
    BY <2>2 DEF Alone, Active
  <2>4. ASSUME NEW e \in Deployers \ {d} PROVE PlanInv(e)'
    <3>1. pc'[e] # "writing" /\ pc'[e] # "replaced"
      BY <2>2 DEF Ended
    <3>2. PlanInv(e) /\ text'[e] = text[e] /\ applied'[e] = applied[e]
      BY <1>1, <1>2 DEF Solo, Stage
    <3> QED
      BY <2>2, <3>1, <3>2 DEF PlanInv
  <2>5. PlanInv(d)'
    BY <2>1 DEF PlanInv
  <2>6. temporary' = NoFile \/ temporary' # destination'
    BY <1>1, <1>2 DEF Solo, Stage
  <2> QED
    BY <2>3, <2>4, <2>5, <2>6 DEF Solo
<1>3. ASSUME NEW d \in Deployers, WriteStaged(d) PROVE Solo'
  <2>1. d \in Active /\ pc[d] = "staging" /\ applied[d] = Empty
    BY <1>1, <1>3 DEF WriteStaged, Goes, Active, Ended, Solo, PlanInv
  <2>2. /\ pc' = [pc EXCEPT ![d] = IF to[d] THEN "staged" ELSE "replaced"]
        /\ staged' = [staged EXCEPT ![text[d]] = Whole(text[d])]
        /\ UNCHANGED <<temporary, destination, text, to, applied>>
    BY <1>3 DEF WriteStaged, Goes
  <2>3. text[d] \in Texts
    BY <2>1 DEF HandleInv, DeployInv, Ended
  <2>4. PlanInv(d)'
    BY <2>1, <2>2, <2>3 DEF PlanInv, TypeOK
  <2> QED
    BY <1>1, <2>1, <2>2, <2>4, OnlyOneDeploys DEF Solo
<1>4. ASSUME NEW d \in Deployers, Open(d) PROVE Solo'
  <2>1. d \in Active /\ pc[d] = "staged" /\ applied[d] = Empty
    BY <1>1, <1>4 DEF Open, Goes, Active, Ended, Solo, PlanInv
  <2>2. PICK f \in Files : /\ IF temporary = NoFile THEN Unused(f) ELSE f = temporary
                           /\ temporary' = f
                           /\ handle' = [handle EXCEPT ![d] = f]
                           /\ content' = [content EXCEPT ![f] = Empty]
    BY <1>4 DEF Open
  <2>3. /\ pc' = [pc EXCEPT ![d] = "writing"]
        /\ written' = [written EXCEPT ![d] = 0]
        /\ UNCHANGED <<destination, text, applied>>
    BY <1>4 DEF Open, Goes
  <2>4. temporary' # destination'
    BY <1>1, <2>2, <2>3 DEF Solo, Unused
  <2>5. /\ pc'[d] = "writing" /\ handle'[d] = temporary' /\ 1..written'[d] = {}
        /\ applied'[d] = Empty
        /\ content'[temporary'] = Empty
    BY <2>1, <2>2, <2>3 DEF TypeOK
  <2>6. PlanInv(d)'
    BY <2>5 DEF PlanInv, Empty
  <2> QED
    BY <1>1, <2>1, <2>3, <2>4, <2>6, OnlyOneDeploys
<1>5. ASSUME NEW d \in Deployers, Write(d) PROVE Solo'
  <2>1. d \in Active /\ pc[d] = "writing" /\ applied[d] = Empty
    BY <1>1, <1>5 DEF Write, Active, Ended, Solo, PlanInv
  <2>2. /\ content' = [content EXCEPT ![handle[d]][written[d] + 1] = text[d]]
        /\ written' = [written EXCEPT ![d] = @ + 1]
        /\ UNCHANGED <<temporary, destination, handle, pc, text, applied>>
    BY <1>5 DEF Write
  <2>3. /\ handle[d] = temporary /\ handle[d] \in Files
        /\ \A k \in 1..written[d] : content[temporary][k] = text[d]
        /\ \A k \in 1..Blocks : k > written[d] => content[temporary][k] = Hole
    BY <1>1, <2>1 DEF Solo, PlanInv, HandleInv, DeployInv
  <2>4. written[d] + 1 \in 1..Blocks
    <3>1. text[d] \in Texts
      BY <2>1 DEF HandleInv, DeployInv, Ended
    <3> QED
      BY <1>5, <3>1, Lengths DEF Write, AllOf, TypeOK
  <2>5. content[temporary] \in Data
    BY <2>3 DEF TypeOK
  <2>6. content'[temporary] = [content[temporary] EXCEPT ![written[d] + 1] = text[d]]
    BY <2>2, <2>3 DEF TypeOK
  <2>7. /\ \A k \in 1..(written[d] + 1) : content'[temporary][k] = text[d]
        /\ \A k \in 1..Blocks : k > written[d] + 1 => content'[temporary][k] = Hole
    BY <2>3, <2>4, <2>5, <2>6 DEF Data, TypeOK
  <2>8. written'[d] = written[d] + 1
    BY <2>2 DEF TypeOK
  <2>9. PlanInv(d)'
    BY <2>1, <2>2, <2>3, <2>7, <2>8 DEF PlanInv
  <2> QED
    BY <1>1, <2>1, <2>2, <2>9, OnlyOneDeploys DEF Solo
<1>6. ASSUME NEW d \in Deployers, Replace(d) PROVE Solo'
  <2>1. d \in Active /\ pc[d] = "writing" /\ applied[d] = Empty
    BY <1>1, <1>6 DEF Replace, Goes, Active, Ended, Solo, PlanInv
  <2>2. /\ pc' = [pc EXCEPT ![d] = "replaced"]
        /\ temporary' = NoFile /\ destination' = temporary
        /\ content' = Freed /\ written[d] = AllOf(d)
        /\ UNCHANGED <<text, to, applied>>
    BY <1>6 DEF Replace, Goes
  <2>3. /\ temporary \in Files /\ to[d]
        /\ \A k \in 1..written[d] : content[temporary][k] = text[d]
        /\ \A k \in 1..Blocks : k > written[d] => content[temporary][k] = Hole
    BY <1>1, <2>1 DEF Solo, PlanInv, HandleInv, DeployInv
  <2>4. content[temporary] = Whole(text[d])
    <3>1. text[d] \in Texts
      BY <2>1 DEF HandleInv, DeployInv, Ended
    <3>2. content[temporary] \in Data /\ Length[text[d]] \in 1..Blocks
      BY <2>3, <3>1, Lengths DEF TypeOK
    <3>3. \A k \in 1..Blocks :
             content[temporary][k] = IF k <= Length[text[d]] THEN text[d] ELSE Hole
      BY <2>2, <2>3, <3>2 DEF AllOf
    <3> QED
      BY <3>2, <3>3 DEF Whole, Data
  <2>5. content'[destination'] = Whole(text[d])
    BY <2>2, <2>3, <2>4, NamedIsKept
  <2>6. PlanInv(d)'
    BY <2>1, <2>2, <2>3, <2>5 DEF PlanInv, TypeOK
  <2> QED
    BY <1>1, <2>1, <2>2, <2>6, OnlyOneDeploys
<1>7. ASSUME NEW d \in Deployers, Apply(d) PROVE Solo'
  <2>1. d \in Active /\ pc[d] = "replaced" /\ applied[d] = Empty
    BY <1>1, <1>7 DEF Apply, Goes, Active, Ended, Solo, PlanInv
  <2>2. /\ pc' = [pc EXCEPT ![d] = "published"]
        /\ applied' \in {applied, [applied EXCEPT ![d] = IF to[d] THEN content[destination]
                                                                  ELSE staged[text[d]]]}
        /\ UNCHANGED <<temporary, destination, text>>
    BY <1>7 DEF Apply, Goes
  <2>3. (IF to[d] THEN content[destination] ELSE staged[text[d]]) = Whole(text[d])
    BY <1>1, <2>1 DEF Solo, PlanInv
  <2>4. applied'[d] \in {Empty, Whole(text[d])} /\ pc'[d] = "published"
    BY <2>1, <2>2, <2>3 DEF TypeOK
  <2>5. PlanInv(d)'
    BY <2>2, <2>4 DEF PlanInv
  <2>6. \A e \in Deployers \ {d} : pc'[e] = pc[e] /\ text'[e] = text[e] /\ applied'[e] = applied[e]
    BY <2>2 DEF TypeOK
  <2> QED
    BY <1>1, <2>1, <2>2, <2>5, <2>6, OnlyOneDeploys DEF Solo
\* A deploy that stops leaves its names as they are.
<1>8. ASSUME NEW d \in Deployers, pc[d] \notin Ended, pc'[d] \in {"error", "crashed"},
             pc' = [pc EXCEPT ![d] = pc'[d]], Abandon(d), UNCHANGED <<temporary, destination, applied>>
      PROVE  Solo'
  <2>1. d \in Active /\ applied'[d] = Empty
    BY <1>1, <1>8 DEF Active, Solo, PlanInv, Ended
  <2>2. PlanInv(d)'
    BY <1>8, <2>1 DEF PlanInv
  <2>3. \A e \in Deployers \ {d} : pc'[e] = pc[e] /\ text'[e] = text[e] /\ applied'[e] = applied[e]
    BY <1>8 DEF Abandon, TypeOK
  <2> QED
    BY <1>1, <1>8, <2>1, <2>2, <2>3, OnlyOneDeploys DEF Solo
<1>9. ASSUME NEW d \in Deployers, ReplaceRaises(d) PROVE Solo'
  BY <1>8, <1>9 DEF ReplaceRaises, Goes, Ended, TypeOK
<1>10. ASSUME NEW d \in Deployers, Crash(d) PROVE Solo'
  BY <1>8, <1>10 DEF Crash, TypeOK
<1>11. CASE UNCHANGED vars
  BY <1>1, <1>11 DEF vars, Solo, Alone, Active, PlanInv
<1> QED
  BY <1>2, <1>3, <1>4, <1>5, <1>6, <1>7, <1>9, <1>10, <1>11 DEF Next, Step

\* deploy_plan, one at a time and with crashes: what it has written so far is
\* its own text, in a file that is not the destination.
THEOREM SoloCorrect == Spec => [](TypeOK /\ HandleInv /\ SoloInv)
<1>1. Init => SoloInv
  BY DEF Init, SoloInv, Solo, Alone, Active, Ended, PlanInv
<1> QED
  BY <1>1, StepSolo, HandlesCorrect, PTL DEF Spec

\* deploy_plan with --run: a deploy that nobody overlaps hands its command the
\* text of its own plan, whatever crashes have left behind.
THEOREM CommandsReadTheirPlan == Spec => []CommandReadsItsPlan
<1>1. SoloInv => CommandReadsItsPlan
  BY DEF SoloInv, Solo, PlanInv, CommandReadsItsPlan
<1> QED
  BY <1>1, SoloCorrect, PTL

-----------------------------------------------------------------------------
(* The destination is an atomic file.                                      *)

\* deploy_plan with --to: as long as deploys do not overlap, the destination
\* changes only when a temporary file with a whole configuration gets its name.
THEOREM PublishImplementsAtomicFile == Spec => ImplementsAtomicFile
<1> USE NamesAssumption, BlocksAssumption
<1> DEFINE file == IF "overlap" \in disturbed THEN Void ELSE Found
<1>1. Init => ATOMIC!Init
  BY DEF Init, ATOMIC!Init, Found
<1>2. TypeOK /\ HandleInv /\ SoloInv /\ TypeOK' /\ [Next]_vars => [ATOMIC!Next]_file
  <2> SUFFICES ASSUME TypeOK, HandleInv, SoloInv, TypeOK', [Next]_vars
               PROVE  ATOMIC!Next \/ file' = file
    OBVIOUS
  <2>1. CASE "overlap" \in disturbed'
    BY <2>1 DEF ATOMIC!Next, ATOMIC!Disturb
  <2>2. CASE "overlap" \notin disturbed'
    <3>1. "overlap" \notin disturbed /\ Solo
      BY <2>2 DEF SoloInv, Next, Step, Stage, WriteStaged, Open, Write, Replace,
                  ReplaceRaises, Apply, Crash, vars
    <3> SUFFICES file' = file \/ \E t \in Texts : ATOMIC!Replace(Whole(t))
      BY DEF ATOMIC!Next
    <3>2. ASSUME destination' = destination,
                 destination # NoFile => content'[destination] = content[destination]
          PROVE  file' = file
      BY <2>2, <3>1, <3>2 DEF Found
    <3>3. ASSUME destination' = destination, content' = Freed PROVE file' = file
      <4>1. destination # NoFile => content'[destination] = content[destination]
        BY <3>3, NamedIsKept DEF TypeOK
      <4> QED
        BY <3>2, <3>3, <4>1
    <3>4. ASSUME NEW d \in Deployers, Open(d) PROVE file' = file
      <4>1. PICK f \in Files : /\ IF temporary = NoFile THEN Unused(f) ELSE f = temporary
                               /\ content' = [content EXCEPT ![f] = Empty]
        BY <3>4 DEF Open
      <4>2. destination # f /\ destination' = destination
        BY <3>1, <3>4, <4>1 DEF Open, Solo, Unused
      <4>3. destination # NoFile => content'[destination] = content[destination]
        BY <4>1, <4>2 DEF TypeOK
      <4> QED
        BY <3>2, <4>2, <4>3
    <3>5. ASSUME NEW d \in Deployers, Write(d) PROVE file' = file
      <4>1. /\ content' = [content EXCEPT ![handle[d]][written[d] + 1] = text[d]]
            /\ destination' = destination /\ pc[d] = "writing"
        BY <3>5 DEF Write
      <4>2. handle[d] \in Files /\ handle[d] # destination
        BY <3>1, <4>1 DEF Solo, PlanInv, HandleInv, DeployInv
      <4>3. destination # NoFile => content'[destination] = content[destination]
        BY <4>1, <4>2 DEF TypeOK
      <4> QED
        BY <3>2, <4>1, <4>3
    <3>6. ASSUME NEW d \in Deployers, Replace(d) PROVE \E t \in Texts : ATOMIC!Replace(Whole(t))
      <4>1. pc'[d] = "replaced" /\ to'[d] /\ text'[d] \in Texts /\ destination' \in Files
        BY <3>6 DEF Replace, Goes, TypeOK, HandleInv, DeployInv, Ended
      <4>2. content'[destination'] = Whole(text'[d])
        <5>1. Solo'
          BY <2>2, StepSolo DEF SoloInv
        <5> QED
          BY <4>1, <5>1 DEF Solo, PlanInv
      <4>3. file' = Whole(text'[d])
        BY <2>2, <4>1, <4>2 DEF Found
      <4>4. file # Void
        BY <3>1 DEF Found, TypeOK, Data
      <4> QED
        BY <4>1, <4>3, <4>4 DEF ATOMIC!Replace
    <3> QED
      BY <3>2, <3>3, <3>4, <3>5, <3>6
         DEF Next, Step, Stage, WriteStaged, ReplaceRaises, Apply, Crash, vars
  <2> QED
    BY <2>1, <2>2
<1> QED
  BY <1>1, <1>2, SoloCorrect, PTL DEF Spec, ImplementsAtomicFile, ATOMIC!Spec
=============================================================================
