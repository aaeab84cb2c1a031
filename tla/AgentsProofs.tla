----------------------------- MODULE AgentsProofs -----------------------------
(***************************************************************************)
(* Proofs about what an agent starts from: the preset its init.json names, *)
(* its avatars and their rules, its registry of servers, the totals it     *)
(* makes again from its log, each by an invariant of its own; and the      *)
(* facts about numbers and about parts of sequences that they rest on.     *)
(***************************************************************************)
EXTENDS AgentSetup, Avatars, McpRegistry, SessionLog, CodexProofs

-----------------------------------------------------------------------------
(* AgentSetup: the preset and the molt                                     *)

AsInits == [active : AsPresets, default : AsPresets, allowed : SUBSET AsPresets,
            paths : SUBSET (AsPresets \cup {Own}), stale : BOOLEAN,
            seed : Texts, covenant : Texts, comment : Texts]
AsDisks == [lingtai : Texts, covenant : Texts, brief : Texts]

\* An init.json that boots: what it resolves to loads, and is allowed beside the default.
BootsWell(init, file) ==
  LET p == IF file[init.active] = "missing" /\ init.default # init.active THEN init.default ELSE init.active
  IN file[p] = "good" /\ p \in init.allowed /\ init.default \in init.allowed

AsSetInv ==
  /\ asInit \in AsInits /\ asDisk \in AsDisks
  /\ asFile \in [AsPresets -> {"good", "broken", "missing"}]
  /\ asSound => BootsWell(asInit, asFile) /\ asUp # "dead"

\* What the clean-up leaves of init.json.
LEMMA CleanIs ==
  ASSUME NEW init \in AsInits, NEW d, d = Cleaned(init)
  PROVE  /\ d \in AsInits /\ d.active = init.active /\ d.default = init.default
         /\ d.allowed = init.allowed /\ d.paths = init.paths /\ d.comment = init.comment
<1>0. d = [init EXCEPT !.stale = FALSE]
  BY DEF Cleaned
<1>1. d = [active |-> init.active, default |-> init.default, allowed |-> init.allowed, paths |-> init.paths,
           stale |-> FALSE, seed |-> init.seed, covenant |-> init.covenant, comment |-> init.comment]
  BY <1>0 DEF AsInits
<1>2. /\ init.active \in AsPresets /\ init.default \in AsPresets /\ init.allowed \in SUBSET AsPresets
      /\ init.paths \in SUBSET (AsPresets \cup {Own})
      /\ init.seed \in Texts /\ init.covenant \in Texts /\ init.comment \in Texts
  BY DEF AsInits
<1> QED BY <1>1, <1>2 DEF AsInits

\* A preset chosen for good is on the list afterwards, and the rest of the list stays.
LEMMA ActivatedIs ==
  ASSUME NEW init \in AsInits, NEW p \in AsPresets, NEW d, d = Activated(init, p)
  PROVE  /\ d \in AsInits /\ d.active = p /\ d.default = init.default /\ d.allowed = init.allowed \cup {p}
<1>1. PICK allowed : allowed = init.allowed \cup {p}
  OBVIOUS
<1>2. d = [init EXCEPT !.active = p, !.paths = {p}, !.allowed = allowed]
  BY <1>1 DEF Activated
<1>3. d = [active |-> p, default |-> init.default, allowed |-> allowed, paths |-> {p},
           stale |-> init.stale, seed |-> init.seed, covenant |-> init.covenant, comment |-> init.comment]
  BY <1>2 DEF AsInits
<1>4. /\ init.default \in AsPresets /\ init.allowed \in SUBSET AsPresets /\ init.stale \in BOOLEAN
      /\ init.seed \in Texts /\ init.covenant \in Texts /\ init.comment \in Texts
  BY DEF AsInits
<1> QED BY <1>1, <1>3, <1>4 DEF AsInits

LEMMA ChosenIs ==
  ASSUME NEW init \in AsInits
  PROVE  /\ Chosen(init) \in AsPresets
         /\ Chosen(init) = IF asFile[init.active] = "missing" /\ init.default # init.active
                           THEN init.default ELSE init.active
BY DEF Chosen, AsInits

\* What the default stands in for, once it does, is the default itself.
LEMMA MaterializedIs ==
  ASSUME NEW init \in AsInits
  PROVE  /\ Materialized(init) \in AsInits /\ Materialized(init).active = Chosen(init)
         /\ Materialized(init).default = init.default /\ Materialized(init).allowed = init.allowed
         /\ Materialized(init).stale = init.stale
<1>1. PICK p : p = Chosen(init)
  OBVIOUS
<1>2. PICK paths : paths = init.paths \cup {p}
  OBVIOUS
<1>3. p \in AsPresets /\ paths \in SUBSET (AsPresets \cup {Own})
  BY <1>1, <1>2, ChosenIs DEF AsInits
<1>4. PICK d : d = Materialized(init)
  OBVIOUS
<1>5. d = [init EXCEPT !.active = p, !.paths = paths]
  BY <1>1, <1>2, <1>4 DEF Materialized
<1>6. d = [active |-> p, default |-> init.default, allowed |-> init.allowed, paths |-> paths,
           stale |-> init.stale, seed |-> init.seed, covenant |-> init.covenant, comment |-> init.comment]
  BY <1>5 DEF AsInits
<1>7. /\ init.default \in AsPresets /\ init.allowed \in SUBSET AsPresets /\ init.stale \in BOOLEAN
      /\ init.seed \in Texts /\ init.covenant \in Texts /\ init.comment \in Texts
  BY DEF AsInits
<1>8. /\ d \in AsInits /\ d.active = p /\ d.default = init.default
      /\ d.allowed = init.allowed /\ d.stale = init.stale
  BY <1>3, <1>6, <1>7 DEF AsInits
<1> QED BY <1>1, <1>4, <1>8

LEMMA BootableIs ==
  ASSUME NEW init \in AsInits
  PROVE  Bootable(init) <=> BootsWell(init, asFile)
BY MaterializedIs, ChosenIs DEF Bootable, Valid, Loads, BootsWell

\* The clean-up at a boot, and what run() writes back, leave an init.json that resolves to the same.
LEMMA CleanedIs ==
  ASSUME AsSetInv, Loads(Chosen(asInit))
  PROVE  /\ CleanedAtBoot(asInit) \in AsInits /\ WrittenBack(asInit) \in AsInits
         /\ BootsWell(WrittenBack(asInit), asFile) <=> BootsWell(asInit, asFile)
         /\ Valid(CleanedAtBoot(Materialized(asInit))) <=> Valid(Materialized(asInit))
         /\ BootsWell(CleanedAtBoot(asInit), asFile) <=> BootsWell(asInit, asFile)
<1> DEFINE m == Materialized(asInit)
<1>1. /\ m \in AsInits /\ m.active = Chosen(asInit) /\ m.default = asInit.default
      /\ m.allowed = asInit.allowed /\ m.stale = asInit.stale /\ asInit \in AsInits
  BY MaterializedIs DEF AsSetInv
<1>2. asFile[m.active] = "good"
  BY <1>1 DEF Loads
<1>3. Chosen(m) = m.active
  BY <1>1, <1>2, ChosenIs
<1>4. PICK n : n = Materialized(m)
  OBVIOUS
<1>5. n \in AsInits /\ n.active = m.active /\ n.default = m.default /\ n.allowed = m.allowed
  BY <1>1, <1>3, <1>4, MaterializedIs
<1> HIDE DEF m
<1>6. /\ Cleaned(m) \in AsInits /\ Cleaned(m).active = m.active /\ Cleaned(m).default = m.default
      /\ Cleaned(m).allowed = m.allowed
  BY <1>1, CleanIs
<1>7. /\ Cleaned(n).active = m.active /\ Cleaned(n).default = m.default
      /\ Cleaned(n).allowed = m.allowed
  BY <1>1, <1>5, CleanIs
<1>8. CleanedAtBoot(asInit) = IF asInit.stale THEN Cleaned(m) ELSE asInit
  BY DEF CleanedAtBoot, m
<1>9. CleanedAtBoot(m) = IF asInit.stale THEN Cleaned(n) ELSE m
  BY <1>1, <1>4 DEF CleanedAtBoot
<1>10. Valid(CleanedAtBoot(m)) <=> Valid(m)
  BY <1>1, <1>7, <1>9 DEF Valid
<1>11. m.active = IF asFile[asInit.active] = "missing" /\ asInit.default # asInit.active
                  THEN asInit.default ELSE asInit.active
  BY <1>1, ChosenIs
<1>12. BootsWell(Cleaned(m), asFile) <=> BootsWell(asInit, asFile)
  <2>1. BootsWell(Cleaned(m), asFile) <=> m.active \in m.allowed /\ m.default \in m.allowed
    BY <1>2, <1>6 DEF BootsWell
  <2>2. BootsWell(asInit, asFile) <=> m.active \in m.allowed /\ m.default \in m.allowed
    BY <1>1, <1>2, <1>11 DEF BootsWell
  <2> QED BY <2>1, <2>2
<1>13. WrittenBack(asInit) = Cleaned(m)
  BY DEF WrittenBack, m
<1> QED BY <1>1, <1>6, <1>8, <1>10, <1>12, <1>13 DEF m

\* The files of system/ after the texts of init.json are mirrored into them.
LEMMA DiskWith ==
  ASSUME NEW files \in AsDisks, NEW x, NEW y, NEW d, d = [files EXCEPT !.lingtai = x, !.covenant = y]
  PROVE  d = [lingtai |-> x, covenant |-> y, brief |-> files.brief]
BY DEF AsDisks

LEMMA DiskIs ==
  ASSUME NEW init \in AsInits, NEW files \in AsDisks
  PROVE  DiskAfter(init, files) \in AsDisks
<1>1. PICK x, y : x = OrElse(init.seed, files.lingtai) /\ y = OrElse(init.covenant, files.covenant)
  OBVIOUS
<1>d. PICK d : d = DiskAfter(init, files)
  OBVIOUS
<1>2. d = [files EXCEPT !.lingtai = x, !.covenant = y]
  BY <1>1, <1>d DEF DiskAfter, AsDisks
<1>3. d = [lingtai |-> x, covenant |-> y, brief |-> files.brief]
  BY <1>2, DiskWith
<1>4. init.seed \in Texts /\ init.covenant \in Texts /\ files.lingtai \in Texts /\ files.covenant \in Texts
      /\ files.brief \in Texts
  BY DEF AsInits, AsDisks
<1>5. x \in Texts /\ y \in Texts
  BY <1>1, <1>4 DEF OrElse
<1> QED BY <1>d, <1>3, <1>4, <1>5 DEF AsDisks

\* The operator's edits; what they leave is his.
LEMMA EditKeeps ==
  ASSUME AsSetInv, AsEditPresets \/ AsEditTexts \/ AsEditFile \/ AsEditDisk
  PROVE  AsSetInv'
<1>1. ~asSound'
  BY DEF AsEditPresets, AsEditTexts, AsEditFile, AsEditDisk, Edits
<1>2. asInit \in AsInits /\ asDisk \in AsDisks /\ asFile \in [AsPresets -> {"good", "broken", "missing"}]
  BY DEF AsSetInv
<1>3. asInit' \in AsInits
  <2>1. CASE AsEditPresets
    <3>1. PICK a \in AsPresets, d \in AsPresets, l \in SUBSET AsPresets :
            asInit' = [asInit EXCEPT !.active = a, !.default = d, !.allowed = l]
      BY <2>1 DEF AsEditPresets, Edits
    <3>2. asInit' = [active |-> a, default |-> d, allowed |-> l, paths |-> asInit.paths,
                     stale |-> asInit.stale, seed |-> asInit.seed, covenant |-> asInit.covenant,
                     comment |-> asInit.comment]
      BY <3>1, <1>2 DEF AsInits
    <3> QED BY <3>2, <1>2 DEF AsInits
  <2>2. CASE AsEditTexts
    <3>1. PICK s \in {"", "operator"}, c \in {"", "operator"}, m \in {"", "operator"}, stale \in BOOLEAN :
            asInit' = [asInit EXCEPT !.seed = s, !.covenant = c, !.comment = m, !.stale = stale]
      BY <2>2 DEF AsEditTexts, Edits
    <3>2. asInit' = [active |-> asInit.active, default |-> asInit.default, allowed |-> asInit.allowed,
                     paths |-> asInit.paths, stale |-> stale, seed |-> s, covenant |-> c, comment |-> m]
      BY <3>1, <1>2 DEF AsInits
    <3>3. s \in Texts /\ c \in Texts /\ m \in Texts
      BY DEF Texts
    <3> QED BY <3>2, <3>3, <1>2 DEF AsInits
  <2>3. CASE AsEditFile \/ AsEditDisk
    BY <2>3, <1>2 DEF AsEditFile, AsEditDisk, Edits
  <2> QED BY <2>1, <2>2, <2>3
<1>4. asDisk' \in AsDisks
  <2>1. CASE AsEditDisk
    <3>1. PICK b \in {"", "operator"}, c \in {"", "operator"} : asDisk' = [asDisk EXCEPT !.brief = b, !.covenant = c]
      BY <2>1 DEF AsEditDisk, Edits
    <3>2. asDisk' = [lingtai |-> asDisk.lingtai, covenant |-> c, brief |-> b]
      BY <3>1, <1>2 DEF AsDisks
    <3> QED BY <3>2, <1>2 DEF AsDisks, Texts
  <2>2. CASE ~AsEditDisk
    BY <2>2, <1>2 DEF AsEditPresets, AsEditTexts, AsEditFile, Edits
  <2> QED BY <2>1, <2>2
<1>5. asFile' \in [AsPresets -> {"good", "broken", "missing"}]
  BY <1>2 DEF AsEditPresets, AsEditTexts, AsEditFile, AsEditDisk, Edits
<1> QED BY <1>1, <1>3, <1>4, <1>5 DEF AsSetInv

LEMMA BootKeeps ==
  ASSUME AsSetInv, AsBoot
  PROVE  AsSetInv'
<1>1. asInit \in AsInits /\ asDisk \in AsDisks /\ asFile \in [AsPresets -> {"good", "broken", "missing"}]
      /\ asFile' = asFile
  BY DEF AsSetInv, AsBoot
<1>2. CASE Loads(Chosen(asInit)) /\ Valid(CleanedAtBoot(Materialized(asInit)))
  <2>1. /\ asInit' \in {CleanedAtBoot(asInit), WrittenBack(asInit)}
        /\ asUp' = "up" /\ asDisk' = DiskAfter(asInit, asDisk)
    BY <1>2 DEF AsBoot, Reloaded
  <2>2. BootsWell(asInit, asFile)
    <3>1. Valid(Materialized(asInit))
      BY <1>2, CleanedIs
    <3> QED BY <3>1, <1>1, <1>2, BootableIs DEF Bootable
  <2>3. asInit' \in AsInits /\ BootsWell(asInit', asFile')
    BY <2>1, <2>2, <1>1, <1>2, CleanedIs
  <2>5. asDisk' \in AsDisks
    BY <2>1, <1>1, DiskIs
  <2> QED BY <2>1, <2>3, <2>5, <1>1 DEF AsSetInv
<1>3. CASE ~(Loads(Chosen(asInit)) /\ Valid(CleanedAtBoot(Materialized(asInit))))
  <2>1. asSound' = asSound /\ asDisk' = asDisk
    BY <1>3 DEF AsBoot
  <2>2. ~asSound
    <3> SUFFICES ASSUME BootsWell(asInit, asFile) PROVE FALSE
      BY DEF AsSetInv
    <3>1. Loads(Chosen(asInit)) /\ Valid(Materialized(asInit))
      BY <1>1, BootableIs DEF Bootable
    <3> QED BY <3>1, <1>3, CleanedIs
  <2>3. asInit' \in AsInits
    <3>1. CASE Loads(Chosen(asInit))
      BY <3>1, <1>1, <1>3, CleanedIs DEF AsBoot
    <3>2. CASE ~Loads(Chosen(asInit))
      BY <3>2, <1>1, <1>3 DEF AsBoot
    <3> QED BY <3>1, <3>2
  <2> QED BY <2>1, <2>2, <2>3, <1>1 DEF AsSetInv
<1> QED BY <1>2, <1>3

LEMMA SwapKeeps ==
  ASSUME AsSetInv, AsSwap \/ AsFallback
  PROVE  AsSetInv'
<1>1. asInit \in AsInits /\ UNCHANGED <<asFile, asDisk>> /\ asUp' = "down"
  BY DEF AsSetInv, AsSwap, AsFallback, Down
<1>2. PICK p \in AsPresets : /\ asInit' = Activated(asInit, p) /\ asFile[p] = "good"
                             /\ AsFallback => p = asInit.default
  BY <1>1 DEF AsSwap, AsFallback, Loads, AsInits
<1>3. /\ asInit' \in AsInits /\ asInit'.active = p /\ asInit'.default = asInit.default
      /\ asInit'.allowed = asInit.allowed \cup {p}
  BY <1>1, <1>2, ActivatedIs
<1>4. ASSUME asSound' PROVE asInit.default \in asInit'.allowed
  <2>1. CASE AsFallback
    BY <2>1, <1>2, <1>3
  <2>2. CASE ~AsFallback
    <3>1. BootsWell(asInit, asFile)
      BY <2>2, <1>4 DEF AsSwap, AsSetInv
    <3> QED BY <3>1, <1>3 DEF BootsWell
  <2> QED BY <2>1, <2>2
<1>5. ASSUME asSound' PROVE BootsWell(asInit', asFile')
  BY <1>1, <1>2, <1>3, <1>4, <1>5 DEF BootsWell
<1> QED BY <1>1, <1>3, <1>5 DEF AsSetInv

LEMMA RunKeeps ==
  ASSUME AsSetInv, AsAuthors \/ AsRefresh \/ AsFallbackFails \/ AsRelaunch \/ AsMolt \/ UNCHANGED asVars
  PROVE  AsSetInv'
<1>1. asInit \in AsInits /\ asDisk \in AsDisks /\ asFile' = asFile
      /\ asFile \in [AsPresets -> {"good", "broken", "missing"}] /\ asSound' = asSound
  BY DEF AsSetInv, AsAuthors, AsRefresh, AsFallbackFails, AsRelaunch, AsMolt, asVars, Down
<1>2. asInit' \in AsInits /\ (BootsWell(asInit, asFile) => BootsWell(asInit', asFile'))
  <2>1. CASE AsMolt
    <3>1. /\ asInit' \in AsInits /\ asInit'.active = asInit.active /\ asInit'.default = asInit.default
          /\ asInit'.allowed = asInit.allowed
      BY <2>1, <1>1, CleanIs DEF AsMolt
    <3> QED BY <3>1, <1>1 DEF BootsWell
  <2>2. CASE ~AsMolt
    BY <2>2, <1>1 DEF AsAuthors, AsRefresh, AsFallbackFails, AsRelaunch, asVars
  <2> QED BY <2>1, <2>2
<1>3. asDisk' \in AsDisks
  <2>1. CASE AsAuthors
    <3>1. asDisk' = [asDisk EXCEPT !.lingtai = "agent"]
      BY <2>1 DEF AsAuthors
    <3>2. asDisk' = [lingtai |-> "agent", covenant |-> asDisk.covenant, brief |-> asDisk.brief]
      BY <3>1, <1>1 DEF AsDisks
    <3> QED BY <3>2, <1>1 DEF AsDisks, Texts
  <2>2. CASE AsMolt
    <3>1. asDisk' = DiskAfter(asInit, asDisk) \/ asDisk' = asDisk
      BY <2>2 DEF AsMolt, Reloaded
    <3> QED BY <3>1, <1>1, DiskIs
  <2>3. CASE ~AsAuthors /\ ~AsMolt
    BY <2>3, <1>1 DEF AsRefresh, AsFallbackFails, AsRelaunch, asVars, Down
  <2> QED BY <2>1, <2>2, <2>3
<1>4. asUp' = "dead" => asUp = "dead"
  BY DEF AsAuthors, AsRefresh, AsFallbackFails, AsRelaunch, AsMolt, asVars, Down
<1>5. ASSUME asSound' PROVE BootsWell(asInit', asFile') /\ asUp' # "dead"
  BY <1>1, <1>2, <1>4, <1>5 DEF AsSetInv
<1> QED BY <1>1, <1>2, <1>3, <1>5 DEF AsSetInv

LEMMA SetupAlways == AsSpec => []AsSetInv
<1>1. AsInit => AsSetInv
  <2> SUFFICES ASSUME AsInit PROVE AsSetInv
    OBVIOUS
  <2>1. PICK p \in AsPresets :
          asInit = [active |-> p, default |-> p, allowed |-> AsPresets, paths |-> {Own},
                    stale |-> FALSE, seed |-> "operator", covenant |-> "operator", comment |-> ""]
    BY DEF AsInit
  <2>2. asInit \in AsInits
    BY <2>1 DEF AsInits, Texts
  <2> QED BY <2>2 DEF AsInit, AsSetInv, AsDisks, Texts
<1>2. AsSetInv /\ [AsNext]_asVars => AsSetInv'
  BY EditKeeps, BootKeeps, SwapKeeps, RunKeeps DEF AsNext
<1> QED BY <1>1, <1>2, PTL DEF AsSpec

\* As long as only the agent touched its configuration since a boot or a fallback, the next
\* launch succeeds, for any presets and edits.
THEOREM ChosenBoots == AsSpec => []ChoiceBoots
<1>1. AsSetInv => ChoiceBoots
  BY BootableIs DEF AsSetInv, ChoiceBoots
<1> QED BY <1>1, SetupAlways, PTL

\* A molt composes what a refresh would, and leaves the preset it resolved out of init.json.
THEOREM MoltsAgree == AsSpec => MoltAgrees
<1>1. ASSUME AsSetInv, AsMolt
      PROVE  /\ asInit'.paths = asInit.paths /\ asInit'.active = asInit.active
             /\ \A s \in Sections \ {"covenant"} :
                  Bootable(asInit) =>
                    asSection'[s] = Composed(asInit', asDisk', Empty)[s]
  <2>0. asInit \in AsInits
    BY <1>1 DEF AsSetInv
  <2>1. asInit'.paths = asInit.paths /\ asInit'.active = asInit.active /\ asInit'.comment = asInit.comment
    BY <2>0, <1>1, CleanIs DEF AsMolt
  <2>2. ASSUME NEW s \in Sections \ {"covenant"}, Bootable(asInit)
        PROVE  asSection'[s] = Composed(asInit', asDisk', Empty)[s]
    <3>1. asSection' = Composed(asInit, asDisk', asSection)
      BY <1>1, <2>2 DEF AsMolt, Reloaded
    <3>2. s \in {"character", "brief", "comment"}
      BY DEF Sections
    <3> QED BY <2>1, <3>1, <3>2 DEF Composed
  <2> QED BY <2>1, <2>2
<1>2. AsSetInv /\ [AsNext]_asVars =>
        [AsMolt => /\ asInit'.paths = asInit.paths /\ asInit'.active = asInit.active
                   /\ \A s \in Sections \ {"covenant"} :
                        Bootable(asInit) =>
                          asSection'[s] = Composed(asInit', asDisk', Empty)[s]]_asVars
  BY <1>1
<1> QED BY <1>2, SetupAlways, PTL DEF AsSpec, MoltAgrees

\* What a process shows and runs with is of its type.
AsShown ==
  /\ asSection \in [Sections -> Texts]
  /\ asRuns \in [active : AsPresets \cup {""}, paths : SUBSET (AsPresets \cup {Own}), tried : BOOLEAN]
  /\ asUp \in {"up", "down", "dead"} /\ asMine \in BOOLEAN /\ asSound \in BOOLEAN
  /\ asEdits \in 0..AsEdits /\ asBoots \in 0..AsBoots

LEMMA ComposedIs ==
  ASSUME AsSetInv, NEW section \in [Sections -> Texts], Reloaded(asInit, section)
  PROVE  asSection' \in [Sections -> Texts]
<1>1. PICK d : d = asDisk'
  OBVIOUS
<1>2. asDisk' = DiskAfter(asInit, asDisk) /\ asSection' = Composed(asInit, DiskAfter(asInit, asDisk), section)
  BY DEF Reloaded
<1>3. d \in AsDisks /\ asInit \in AsInits
  BY <1>1, <1>2, DiskIs DEF AsSetInv
<1>4. asSection' = [character |-> d.lingtai, covenant |-> OrElse(d.covenant, section.covenant),
                    brief |-> d.brief, comment |-> asInit.comment]
  BY <1>1, <1>2 DEF Composed
<1>5. d.lingtai \in Texts /\ d.covenant \in Texts /\ d.brief \in Texts /\ asInit.comment \in Texts
  BY <1>3 DEF AsDisks, AsInits
<1>6. section.covenant \in Texts
  BY DEF Sections
<1>7. OrElse(d.covenant, section.covenant) \in Texts
  BY <1>5, <1>6 DEF OrElse
<1>8. asSection' \in [character : Texts, covenant : Texts, brief : Texts, comment : Texts]
  BY <1>4, <1>5, <1>7
<1>9. \A f \in [character : Texts, covenant : Texts, brief : Texts, comment : Texts] :
        f \in [{"character", "covenant", "brief", "comment"} -> Texts]
  <2> SUFFICES ASSUME NEW f \in [character : Texts, covenant : Texts, brief : Texts, comment : Texts]
               PROVE  f \in [{"character", "covenant", "brief", "comment"} -> Texts]
    OBVIOUS
  <2> QED OBVIOUS
<1> QED BY <1>8, <1>9 DEF Sections

LEMMA ShownKeeps == ASSUME AsSetInv, AsSetInv', AsShown, [AsNext]_asVars PROVE AsShown'
<1>1. CASE AsEditPresets \/ AsEditTexts \/ AsEditFile \/ AsEditDisk
  <2>1. /\ asEdits < AsEdits /\ asEdits' = asEdits + 1 /\ asSound' = FALSE
        /\ UNCHANGED <<asSection, asRuns, asUp, asMine, asBoots>>
    BY <1>1 DEF AsEditPresets, AsEditTexts, AsEditFile, AsEditDisk, Edits
  <2>2. asEdits' \in 0..AsEdits
    <3>1. asEdits \in 0..AsEdits /\ AsEdits \in Nat
      BY SetupAssumption DEF AsShown
    <3> QED BY <2>1, <3>1
  <2> QED BY <2>1, <2>2 DEF AsShown
<1>2. CASE AsAuthors
  <2>1. asSection' = [asSection EXCEPT !.character = "agent"] /\ asMine' = TRUE
        /\ UNCHANGED <<asRuns, asUp, asSound, asEdits, asBoots>>
    BY <1>2 DEF AsAuthors
  <2>2. asSection' \in [Sections -> Texts]
    BY <2>1 DEF AsShown, Texts
  <2> QED BY <2>1, <2>2 DEF AsShown
<1>3. CASE AsSwap \/ AsRefresh \/ AsFallback \/ AsRelaunch
  BY <1>3 DEF AsShown, AsSwap, AsRefresh, AsFallback, AsRelaunch, Down
<1>4. CASE AsFallbackFails
  <2>1. asRuns' = [asRuns EXCEPT !.tried = TRUE] /\ UNCHANGED <<asSection, asUp, asMine, asSound, asEdits, asBoots>>
    BY <1>4 DEF AsFallbackFails
  <2>2. \A r \in [active : AsPresets \cup {""}, paths : SUBSET (AsPresets \cup {Own}), tried : BOOLEAN] :
          [r EXCEPT !.tried = TRUE] \in
            [active : AsPresets \cup {""}, paths : SUBSET (AsPresets \cup {Own}), tried : BOOLEAN]
    OBVIOUS
  <2> QED BY <2>1, <2>2 DEF AsShown
<1>5. CASE AsBoot
  <2>1. /\ asBoots < AsBoots /\ asBoots' = asBoots + 1 /\ UNCHANGED <<asMine, asEdits>>
        /\ asUp' \in {"up", "dead"} /\ asSound' \in {asSound, TRUE}
        /\ UNCHANGED asSection \/ Reloaded(asInit, Empty)
        /\ \/ UNCHANGED asRuns
           \/ asRuns' = [active |-> Chosen(asInit), paths |-> Materialized(asInit).paths, tried |-> FALSE]
    BY <1>5 DEF AsBoot
  <2>2. asBoots' \in 0..AsBoots
    <3>1. asBoots \in 0..AsBoots /\ AsBoots \in Nat
      BY SetupAssumption DEF AsShown
    <3> QED BY <2>1, <3>1
  <2>3. asSection' \in [Sections -> Texts]
    <3>1. Empty \in [Sections -> Texts]
      BY DEF Empty, Texts
    <3> QED BY <2>1, <3>1, ComposedIs DEF AsShown
  <2>4. PICK p, paths : p = Chosen(asInit) /\ paths = Materialized(asInit).paths
    OBVIOUS
  <2>5. p \in AsPresets /\ paths \in SUBSET (AsPresets \cup {Own})
    <3>1. Materialized(asInit) \in AsInits
      BY MaterializedIs DEF AsSetInv
    <3>2. Materialized(asInit).active = Chosen(asInit)
      BY MaterializedIs DEF AsSetInv
    <3> QED BY <2>4, <3>1, <3>2 DEF AsInits
  <2>6. asRuns' \in [active : AsPresets \cup {""}, paths : SUBSET (AsPresets \cup {Own}), tried : BOOLEAN]
    <3>1. CASE UNCHANGED asRuns
      BY <3>1 DEF AsShown
    <3>2. CASE asRuns' = [active |-> p, paths |-> paths, tried |-> FALSE]
      BY <2>5, <3>2
    <3> QED BY <2>1, <2>4, <3>1, <3>2
  <2> QED BY <2>1, <2>2, <2>3, <2>6 DEF AsShown
<1>6. CASE AsMolt
  <2>1. /\ UNCHANGED <<asRuns, asUp, asMine, asSound, asEdits, asBoots>>
        /\ UNCHANGED asSection \/ Reloaded(asInit, asSection)
    BY <1>6 DEF AsMolt
  <2>2. asSection' \in [Sections -> Texts]
    BY <2>1, ComposedIs DEF AsShown
  <2> QED BY <2>1, <2>2 DEF AsShown
<1>7. CASE UNCHANGED asVars
  BY <1>7 DEF AsShown, asVars
<1> QED BY <1>1, <1>2, <1>3, <1>4, <1>5, <1>6, <1>7 DEF AsNext

LEMMA AsTypes == AsSpec => []AsTypeOK
<1>1. AsInit => AsShown
  <2> SUFFICES ASSUME AsInit PROVE AsShown
    OBVIOUS
  <2>1. asSection \in [Sections -> Texts]
    BY DEF AsInit, Empty, Texts
  <2>2. asRuns \in [active : AsPresets \cup {""}, paths : SUBSET (AsPresets \cup {Own}), tried : BOOLEAN]
    BY DEF AsInit, Unloaded
  <2>3. 0 \in 0..AsEdits /\ 0 \in 0..AsBoots
    BY SetupAssumption
  <2>4. asUp = "down" /\ asMine = FALSE /\ asSound = FALSE /\ asEdits = 0 /\ asBoots = 0
    BY DEF AsInit
  <2> QED BY <2>1, <2>2, <2>3, <2>4 DEF AsShown
<1>2. AsSetInv /\ AsShown => AsTypeOK
  BY DEF AsSetInv, AsInits, AsDisks, AsShown, AsTypeOK
<1> QED BY <1>1, <1>2, ShownKeeps, SetupAlways, PTL DEF AsSpec

-----------------------------------------------------------------------------
(* Avatars: the tree and its rules                                         *)

AvCallAt == {"idle", "make", "wait", "read", "walk", "write"}
AvCalls == [at : AvCallAt, child : AvAgents \cup {0}, rules : Nat, todo : SUBSET AvAgents]
AvBeats == [at : {"idle", "read", "unlinked"}, rules : Nat]

AvCore ==
  /\ avDir \subseteq AvAgents /\ Top \in avDir
  /\ avUp \subseteq avHeart /\ avHeart \subseteq avDir
  /\ avProc \in [AvAgents -> [AvAgents -> {"none", "booting", "up", "exited"}]]
  /\ avLedger \in [AvAgents -> SUBSET [child : AvAgents, boot : {"ok", "failed", "slow"}]]
  /\ avRules \in [AvAgents -> Nat] /\ avSignal \in [AvAgents -> Nat]
  /\ avBeat \in [AvAgents -> AvBeats] /\ avCall \in [AvAgents -> AvCalls]
  /\ avSet \in Nat /\ avCrossed \in BOOLEAN

\* Every directory but the top's was made by a call, at or past its wait, for a process
\* that was never one before; only an agent that came up calls or has a ledger.
AvBorn ==
  /\ \A p, c \in AvAgents : avProc[p][c] # "none" => c \in avDir /\ c # Top
  /\ \A p \in AvAgents :
       /\ avCall[p].at = "make" =>
            avCall[p].child \in AvAgents /\ avCall[p].child # Top /\ avProc[p][avCall[p].child] = "none"
       /\ avCall[p].at = "wait" =>
            avCall[p].child \in avDir /\ avCall[p].child # Top /\ avProc[p][avCall[p].child] # "none"
       /\ avCall[p].at = "read" => avCall[p].child \in Children(p)
       /\ \A r \in avLedger[p] : r.child \in avDir
       /\ avCall[p].at # "idle" \/ avLedger[p] # {} => p \in avHeart
  /\ \A c \in avHeart \ {Top} : \E q \in AvAgents : avProc[q][c] = "up"

\* Nothing is of rules that were never set.
AvNumbers ==
  \A a \in AvAgents : avRules[a] <= avSet /\ avSignal[a] <= avSet /\ avBeat[a].rules <= avSet
                      /\ avCall[a].rules <= avSet

\* The rules an agent will have when its heartbeat thread is through.
Final(a) == IF avSignal[a] # 0 THEN avSignal[a]
            ELSE IF avBeat[a].at # "idle" THEN avBeat[a].rules ELSE avRules[a]

\* The children of an agent, with the one it waits for.
Offspring(p) == Children(p) \cup (IF avCall[p].at = "wait" THEN {avCall[p].child} ELSE {})

\* A directory was made once, by an older one, and all of them below the top.
AvTree ==
  /\ \A p, q, c \in AvAgents : avProc[p][c] # "none" /\ avProc[q][c] # "none" => p = q
  /\ \A s \in SUBSET AvAgents : Top \in s /\ (\A b \in s : Offspring(b) \subseteq s) => avDir \subseteq s
  /\ \E age \in [AvAgents -> Nat] : \A p \in AvAgents : \A a \in Offspring(p) : age[p] < age[a]

\* An agent that runs or may come to run, and one whose rules are on their way: a call
\* has it on its list, or will have, once its newborn is through or it has looked.
Alive(a) == a \in avHeart \/ \E p \in AvAgents : avProc[p][a] = "booting"
Raises(p, root) == avCall[p].at \in {"wait", "read"} /\ avCall[p].child = root
Hands(p) == avCall[p].at \in {"walk", "write"}
Promised(p, a) ==
  \/ \E root \in AvAgents : Raises(p, root) /\ a \in Reach(root)
  \/ avCall[p].at = "walk" /\ avCall[p].rules = avSet /\ a \in Below(p)
  \/ avCall[p].at = "write" /\ avCall[p].rules = avSet /\ a \in avCall[p].todo
Owed(a) == \E p \in AvAgents : Promised(p, a)

\* Who hands out rules that are not the last is below a newborn whose parent will.
AvOwed ==
  /\ \A a \in AvAgents : avBeat[a].at = "read" => avSignal[a] = avBeat[a].rules
  /\ \A p \in AvAgents : avCall[p].at = "write" => avCall[p].todo \subseteq Below(p)
  /\ \A p \in AvAgents : Hands(p) /\ avCall[p].rules # avSet =>
       \E q, root \in AvAgents : Raises(q, root) /\ p \in Reach(root)
  /\ \A a \in AvAgents : Alive(a) => Final(a) = avSet \/ Owed(a)

AvInv == AvCore /\ AvBorn /\ AvNumbers /\ BootIsTrue /\ (~avCrossed => AvTree /\ AvOwed)

LEMMA AvFacts ==
  ASSUME AvInv
  PROVE  /\ avDir \subseteq AvAgents /\ Top \in avDir /\ Top \in AvAgents
         /\ avUp \subseteq avHeart /\ avHeart \subseteq avDir
         /\ avProc \in [AvAgents -> [AvAgents -> {"none", "booting", "up", "exited"}]]
         /\ avLedger \in [AvAgents -> SUBSET [child : AvAgents, boot : {"ok", "failed", "slow"}]]
         /\ avRules \in [AvAgents -> Nat] /\ avSignal \in [AvAgents -> Nat]
         /\ avBeat \in [AvAgents -> AvBeats] /\ avCall \in [AvAgents -> AvCalls]
         /\ avSet \in Nat /\ avCrossed \in BOOLEAN
BY DEF AvInv, AvCore

\* What it is for a process, a call or a heartbeat to move.
LEMMA ProcIs ==
  ASSUME AvInv, NEW p \in AvAgents, NEW c \in AvAgents, NEW v \in {"booting", "up", "exited"},
         avProc' = [avProc EXCEPT ![p][c] = v]
  PROVE  /\ avProc' \in [AvAgents -> [AvAgents -> {"none", "booting", "up", "exited"}]]
         /\ avProc'[p][c] = v
         /\ \A q, d \in AvAgents : q # p \/ d # c => avProc'[q][d] = avProc[q][d]
BY AvFacts

LEMMA CallMoves ==
  ASSUME AvInv, NEW p \in AvAgents, NEW c \in AvCalls, Goes(p, c)
  PROVE  /\ avCall' \in [AvAgents -> AvCalls] /\ avCall'[p] = c
         /\ \A q \in AvAgents : q # p => avCall'[q] = avCall[q]
BY AvFacts DEF Goes

LEMMA CallAdvances ==
  ASSUME NEW c \in AvCalls, NEW at \in AvCallAt, NEW d, d = [c EXCEPT !.at = at]
  PROVE  d \in AvCalls /\ d.at = at /\ d.child = c.child /\ d.rules = c.rules /\ d.todo = c.todo
<1>1. d = [at |-> at, child |-> c.child, rules |-> c.rules, todo |-> c.todo]
  BY DEF AvCalls
<1>2. c.child \in AvAgents \cup {0} /\ c.rules \in Nat /\ c.todo \in SUBSET AvAgents
  BY DEF AvCalls
<1> QED BY <1>1, <1>2 DEF AvCalls

LEMMA NoAvatarCallIs ==
  NoAvatarCall \in AvCalls /\ NoAvatarCall.at = "idle" /\ NoAvatarCall.rules = 0
BY DEF NoAvatarCall, AvCalls, AvCallAt

\* Reach: the root, and with each the children of it.
LEMMA ReachHas ==
  ASSUME AvInv, NEW root \in AvAgents
  PROVE  /\ root \in Reach(root) /\ Reach(root) \subseteq AvAgents
         /\ \A b \in Reach(root) : Children(b) \subseteq Reach(root) /\ Reach(b) \subseteq Reach(root)
<1>1. root \in Reach(root) /\ Reach(root) \subseteq AvAgents
  BY DEF Reach
<1>2. ASSUME NEW b \in Reach(root), NEW a \in Children(b) PROVE a \in Reach(root)
  <2>1. a \in AvAgents
    BY AvFacts DEF Children
  <2>2. ASSUME NEW s \in SUBSET AvAgents, root \in s, \A d \in s : Children(d) \subseteq s
        PROVE  a \in s
    BY <1>2, <2>2 DEF Reach
  <2> QED BY <2>1, <2>2 DEF Reach
<1>3. ASSUME NEW b \in Reach(root) PROVE Reach(b) \subseteq Reach(root)
  <2> SUFFICES ASSUME NEW a \in Reach(b), NEW s \in SUBSET AvAgents, root \in s,
                      \A d \in s : Children(d) \subseteq s
               PROVE  a \in s
    BY DEF Reach
  <2>1. b \in s
    BY DEF Reach
  <2> QED BY <2>1 DEF Reach
<1> QED BY <1>1, <1>2, <1>3

\* Ledgers that grow reach further.
LEMMA ReachGrows ==
  ASSUME \A b \in AvAgents : Children(b) \subseteq Children(b)', NEW root
  PROVE  Reach(root) \subseteq Reach(root)'
<1> SUFFICES ASSUME NEW a \in Reach(root), NEW s \in SUBSET AvAgents, root \in s,
                    \A d \in s : Children(d)' \subseteq s
             PROVE  a \in s
  BY DEF Reach
<1>1. \A d \in s : Children(d) \subseteq s
  OBVIOUS
<1> QED BY <1>1 DEF Reach

\* Whoever is reached is not older.
LEMMA OlderFirst ==
  ASSUME AvInv, NEW age \in [AvAgents -> Nat],
         \A p \in AvAgents : \A a \in Offspring(p) : age[p] < age[a],
         NEW root \in AvAgents, NEW a \in Reach(root)
  PROVE  age[root] <= age[a]
<1> DEFINE s == {x \in AvAgents : age[root] <= age[x]}
<1>1. root \in s /\ s \in SUBSET AvAgents
  OBVIOUS
<1>2. ASSUME NEW d \in s, NEW x \in Children(d) PROVE x \in s
  <2>1. x \in AvAgents
    BY AvFacts DEF Children
  <2>2. age[d] < age[x]
    BY DEF Offspring
  <2> QED BY <2>1, <2>2
<1>3. a \in s
  BY <1>1, <1>2 DEF Reach
<1> QED BY <1>3

\* A child does not reach its parent.
LEMMA NoReturn ==
  ASSUME AvInv, ~avCrossed, NEW p \in AvAgents, NEW c \in Offspring(p), c \in AvAgents
  PROVE  p \notin Reach(c)
<1>1. PICK age \in [AvAgents -> Nat] : \A q \in AvAgents : \A a \in Offspring(q) : age[q] < age[a]
  BY DEF AvInv, AvTree
<1>2. age[p] < age[c]
  BY <1>1
<1>3. p \in Reach(c) => age[c] <= age[p]
  BY <1>1, OlderFirst
<1>4. age[p] \in Nat /\ age[c] \in Nat
  OBVIOUS
<1> QED BY <1>2, <1>3, <1>4

\* What one has been through does not come again: no process is launched where one was.
LEMMA TreeStands ==
  ASSUME AvInv, ~avCrossed, avDir' = avDir,
         \A p, c \in AvAgents : avProc'[p][c] # "none" => avProc[p][c] # "none",
         \A p \in AvAgents : Offspring(p)' = Offspring(p)
  PROVE  AvTree'
<1>1. AvTree
  BY DEF AvInv
<1>2. \A p, q, c \in AvAgents : avProc'[p][c] # "none" /\ avProc'[q][c] # "none" => p = q
  BY <1>1 DEF AvTree
<1>3. ASSUME NEW s \in SUBSET AvAgents, Top \in s, \A b \in s : Offspring(b)' \subseteq s
      PROVE  avDir' \subseteq s
  <2>1. \A b \in s : Offspring(b) \subseteq s
    BY <1>3
  <2> QED BY <1>1, <1>3, <2>1 DEF AvTree
<1>4. \E age \in [AvAgents -> Nat] : \A p \in AvAgents : \A a \in Offspring(p)' : age[p] < age[a]
  BY <1>1 DEF AvTree
<1> QED BY <1>2, <1>3, <1>4 DEF AvTree

\* What does not depend on whose call or rules crossed.
AvPlain == AvCore /\ AvBorn /\ AvNumbers /\ BootIsTrue

\* A step that leaves the directories, the processes and the ledgers alone.
LEMMA PlainStays ==
  ASSUME AvInv, avDir' = avDir, avHeart' = avHeart, avProc' = avProc, avLedger' = avLedger,
         avUp' \subseteq avHeart, avCall' \in [AvAgents -> AvCalls],
         \A p \in AvAgents : \/ avCall'[p].at = avCall[p].at /\ avCall'[p].child = avCall[p].child
                             \/ avCall'[p].at \in {"idle", "walk", "write"} /\ p \in avHeart
                             \/ avCall'[p].at = "idle"
  PROVE  AvBorn' /\ BootIsTrue'
<1>1. AvBorn /\ BootIsTrue
  BY DEF AvInv
<1>2. \A p \in AvAgents : Children(p)' = Children(p)
  BY DEF Children
<1> QED BY <1>1, <1>2 DEF AvBorn, BootIsTrue

LEMMA SpawnPlain ==
  ASSUME AvInv, NEW p \in AvAgents, NEW c \in AvAgents, AvSpawn(p, c)
  PROVE  AvPlain'
<1>0. PICK call : call = [NoAvatarCall EXCEPT !.at = "make", !.child = c]
  OBVIOUS
<1>1. call \in AvCalls /\ call.at = "make" /\ call.child = c /\ call.rules = 0
  BY <1>0 DEF NoAvatarCall, AvCalls, AvCallAt
<1>2. /\ avCall' \in [AvAgents -> AvCalls] /\ avCall'[p] = call
      /\ \A q \in AvAgents : q # p => avCall'[q] = avCall[q]
  BY <1>0, <1>1, CallMoves DEF AvSpawn
<1>3. p \in avUp /\ p \in avHeart /\ avProc[p][c] = "none" /\ c # Top
  BY AvFacts DEF AvSpawn, At, AvInv, AvBorn
<1>4. UNCHANGED <<avDir, avUp, avHeart, avProc, avLedger, avRules, avSignal, avBeat, avSet, avCrossed>>
  BY DEF AvSpawn, avLife, avFiles
<1>5. AvCore'
  BY <1>2, <1>4, AvFacts DEF AvCore
<1>6. AvNumbers'
  <2>1. \A q \in AvAgents : avCall'[q].rules <= avSet
    BY <1>1, <1>2, AvFacts DEF AvInv, AvNumbers
  <2> QED BY <2>1, <1>4 DEF AvInv, AvNumbers
<1>7. AvBorn'
  <2>1. \A q \in AvAgents : Children(q)' = Children(q)
    BY <1>4 DEF Children
  <2> QED BY <2>1, <1>1, <1>2, <1>3, <1>4 DEF AvInv, AvBorn
<1>8. BootIsTrue'
  BY <1>4 DEF AvInv, BootIsTrue
<1> QED BY <1>5, <1>6, <1>7, <1>8 DEF AvPlain

LEMMA MakePlain ==
  ASSUME AvInv, NEW p \in AvAgents, AvMake(p)
  PROVE  AvPlain'
<1> DEFINE c == avCall[p].child
<1>a. c \in AvAgents /\ c # Top /\ avProc[p][c] = "none" /\ avCall[p].at = "make"
      /\ avCall[p] \in AvCalls /\ p \in avHeart
  BY AvFacts DEF AvMake, At, AvInv, AvBorn
<1>0. PICK call : call = [avCall[p] EXCEPT !.at = "wait"]
  OBVIOUS
<1>1. call \in AvCalls /\ call.at = "wait" /\ call.child = c /\ call.rules = avCall[p].rules
  BY <1>0, <1>a, CallAdvances DEF AvCallAt
<1>2. /\ avCall' \in [AvAgents -> AvCalls] /\ avCall'[p] = call
      /\ \A q \in AvAgents : q # p => avCall'[q] = avCall[q]
  BY <1>0, <1>1, CallMoves DEF AvMake
<1>3. /\ avProc' \in [AvAgents -> [AvAgents -> {"none", "booting", "up", "exited"}]]
      /\ avProc'[p][c] = "booting"
      /\ \A q, d \in AvAgents : q # p \/ d # c => avProc'[q][d] = avProc[q][d]
  BY <1>a, ProcIs DEF AvMake
<1>4. /\ UNCHANGED <<avUp, avHeart, avLedger, avSignal, avBeat, avSet>>
      /\ avDir' = avDir \cup {c}
  BY DEF AvMake, Inherited
<1>5. /\ avRules' \in [AvAgents -> Nat]
      /\ \A q \in AvAgents : avRules'[q] = avRules[q] \/ avRules'[q] = avRules[p]
  <2>1. PICK deep \in BOOLEAN :
          avRules' = [avRules EXCEPT ![c] = IF deep THEN Inherited(p, deep).rules ELSE @]
    BY DEF AvMake
  <2>2. deep => Inherited(p, deep).rules = avRules[p]
    BY DEF Inherited
  <2> QED BY <2>1, <2>2, <1>a, AvFacts
<1>6. AvCore'
  <2>1. avCrossed' \in BOOLEAN
    BY AvFacts DEF AvMake
  <2> QED BY <2>1, <1>a, <1>2, <1>3, <1>4, <1>5, AvFacts DEF AvCore
<1>7. AvNumbers'
  <2>1. \A q \in AvAgents : avCall'[q].rules <= avSet
    BY <1>1, <1>2, AvFacts DEF AvInv, AvNumbers
  <2>2. \A q \in AvAgents : avRules'[q] <= avSet
    BY <1>5, AvFacts DEF AvInv, AvNumbers
  <2> QED BY <2>1, <2>2, <1>4 DEF AvInv, AvNumbers
<1>8. AvBorn'
  <2>1. \A q \in AvAgents : Children(q) \subseteq Children(q)'
    BY <1>4 DEF Children
  <2>2. \A q, d \in AvAgents : avProc'[q][d] # "none" => d \in avDir' /\ d # Top
    BY <1>a, <1>3, <1>4 DEF AvInv, AvBorn
  <2>3. ASSUME NEW q \in AvAgents
        PROVE /\ avCall'[q].at = "make" =>
                   avCall'[q].child \in AvAgents /\ avCall'[q].child # Top /\ avProc'[q][avCall'[q].child] = "none"
              /\ avCall'[q].at = "wait" =>
                   avCall'[q].child \in avDir' /\ avCall'[q].child # Top /\ avProc'[q][avCall'[q].child] # "none"
              /\ avCall'[q].at = "read" => avCall'[q].child \in Children(q)'
              /\ \A r \in avLedger'[q] : r.child \in avDir'
              /\ avCall'[q].at # "idle" \/ avLedger'[q] # {} => q \in avHeart'
    <3>1. CASE q = p
      <4>1. avCall'[q].at = "wait" /\ avCall'[q].child = c
        BY <1>1, <1>2, <3>1
      <4> QED BY <4>1, <3>1, <1>a, <1>3, <1>4 DEF AvInv, AvBorn
    <3>2. CASE q # p
      <4>1. avCall'[q] = avCall[q] /\ \A d \in AvAgents : avProc'[q][d] = avProc[q][d]
        BY <3>2, <1>2, <1>3
      <4>2. avDir \subseteq AvAgents
        BY AvFacts
      <4> QED BY <4>1, <4>2, <2>1, <1>4 DEF AvInv, AvBorn
    <3> QED BY <3>1, <3>2
  <2>4. \A d \in avHeart' \ {Top} : \E q \in AvAgents : avProc'[q][d] = "up"
    <3>1. \A q, d \in AvAgents : avProc[q][d] = "up" => avProc'[q][d] = "up"
      BY <1>a, <1>3
    <3> QED BY <3>1, <1>4, AvFacts DEF AvInv, AvBorn
  <2> QED BY <2>2, <2>3, <2>4 DEF AvBorn
<1>9. BootIsTrue'
  <2>1. \A q, d \in AvAgents : avProc[q][d] = "up" => avProc'[q][d] = "up"
    BY <1>a, <1>3
  <2>2. \A q \in AvAgents : \A r \in avLedger[q] : r.child \in AvAgents
    BY AvFacts
  <2> QED BY <2>1, <2>2, <1>4 DEF AvInv, BootIsTrue
<1> QED BY <1>6, <1>7, <1>8, <1>9 DEF AvPlain

\* A process that boots, or dies before it does: the calls go on as they were.
LEMMA ProcPlain ==
  ASSUME AvInv, NEW p \in AvAgents, NEW c \in AvAgents, AvBoots(p, c) \/ AvDies(p, c)
  PROVE  AvPlain'
<1>1. PICK v \in {"up", "exited"} : avProc' = [avProc EXCEPT ![p][c] = v] /\ (v = "exited" => avHeart' = avHeart)
  BY DEF AvBoots, AvDies
<1>a. avProc[p][c] = "booting" /\ c \in avDir /\ c # Top
  BY DEF AvBoots, AvDies, AvInv, AvBorn
<1>b. v \in {"booting", "up", "exited"}
  BY <1>1
<1>2. /\ avProc' \in [AvAgents -> [AvAgents -> {"none", "booting", "up", "exited"}]]
      /\ avProc'[p][c] = v
      /\ \A q, d \in AvAgents : q # p \/ d # c => avProc'[q][d] = avProc[q][d]
  BY <1>1, <1>b, AvFacts
<1>3. UNCHANGED <<avDir, avLedger, avRules, avSignal, avBeat, avCall, avSet, avCrossed>>
  BY DEF AvBoots, AvDies, avFiles
<1>4. /\ avUp' \subseteq avHeart' /\ avHeart' \subseteq avDir /\ avHeart \subseteq avHeart'
      /\ avHeart' \subseteq avHeart \cup {c} /\ (v = "exited" => avHeart' = avHeart)
  BY <1>1, <1>a, AvFacts DEF AvBoots, AvDies
<1>5. AvCore'
  BY <1>2, <1>3, <1>4, AvFacts DEF AvCore
<1>6. AvNumbers'
  BY <1>3 DEF AvInv, AvNumbers
<1>7. \A q, d \in AvAgents : (avProc'[q][d] = "none") = (avProc[q][d] = "none")
                             /\ (avProc[q][d] = "up" => avProc'[q][d] = "up")
  BY <1>a, <1>1, <1>2
<1>8. AvBorn'
  <2>1. \A q \in AvAgents : Children(q)' = Children(q)
    BY <1>3 DEF Children
  <2>2. \A q, d \in AvAgents : avProc'[q][d] # "none" => d \in avDir' /\ d # Top
    BY <1>3, <1>7 DEF AvInv, AvBorn
  <2>3. ASSUME NEW q \in AvAgents
        PROVE /\ avCall'[q].at = "make" =>
                   avCall'[q].child \in AvAgents /\ avCall'[q].child # Top /\ avProc'[q][avCall'[q].child] = "none"
              /\ avCall'[q].at = "wait" =>
                   avCall'[q].child \in avDir' /\ avCall'[q].child # Top /\ avProc'[q][avCall'[q].child] # "none"
              /\ avCall'[q].at = "read" => avCall'[q].child \in Children(q)'
              /\ \A r \in avLedger'[q] : r.child \in avDir'
              /\ avCall'[q].at # "idle" \/ avLedger'[q] # {} => q \in avHeart'
    <3>1. avDir \subseteq AvAgents
      BY AvFacts
    <3> QED BY <3>1, <2>1, <1>3, <1>4, <1>7 DEF AvInv, AvBorn
  <2>4. ASSUME NEW d \in avHeart' \ {Top} PROVE \E q \in AvAgents : avProc'[q][d] = "up"
    <3>1. CASE d \in avHeart
      BY <3>1, <1>7, AvFacts DEF AvInv, AvBorn
    <3>2. CASE d \notin avHeart
      BY <3>2, <1>1, <1>2, <1>4
    <3> QED BY <3>1, <3>2
  <2> QED BY <2>2, <2>3, <2>4 DEF AvBorn
<1>9. BootIsTrue'
  <2>1. \A q \in AvAgents : \A r \in avLedger[q] : r.child \in AvAgents
    BY AvFacts
  <2> QED BY <2>1, <1>3, <1>7 DEF AvInv, BootIsTrue
<1> QED BY <1>5, <1>6, <1>8, <1>9 DEF AvPlain

\* What goes on the ledger.
LEMMA WaitIs ==
  ASSUME AvInv, NEW p \in AvAgents, AvWaited(p)
  PROVE  \E boot \in {"ok", "failed", "slow"} : \E call \in AvCalls :
           /\ boot = Booted(p, avCall[p].child) /\ avCall[p].at = "wait" /\ p \in avUp
           /\ avLedger' = [avLedger EXCEPT ![p] = @ \cup {[child |-> avCall[p].child, boot |-> boot]}]
           /\ avLedger' \in [AvAgents -> SUBSET [child : AvAgents, boot : {"ok", "failed", "slow"}]]
           /\ avCall' \in [AvAgents -> AvCalls] /\ avCall'[p] = call
           /\ \A q \in AvAgents : q # p => avCall'[q] = avCall[q]
           /\ IF boot = "failed" THEN call = NoAvatarCall
              ELSE call.at = "read" /\ call.child = avCall[p].child
                   /\ call.rules = avCall[p].rules /\ call.todo = avCall[p].todo
<1>1. PICK boot \in {"ok", "failed", "slow"} : boot = Booted(p, avCall[p].child)
  BY DEF Booted
<1>2. avCall[p] \in AvCalls /\ avCall[p].at = "wait" /\ avCall[p].child \in AvAgents /\ p \in avUp
  BY AvFacts DEF AvWaited, At, AvInv, AvBorn
<1>3. avLedger' = [avLedger EXCEPT ![p] = @ \cup {[child |-> avCall[p].child, boot |-> boot]}]
  BY <1>1 DEF AvWaited
<1>4. avLedger' \in [AvAgents -> SUBSET [child : AvAgents, boot : {"ok", "failed", "slow"}]]
  BY <1>1, <1>2, <1>3, AvFacts
<1>5. PICK call \in AvCalls : /\ Goes(p, call)
                              /\ IF boot = "failed" THEN call = NoAvatarCall
                                 ELSE call.at = "read" /\ call.child = avCall[p].child
                                      /\ call.rules = avCall[p].rules /\ call.todo = avCall[p].todo
  <2>1. CASE boot = "failed"
    BY <2>1, <1>1, NoAvatarCallIs DEF AvWaited
  <2>2. CASE boot # "failed"
    <3>0. PICK d : d = [avCall[p] EXCEPT !.at = "read"]
      OBVIOUS
    <3>1. d \in AvCalls /\ d.at = "read" /\ d.child = avCall[p].child
          /\ d.rules = avCall[p].rules /\ d.todo = avCall[p].todo
      BY <3>0, <1>2, CallAdvances DEF AvCallAt
    <3> QED BY <3>0, <3>1, <2>2, <1>1 DEF AvWaited
  <2> QED BY <2>1, <2>2
<1>6. /\ avCall' \in [AvAgents -> AvCalls] /\ avCall'[p] = call
      /\ \A q \in AvAgents : q # p => avCall'[q] = avCall[q]
  BY <1>5, CallMoves
<1> QED BY <1>1, <1>2, <1>3, <1>4, <1>5, <1>6

LEMMA WaitedPlain ==
  ASSUME AvInv, NEW p \in AvAgents, AvWaited(p)
  PROVE  AvPlain'
<1>1. PICK boot \in {"ok", "failed", "slow"}, call \in AvCalls :
           /\ boot = Booted(p, avCall[p].child) /\ avCall[p].at = "wait" /\ p \in avUp
           /\ avLedger' = [avLedger EXCEPT ![p] = @ \cup {[child |-> avCall[p].child, boot |-> boot]}]
           /\ avLedger' \in [AvAgents -> SUBSET [child : AvAgents, boot : {"ok", "failed", "slow"}]]
           /\ avCall' \in [AvAgents -> AvCalls] /\ avCall'[p] = call
           /\ \A q \in AvAgents : q # p => avCall'[q] = avCall[q]
           /\ IF boot = "failed" THEN call = NoAvatarCall
              ELSE call.at = "read" /\ call.child = avCall[p].child
                   /\ call.rules = avCall[p].rules /\ call.todo = avCall[p].todo
  BY WaitIs
<1>2. /\ UNCHANGED <<avDir, avUp, avHeart, avProc, avRules, avSignal, avBeat, avSet, avCrossed>>
      /\ p \in avHeart
  BY <1>1, AvFacts DEF AvWaited, avLife, avFiles
<1>3. PICK rec : rec = [child |-> avCall[p].child, boot |-> boot]
  OBVIOUS
<1>4. /\ rec.child = avCall[p].child /\ rec.boot = boot
      /\ avLedger'[p] = avLedger[p] \cup {rec} /\ \A q \in AvAgents : q # p => avLedger'[q] = avLedger[q]
  BY <1>1, <1>3, AvFacts
<1>5. avCall[p].child \in avDir /\ avCall[p].child # Top
  BY <1>1 DEF AvInv, AvBorn
<1>6. AvCore'
  BY <1>1, <1>2, AvFacts DEF AvCore
<1>7. AvNumbers'
  <2>1. \A q \in AvAgents : avCall'[q].rules <= avSet
    BY <1>1, NoAvatarCallIs, AvFacts DEF AvInv, AvNumbers
  <2> QED BY <2>1, <1>2 DEF AvInv, AvNumbers
<1>8. AvBorn'
  <2>1. \A q \in AvAgents : Children(q) \subseteq Children(q)'
    BY <1>2, <1>4 DEF Children
  <2>2. avCall[p].child \in Children(p)'
    BY <1>2, <1>4, <1>5 DEF Children
  <2>3. ASSUME NEW q \in AvAgents
        PROVE /\ avCall'[q].at = "make" =>
                   avCall'[q].child \in AvAgents /\ avCall'[q].child # Top /\ avProc'[q][avCall'[q].child] = "none"
              /\ avCall'[q].at = "wait" =>
                   avCall'[q].child \in avDir' /\ avCall'[q].child # Top /\ avProc'[q][avCall'[q].child] # "none"
              /\ avCall'[q].at = "read" => avCall'[q].child \in Children(q)'
              /\ \A r \in avLedger'[q] : r.child \in avDir'
              /\ avCall'[q].at # "idle" \/ avLedger'[q] # {} => q \in avHeart'
    <3>1. CASE q = p
      <4>1. avCall'[q].at = "idle" \/ (avCall'[q].at = "read" /\ avCall'[q].child = avCall[p].child)
        BY <1>1, <3>1, NoAvatarCallIs
      <4>2. \A r \in avLedger'[q] : r.child \in avDir'
        BY <1>2, <1>4, <1>5, <3>1 DEF AvInv, AvBorn
      <4> QED BY <4>1, <4>2, <2>2, <3>1, <1>2
    <3>2. CASE q # p
      <4>1. avCall'[q] = avCall[q] /\ avLedger'[q] = avLedger[q]
        BY <3>2, <1>1, <1>4
      <4> QED BY <4>1, <2>1, <1>2 DEF AvInv, AvBorn
    <3> QED BY <3>1, <3>2
  <2> QED BY <2>3, <1>2 DEF AvInv, AvBorn
<1>9. BootIsTrue'
  <2> SUFFICES ASSUME NEW q \in AvAgents, NEW r \in avLedger'[q], r.boot = "ok"
               PROVE  \E q2 \in AvAgents : avProc'[q2][r.child] = "up"
    BY DEF BootIsTrue
  <2>1. CASE r \in avLedger[q]
    BY <2>1, <1>2 DEF AvInv, BootIsTrue
  <2>2. CASE r \notin avLedger[q]
    <3>1. q = p /\ r = rec /\ boot = "ok"
      BY <2>2, <1>4
    <3>2. avCall[p].child \in avHeart
      BY <3>1, <1>1 DEF Booted
    <3> QED BY <3>1, <3>2, <1>2, <1>4, <1>5 DEF AvInv, AvBorn
  <2> QED BY <2>1, <2>2
<1> QED BY <1>6, <1>7, <1>8, <1>9 DEF AvPlain

\* The steps of a call that hands out rules.
LEMMA RulesReadIs ==
  ASSUME AvInv, NEW p \in AvAgents, AvReadsRules(p)
  PROVE  \E call \in AvCalls :
           /\ avCall[p].at = "read" /\ p \in avUp
           /\ avCall' \in [AvAgents -> AvCalls] /\ avCall'[p] = call
           /\ \A q \in AvAgents : q # p => avCall'[q] = avCall[q]
           /\ IF avRules[p] = 0 THEN call = NoAvatarCall
              ELSE call.at = "walk" /\ call.rules = avRules[p] /\ call.child = avCall[p].child
<1>1. avCall[p] \in AvCalls /\ avCall[p].at = "read" /\ p \in avUp /\ avRules[p] \in Nat
  BY AvFacts DEF AvReadsRules, At
<1>2. PICK call \in AvCalls :
        /\ Goes(p, call)
        /\ IF avRules[p] = 0 THEN call = NoAvatarCall
           ELSE call.at = "walk" /\ call.rules = avRules[p] /\ call.child = avCall[p].child
  <2>1. CASE avRules[p] = 0
    BY <2>1, NoAvatarCallIs DEF AvReadsRules
  <2>2. CASE avRules[p] # 0
    <3>1. PICK d : d = [avCall[p] EXCEPT !.at = "walk", !.rules = avRules[p]]
      OBVIOUS
    <3>2. d = [at |-> "walk", child |-> avCall[p].child, rules |-> avRules[p], todo |-> avCall[p].todo]
      BY <3>1, <1>1 DEF AvCalls
    <3>3. avCall[p].child \in AvAgents \cup {0} /\ avCall[p].todo \in SUBSET AvAgents
      BY <1>1 DEF AvCalls
    <3>4. d \in AvCalls /\ d.at = "walk" /\ d.rules = avRules[p] /\ d.child = avCall[p].child
      BY <3>2, <3>3, <1>1 DEF AvCalls, AvCallAt
    <3> QED BY <3>1, <3>4, <2>2 DEF AvReadsRules
  <2> QED BY <2>1, <2>2
<1>3. /\ avCall' \in [AvAgents -> AvCalls] /\ avCall'[p] = call
      /\ \A q \in AvAgents : q # p => avCall'[q] = avCall[q]
  BY <1>2, CallMoves
<1> QED BY <1>1, <1>2, <1>3

LEMMA RulesSetIs ==
  ASSUME AvInv, NEW p \in AvAgents, AvSetRules(p)
  PROVE  \E call \in AvCalls :
           /\ avCall[p].at = "idle" /\ p \in avUp /\ p = Top
           /\ avCall' \in [AvAgents -> AvCalls] /\ avCall'[p] = call
           /\ \A q \in AvAgents : q # p => avCall'[q] = avCall[q]
           /\ call.at = "walk" /\ call.rules = avSet + 1
           /\ avSet' = avSet + 1 /\ avSignal' \in [AvAgents -> Nat] /\ avSignal'[p] = avSet + 1
           /\ \A q \in AvAgents : q # p => avSignal'[q] = avSignal[q]
<1>0. PICK call : call = [NoAvatarCall EXCEPT !.at = "walk", !.rules = avSet + 1]
  OBVIOUS
<1>1. call = [at |-> "walk", child |-> 0, rules |-> avSet + 1, todo |-> {}]
  BY <1>0 DEF NoAvatarCall
<1>2. call \in AvCalls /\ call.at = "walk" /\ call.rules = avSet + 1
  BY <1>1, AvFacts DEF AvCalls, AvCallAt
<1>3. /\ avCall' \in [AvAgents -> AvCalls] /\ avCall'[p] = call
      /\ \A q \in AvAgents : q # p => avCall'[q] = avCall[q]
  BY <1>0, <1>2, CallMoves DEF AvSetRules
<1>4. /\ avSet' = avSet + 1 /\ avSignal' \in [AvAgents -> Nat] /\ avSignal'[p] = avSet + 1
      /\ \A q \in AvAgents : q # p => avSignal'[q] = avSignal[q]
  BY AvFacts DEF AvSetRules
<1> QED BY <1>2, <1>3, <1>4 DEF AvSetRules, At

LEMMA WalkIs ==
  ASSUME AvInv, NEW p \in AvAgents, AvWalk(p)
  PROVE  \E call \in AvCalls :
           /\ avCall[p].at = "walk" /\ p \in avUp
           /\ avCall' \in [AvAgents -> AvCalls] /\ avCall'[p] = call
           /\ \A q \in AvAgents : q # p => avCall'[q] = avCall[q]
           /\ IF Below(p) = {} THEN call = NoAvatarCall
              ELSE call.at = "write" /\ call.rules = avCall[p].rules /\ call.todo = Below(p)
                   /\ call.child = avCall[p].child
<1>1. avCall[p] \in AvCalls /\ avCall[p].at = "walk" /\ p \in avUp
  BY AvFacts DEF AvWalk, At
<1>2. PICK call \in AvCalls :
        /\ Goes(p, call)
        /\ IF Below(p) = {} THEN call = NoAvatarCall
           ELSE call.at = "write" /\ call.rules = avCall[p].rules /\ call.todo = Below(p)
                /\ call.child = avCall[p].child
  <2>1. CASE Below(p) = {}
    BY <2>1, NoAvatarCallIs DEF AvWalk
  <2>2. CASE Below(p) # {}
    <3>1. PICK d : d = [avCall[p] EXCEPT !.at = "write", !.todo = Below(p)]
      OBVIOUS
    <3>2. d = [at |-> "write", child |-> avCall[p].child, rules |-> avCall[p].rules, todo |-> Below(p)]
      BY <3>1, <1>1 DEF AvCalls
    <3>3. avCall[p].child \in AvAgents \cup {0} /\ avCall[p].rules \in Nat
      BY <1>1 DEF AvCalls
    <3>4. Below(p) \in SUBSET AvAgents
      BY DEF Below, Reach
    <3>5. d \in AvCalls /\ d.at = "write" /\ d.rules = avCall[p].rules /\ d.todo = Below(p)
          /\ d.child = avCall[p].child
      BY <3>2, <3>3, <3>4 DEF AvCalls, AvCallAt
    <3> QED BY <3>1, <3>5, <2>2 DEF AvWalk
  <2> QED BY <2>1, <2>2
<1>3. /\ avCall' \in [AvAgents -> AvCalls] /\ avCall'[p] = call
      /\ \A q \in AvAgents : q # p => avCall'[q] = avCall[q]
  BY <1>2, CallMoves
<1> QED BY <1>1, <1>2, <1>3

LEMMA WrittenIs ==
  ASSUME AvInv, NEW p \in AvAgents, NEW a \in AvAgents, At(p, "write"), a \in avCall[p].todo,
         RulesWritten(p, a)
  PROVE  \E call \in AvCalls :
           /\ avCall[p].at = "write" /\ p \in avUp
           /\ avCall' \in [AvAgents -> AvCalls] /\ avCall'[p] = call
           /\ \A q \in AvAgents : q # p => avCall'[q] = avCall[q]
           /\ IF avCall[p].todo = {a} THEN call = NoAvatarCall
              ELSE call.at = "write" /\ call.rules = avCall[p].rules
                   /\ call.todo = avCall[p].todo \ {a} /\ call.child = avCall[p].child
<1>1. avCall[p] \in AvCalls /\ avCall[p].at = "write" /\ p \in avUp
  BY AvFacts DEF At
<1>2. PICK call \in AvCalls :
        /\ Goes(p, call)
        /\ IF avCall[p].todo = {a} THEN call = NoAvatarCall
           ELSE call.at = "write" /\ call.rules = avCall[p].rules
                /\ call.todo = avCall[p].todo \ {a} /\ call.child = avCall[p].child
  <2>1. CASE avCall[p].todo = {a}
    BY <2>1, NoAvatarCallIs DEF RulesWritten
  <2>2. CASE avCall[p].todo # {a}
    <3>1. PICK d : d = [avCall[p] EXCEPT !.todo = @ \ {a}]
      OBVIOUS
    <3>2. d = [at |-> "write", child |-> avCall[p].child, rules |-> avCall[p].rules,
               todo |-> avCall[p].todo \ {a}]
      BY <3>1, <1>1 DEF AvCalls
    <3>3. avCall[p].child \in AvAgents \cup {0} /\ avCall[p].rules \in Nat /\ avCall[p].todo \in SUBSET AvAgents
      BY <1>1 DEF AvCalls
    <3>5. d \in AvCalls /\ d.at = "write" /\ d.rules = avCall[p].rules
          /\ d.todo = avCall[p].todo \ {a} /\ d.child = avCall[p].child
      BY <3>2, <3>3 DEF AvCalls, AvCallAt
    <3> QED BY <3>1, <3>5, <2>2 DEF RulesWritten
  <2> QED BY <2>1, <2>2
<1>3. /\ avCall' \in [AvAgents -> AvCalls] /\ avCall'[p] = call
      /\ \A q \in AvAgents : q # p => avCall'[q] = avCall[q]
  BY <1>2, CallMoves
<1> QED BY <1>1, <1>2, <1>3

\* The heartbeat thread's steps.
LEMMA BeatIs ==
  ASSUME AvInv, NEW a \in AvAgents,
         AvBeatReads(a) \/ AvBeatUnlinks(a) \/ AvBeatKeeps(a) \/ AvBeatFails(a)
  PROVE  \E beat \in AvBeats :
           /\ avBeat' \in [AvAgents -> AvBeats] /\ avBeat'[a] = beat
           /\ \A q \in AvAgents : q # a => avBeat'[q] = avBeat[q]
           /\ AvBeatReads(a) => beat.at = "read" /\ beat.rules = avSignal[a]
           /\ AvBeatUnlinks(a) => beat.at = "unlinked" /\ beat.rules = avBeat[a].rules
           /\ AvBeatKeeps(a) \/ AvBeatFails(a) => beat = BeatIdle
<1>1. avBeat[a] \in AvBeats /\ avSignal[a] \in Nat
  BY AvFacts
<1>2. CASE AvBeatReads(a)
  <2>1. PICK beat : beat = [at |-> "read", rules |-> avSignal[a]]
    OBVIOUS
  <2>2. beat \in AvBeats /\ beat.at = "read" /\ beat.rules = avSignal[a]
    BY <2>1, <1>1 DEF AvBeats
  <2>3. avBeat' = [avBeat EXCEPT ![a] = beat]
    BY <1>2, <2>1 DEF AvBeatReads
  <2>4. ~AvBeatUnlinks(a) /\ ~AvBeatKeeps(a) /\ ~AvBeatFails(a)
    BY <1>2 DEF AvBeatReads, AvBeatUnlinks, AvBeatKeeps, AvBeatFails, BeatIdle
  <2>5. avBeat' \in [AvAgents -> AvBeats] /\ avBeat'[a] = beat
        /\ \A q \in AvAgents : q # a => avBeat'[q] = avBeat[q]
    BY <2>2, <2>3, AvFacts
  <2> QED BY <2>2, <2>4, <2>5
<1>3. CASE AvBeatUnlinks(a)
  <2>1. PICK beat : beat = [avBeat[a] EXCEPT !.at = "unlinked"]
    OBVIOUS
  <2>2. beat = [at |-> "unlinked", rules |-> avBeat[a].rules]
    BY <2>1, <1>1 DEF AvBeats
  <2>3. beat \in AvBeats /\ beat.at = "unlinked" /\ beat.rules = avBeat[a].rules
    BY <2>2, <1>1 DEF AvBeats
  <2>4. avBeat' = [avBeat EXCEPT ![a] = beat]
    BY <1>3, <2>1 DEF AvBeatUnlinks
  <2>5. ~AvBeatReads(a) /\ ~AvBeatKeeps(a) /\ ~AvBeatFails(a)
    BY <1>3 DEF AvBeatReads, AvBeatUnlinks, AvBeatKeeps, AvBeatFails, BeatIdle
  <2>6. avBeat' \in [AvAgents -> AvBeats] /\ avBeat'[a] = beat
        /\ \A q \in AvAgents : q # a => avBeat'[q] = avBeat[q]
    BY <2>3, <2>4, AvFacts
  <2> QED BY <2>3, <2>5, <2>6
<1>4. CASE AvBeatKeeps(a) \/ AvBeatFails(a)
  <2>1. BeatIdle \in AvBeats
    BY DEF BeatIdle, AvBeats
  <2>2. avBeat' = [avBeat EXCEPT ![a] = BeatIdle]
    BY <1>4 DEF AvBeatKeeps, AvBeatFails
  <2>3. ~AvBeatReads(a) /\ ~AvBeatUnlinks(a)
    BY <1>4 DEF AvBeatReads, AvBeatUnlinks, AvBeatKeeps, AvBeatFails, BeatIdle
  <2>4. avBeat' \in [AvAgents -> AvBeats] /\ avBeat'[a] = BeatIdle
        /\ \A q \in AvAgents : q # a => avBeat'[q] = avBeat[q]
    BY <2>1, <2>2, AvFacts
  <2> QED BY <2>1, <2>3, <2>4
<1> QED BY <1>2, <1>3, <1>4

LEMMA BeatPlain ==
  ASSUME AvInv, NEW a \in AvAgents,
         AvBeatReads(a) \/ AvBeatUnlinks(a) \/ AvBeatKeeps(a) \/ AvBeatFails(a)
  PROVE  AvPlain'
<1>1. PICK beat \in AvBeats :
           /\ avBeat' \in [AvAgents -> AvBeats] /\ avBeat'[a] = beat
           /\ \A q \in AvAgents : q # a => avBeat'[q] = avBeat[q]
           /\ AvBeatReads(a) => beat.at = "read" /\ beat.rules = avSignal[a]
           /\ AvBeatUnlinks(a) => beat.at = "unlinked" /\ beat.rules = avBeat[a].rules
           /\ AvBeatKeeps(a) \/ AvBeatFails(a) => beat = BeatIdle
  BY BeatIs
<1>2. UNCHANGED <<avDir, avUp, avHeart, avProc, avLedger, avCall, avSet>>
  BY DEF AvBeatReads, AvBeatUnlinks, AvBeatKeeps, AvBeatFails, avLife
<1>3. avRules' \in [AvAgents -> Nat] /\ \A q \in AvAgents : avRules'[q] <= avSet
  <2>1. CASE AvBeatKeeps(a)
    <3>1. avBeat[a].rules \in Nat /\ avBeat[a].rules <= avSet
      BY AvFacts DEF AvInv, AvNumbers, AvBeats
    <3> QED BY <2>1, <3>1, AvFacts DEF AvBeatKeeps, AvInv, AvNumbers
  <2>2. CASE ~AvBeatKeeps(a)
    <3>1. avRules' = avRules
      BY <2>2 DEF AvBeatReads, AvBeatUnlinks, AvBeatFails, avFiles
    <3> QED BY <3>1, AvFacts DEF AvInv, AvNumbers
  <2> QED BY <2>1, <2>2
<1>4. avSignal' \in [AvAgents -> Nat] /\ \A q \in AvAgents : avSignal'[q] <= avSet
  <2>1. CASE AvBeatUnlinks(a)
    BY <2>1, AvFacts DEF AvBeatUnlinks, AvInv, AvNumbers
  <2>2. CASE ~AvBeatUnlinks(a)
    <3>1. avSignal' = avSignal
      BY <2>2 DEF AvBeatReads, AvBeatKeeps, AvBeatFails, avFiles
    <3> QED BY <3>1, AvFacts DEF AvInv, AvNumbers
  <2> QED BY <2>1, <2>2
<1>5. avCrossed' \in BOOLEAN
  BY AvFacts DEF AvBeatReads, AvBeatUnlinks, AvBeatKeeps, AvBeatFails
<1>6. AvCore'
  BY <1>1, <1>2, <1>3, <1>4, <1>5, AvFacts DEF AvCore
<1>7. \A q \in AvAgents : avBeat'[q].rules <= avSet
  BY <1>1, AvFacts, SMTT(30), ZenonT(30) DEF AvInv, AvNumbers, BeatIdle
<1>8. AvNumbers'
  BY <1>2, <1>3, <1>4, <1>7 DEF AvInv, AvNumbers
<1>9. AvBorn' /\ BootIsTrue'
  BY <1>2, AvFacts, PlainStays
<1> QED BY <1>6, <1>8, <1>9 DEF AvPlain

\* A call goes on to hand out rules, or is over.
LEMMA HandPlain ==
  ASSUME AvInv, NEW p \in AvAgents, NEW a \in AvAgents,
         AvReadsRules(p) \/ AvSetRules(p) \/ AvWalk(p) \/ AvWrites(p, a) \/ AvWriteFails(p, a)
  PROVE  AvPlain'
<1>1. UNCHANGED <<avDir, avUp, avHeart, avProc, avLedger, avBeat, avRules>> /\ p \in avUp /\ p \in avHeart
  BY AvFacts DEF AvReadsRules, AvSetRules, AvWalk, AvWrites, AvWriteFails, At, avLife, avFiles
<1>2. PICK call \in AvCalls :
        /\ avCall' \in [AvAgents -> AvCalls] /\ avCall'[p] = call
        /\ \A q \in AvAgents : q # p => avCall'[q] = avCall[q]
        /\ call.at \in {"idle", "walk", "write"}
        /\ call.rules \in {0, avRules[p], avCall[p].rules, avSet'}
  <2>1. CASE AvReadsRules(p)
    BY <2>1, RulesReadIs, NoAvatarCallIs
  <2>2. CASE AvSetRules(p)
    BY <2>2, RulesSetIs
  <2>3. CASE AvWalk(p)
    BY <2>3, WalkIs, NoAvatarCallIs
  <2>4. CASE AvWrites(p, a) \/ AvWriteFails(p, a)
    <3>1. At(p, "write") /\ a \in avCall[p].todo /\ RulesWritten(p, a)
      BY <2>4 DEF AvWrites, AvWriteFails
    <3> QED BY <3>1, WrittenIs, NoAvatarCallIs
  <2> QED BY <2>1, <2>2, <2>3, <2>4
<1>3. avSet' \in Nat /\ avSet <= avSet' /\ (~AvSetRules(p) => avSet' = avSet)
  BY AvFacts DEF AvReadsRules, AvSetRules, AvWalk, AvWrites, AvWriteFails
<1>4. avSignal' \in [AvAgents -> Nat] /\ \A q \in AvAgents : avSignal'[q] <= avSet'
  <2>1. CASE AvSetRules(p)
    <3>1. /\ avSet' = avSet + 1 /\ avSignal' \in [AvAgents -> Nat] /\ avSignal'[p] = avSet + 1
          /\ \A q \in AvAgents : q # p => avSignal'[q] = avSignal[q]
      BY <2>1, RulesSetIs
    <3>2. avSet \in Nat /\ \A q \in AvAgents : avSignal[q] \in Nat /\ avSignal[q] <= avSet
      BY AvFacts DEF AvInv, AvNumbers
    <3>3. ASSUME NEW q \in AvAgents PROVE avSignal'[q] <= avSet'
      <4>1. avSignal[q] \in Nat /\ avSignal[q] <= avSet
        BY <3>2
      <4>2. avSignal'[q] = avSet + 1 \/ avSignal'[q] = avSignal[q]
        BY <3>1
      <4> QED BY <4>1, <4>2, <3>1, <3>2
    <3> QED BY <3>1, <3>3
  <2>2. CASE AvWrites(p, a)
    <3>1. avSignal' = [avSignal EXCEPT ![a] = avCall[p].rules] /\ avSet' = avSet
      BY <2>2 DEF AvWrites
    <3>2. avCall[p].rules \in Nat /\ avCall[p].rules <= avSet
      BY AvFacts DEF AvInv, AvNumbers, AvCalls
    <3> QED BY <3>1, <3>2, AvFacts DEF AvInv, AvNumbers
  <2>3. CASE ~AvSetRules(p) /\ ~AvWrites(p, a)
    <3>1. avSignal' = avSignal /\ avSet' = avSet
      BY <2>3 DEF AvReadsRules, AvWalk, AvWriteFails, avFiles
    <3> QED BY <3>1, AvFacts DEF AvInv, AvNumbers
  <2> QED BY <2>1, <2>2, <2>3
<1>5. avCrossed' \in BOOLEAN
  BY AvFacts DEF AvReadsRules, AvSetRules, AvWalk, AvWrites, AvWriteFails
<1>6. AvCore'
  BY <1>1, <1>2, <1>3, <1>4, <1>5, AvFacts DEF AvCore
<1>7. AvNumbers'
  <2>1. ASSUME NEW q \in AvAgents
        PROVE  avRules[q] <= avSet' /\ avBeat[q].rules <= avSet' /\ avCall[q].rules <= avSet'
    <3>1. avRules[q] \in Nat /\ avBeat[q].rules \in Nat /\ avCall[q].rules \in Nat /\ avSet \in Nat
      BY AvFacts DEF AvBeats, AvCalls
    <3>2. avRules[q] <= avSet /\ avBeat[q].rules <= avSet /\ avCall[q].rules <= avSet
      BY DEF AvInv, AvNumbers
    <3> QED BY <3>1, <3>2, <1>3
  <2>2. \A q \in AvAgents : avCall'[q].rules <= avSet'
    BY <2>1, <1>2, <1>3
  <2> QED BY <2>1, <2>2, <1>1, <1>4 DEF AvNumbers
<1>8. AvBorn' /\ BootIsTrue'
  <2>1. \A q \in AvAgents : \/ avCall'[q].at = avCall[q].at /\ avCall'[q].child = avCall[q].child
                            \/ avCall'[q].at \in {"idle", "walk", "write"} /\ q \in avHeart
                            \/ avCall'[q].at = "idle"
    BY <1>1, <1>2
  <2>2. avUp' \subseteq avHeart
    BY <1>1, AvFacts
  <2> QED BY <2>1, <2>2, <1>1, <1>2, PlainStays
<1> QED BY <1>6, <1>7, <1>8 DEF AvPlain

LEMMA CrashIs ==
  ASSUME AvInv, NEW a \in AvAgents, AvCrash(a)
  PROVE  /\ avBeat' \in [AvAgents -> AvBeats] /\ avBeat'[a] = BeatIdle
         /\ \A q \in AvAgents : q # a => avBeat'[q] = avBeat[q]
         /\ avCall' \in [AvAgents -> AvCalls] /\ avCall'[a] = NoAvatarCall
         /\ \A q \in AvAgents : q # a => avCall'[q] = avCall[q]
<1>1. BeatIdle \in AvBeats /\ NoAvatarCall \in AvCalls
  BY NoAvatarCallIs DEF BeatIdle, AvBeats
<1> QED BY <1>1, AvFacts DEF AvCrash

LEMMA LifePlain ==
  ASSUME AvInv, NEW a \in AvAgents, AvCrash(a) \/ AvRelaunch(a) \/ AvSetFails(a)
  PROVE  AvPlain'
<1>1. CASE AvCrash(a)
  <2>1. UNCHANGED <<avDir, avHeart, avProc, avLedger, avRules, avSignal, avSet>>
        /\ avUp' \subseteq avHeart /\ avCrossed' \in BOOLEAN
    BY <1>1, AvFacts DEF AvCrash, avFiles
  <2>2. /\ avBeat' \in [AvAgents -> AvBeats] /\ avBeat'[a] = BeatIdle
        /\ \A q \in AvAgents : q # a => avBeat'[q] = avBeat[q]
        /\ avCall' \in [AvAgents -> AvCalls] /\ avCall'[a] = NoAvatarCall
        /\ \A q \in AvAgents : q # a => avCall'[q] = avCall[q]
    BY <1>1, CrashIs
  <2>3. AvCore'
    BY <2>1, <2>2, AvFacts DEF AvCore
  <2>4. AvNumbers'
    <3>1. ASSUME NEW q \in AvAgents PROVE avBeat'[q].rules <= avSet /\ avCall'[q].rules <= avSet
      <4>1. CASE q = a
        <5>1. avBeat'[q].rules = 0 /\ avCall'[q].rules = 0
          BY <4>1, <2>2, NoAvatarCallIs DEF BeatIdle
        <5> QED BY <5>1, AvFacts
      <4>2. CASE q # a
        BY <4>2, <2>2 DEF AvInv, AvNumbers
      <4> QED BY <4>1, <4>2
    <3> QED BY <3>1, <2>1 DEF AvInv, AvNumbers
  <2>5. AvBorn' /\ BootIsTrue'
    <3>1. \A q \in AvAgents : \/ avCall'[q].at = avCall[q].at /\ avCall'[q].child = avCall[q].child
                              \/ avCall'[q].at = "idle"
      BY <2>2, NoAvatarCallIs
    <3> QED BY <3>1, <2>1, <2>2, PlainStays
  <2> QED BY <2>3, <2>4, <2>5 DEF AvPlain
<1>2. CASE AvRelaunch(a) \/ AvSetFails(a)
  <2>1. UNCHANGED <<avDir, avHeart, avProc, avLedger, avRules, avSignal, avSet, avBeat, avCall, avCrossed>>
    BY <1>2 DEF AvRelaunch, AvSetFails, avLife, avFiles
  <2>2. avUp' \subseteq avHeart
    BY <1>2, AvFacts DEF AvRelaunch, AvSetFails, avLife
  <2>3. AvCore'
    BY <2>1, <2>2, AvFacts DEF AvCore
  <2>4. AvNumbers'
    BY <2>1 DEF AvInv, AvNumbers
  <2>5. AvBorn' /\ BootIsTrue'
    BY <2>1, <2>2, AvFacts, PlainStays
  <2> QED BY <2>3, <2>4, <2>5 DEF AvPlain
<1> QED BY <1>1, <1>2

\* The steps that make no directory leave the tree as it is.
LEMMA TreeSteps ==
  ASSUME AvInv, ~avCrossed', NEW p \in AvAgents, NEW c \in AvAgents,
         \/ AvWaited(p) \/ AvReadsRules(p) \/ AvSetRules(p) \/ AvSetFails(p) \/ AvWalk(p)
         \/ AvBeatReads(p) \/ AvBeatUnlinks(p) \/ AvBeatKeeps(p) \/ AvBeatFails(p)
         \/ AvCrash(p) \/ AvRelaunch(p)
         \/ AvSpawn(p, c) \/ AvBoots(p, c) \/ AvDies(p, c) \/ AvWrites(p, c) \/ AvWriteFails(p, c)
  PROVE  AvTree'
<1>a. avDir' = avDir
  BY DEF AvWaited, AvReadsRules, AvSetRules, AvSetFails, AvWalk, AvBeatReads, AvBeatUnlinks,
         AvBeatKeeps, AvBeatFails, AvCrash, AvRelaunch, AvSpawn, AvBoots, AvDies, AvWrites,
         AvWriteFails, avLife
<1>b. avCrossed => avCrossed'
  BY DEF AvWaited, AvReadsRules, AvSetRules, AvSetFails, AvWalk, AvBeatReads, AvBeatUnlinks,
         AvBeatKeeps, AvBeatFails, AvCrash, AvRelaunch, AvSpawn, AvBoots, AvDies, AvWrites,
         AvWriteFails
<1>1. ~avCrossed /\ avDir' = avDir
  BY <1>a, <1>b
<1>2. CASE AvWaited(p)
  <2>1. avProc' = avProc
    BY <1>2 DEF AvWaited, avLife
  <2>2. PICK boot \in {"ok", "failed", "slow"}, call \in AvCalls :
           /\ avCall[p].at = "wait"
           /\ avLedger' = [avLedger EXCEPT ![p] = @ \cup {[child |-> avCall[p].child, boot |-> boot]}]
           /\ avCall'[p] = call
           /\ \A q \in AvAgents : q # p => avCall'[q] = avCall[q]
           /\ IF boot = "failed" THEN call = NoAvatarCall
              ELSE call.at = "read" /\ call.child = avCall[p].child
                   /\ call.rules = avCall[p].rules /\ call.todo = avCall[p].todo
    BY <1>2, WaitIs
  <2>3. avCall'[p].at # "wait" /\ avCall[p].child \in avDir
    BY <2>2, NoAvatarCallIs DEF AvInv, AvBorn
  <2>4. PICK rec : rec = [child |-> avCall[p].child, boot |-> boot]
    OBVIOUS
  <2>5. /\ rec.child = avCall[p].child /\ avLedger'[p] = avLedger[p] \cup {rec}
        /\ \A q \in AvAgents : q # p => avLedger'[q] = avLedger[q]
    BY <2>2, <2>4, AvFacts
  <2>6. Children(p)' = Children(p) \cup {avCall[p].child}
    BY <1>1, <2>3, <2>5 DEF Children
  <2>7. ASSUME NEW q \in AvAgents PROVE Offspring(q)' = Offspring(q)
    <3>1. CASE q = p
      BY <3>1, <2>2, <2>3, <2>6 DEF Offspring
    <3>2. CASE q # p
      <4>1. Children(q)' = Children(q)
        BY <3>2, <1>1, <2>5 DEF Children
      <4>2. avCall'[q] = avCall[q]
        BY <3>2, <2>2
      <4> QED BY <4>1, <4>2 DEF Offspring
    <3> QED BY <3>1, <3>2
  <2> QED BY <1>1, <2>1, <2>7, TreeStands
<1>3. CASE ~AvWaited(p)
  <2>1. avLedger' = avLedger
    BY <1>3 DEF AvReadsRules, AvSetRules, AvSetFails, AvWalk, AvBeatReads, AvBeatUnlinks,
         AvBeatKeeps, AvBeatFails, AvCrash, AvRelaunch, AvSpawn, AvBoots, AvDies, AvWrites,
         AvWriteFails
  <2>2. \A q, d \in AvAgents : avProc'[q][d] # "none" => avProc[q][d] # "none"
    <3>1. CASE AvBoots(p, c) \/ AvDies(p, c)
      <4>1. PICK v \in {"up", "exited"} : avProc' = [avProc EXCEPT ![p][c] = v]
        BY <3>1 DEF AvBoots, AvDies
      <4>2. avProc[p][c] = "booting"
        BY <3>1 DEF AvBoots, AvDies
      <4> QED BY <4>1, <4>2, AvFacts
    <3>2. CASE ~(AvBoots(p, c) \/ AvDies(p, c))
      <4>1. avProc' = avProc
        BY <3>2, <1>3 DEF AvReadsRules, AvSetRules, AvSetFails, AvWalk, AvBeatReads, AvBeatUnlinks,
             AvBeatKeeps, AvBeatFails, AvCrash, AvRelaunch, AvSpawn, AvWrites, AvWriteFails, avLife
      <4> QED BY <4>1
    <3> QED BY <3>1, <3>2
  <2>3. \A q \in AvAgents : \/ avCall'[q] = avCall[q]
                            \/ avCall'[q].at # "wait" /\ avCall[q].at # "wait"
    <3>1. CASE AvReadsRules(p)
      BY <3>1, RulesReadIs, NoAvatarCallIs
    <3>2. CASE AvSetRules(p)
      BY <3>2, RulesSetIs
    <3>3. CASE AvWalk(p)
      BY <3>3, WalkIs, NoAvatarCallIs
    <3>4. CASE AvWrites(p, c) \/ AvWriteFails(p, c)
      <4>1. At(p, "write") /\ c \in avCall[p].todo /\ RulesWritten(p, c)
        BY <3>4 DEF AvWrites, AvWriteFails
      <4> QED BY <4>1, WrittenIs, NoAvatarCallIs
    <3>5. CASE AvCrash(p)
      <4>1. avCall[p].at = "idle"
        BY <3>5 DEF AvCrash
      <4> QED BY <4>1, <3>5, CrashIs, NoAvatarCallIs
    <3>6. CASE AvSpawn(p, c)
      <4>0. PICK call : call = [NoAvatarCall EXCEPT !.at = "make", !.child = c]
        OBVIOUS
      <4>1. call.at = "make" /\ call \in AvCalls
        BY <4>0 DEF NoAvatarCall, AvCalls, AvCallAt
      <4>2. avCall' = [avCall EXCEPT ![p] = call] /\ avCall[p].at = "idle"
        BY <3>6, <4>0 DEF AvSpawn, At, Goes
      <4> QED BY <4>1, <4>2, AvFacts
    <3>7. CASE UNCHANGED avCall
      BY <3>7
    <3>8. \/ AvReadsRules(p) \/ AvSetRules(p) \/ AvWalk(p) \/ AvWrites(p, c) \/ AvWriteFails(p, c)
          \/ AvCrash(p) \/ AvSpawn(p, c) \/ UNCHANGED avCall
      BY <1>3 DEF AvSetFails, AvBeatReads, AvBeatUnlinks, AvBeatKeeps, AvBeatFails, AvRelaunch,
             AvBoots, AvDies
    <3> QED BY <3>1, <3>2, <3>3, <3>4, <3>5, <3>6, <3>7, <3>8
  <2>4. ASSUME NEW q \in AvAgents PROVE Offspring(q)' = Offspring(q)
    <3>1. Children(q)' = Children(q)
      BY <1>1, <2>1 DEF Children
    <3> QED BY <3>1, <2>3 DEF Offspring
  <2> QED BY <1>1, <2>2, <2>4, TreeStands
<1> QED BY <1>2, <1>3

\* A call that makes a directory no other made.
LEMMA MakeIs ==
  ASSUME AvInv, NEW p \in AvAgents, AvMake(p), ~avCrossed'
  PROVE  \E c \in AvAgents : \E call \in AvCalls :
           /\ c = avCall[p].child /\ c \notin avDir /\ avCall[p].at = "make" /\ p \in avHeart /\ ~avCrossed
           /\ avDir' = avDir \cup {c}
           /\ avCall' \in [AvAgents -> AvCalls] /\ avCall'[p] = call /\ call.at = "wait" /\ call.child = c
           /\ \A q \in AvAgents : q # p => avCall'[q] = avCall[q]
           /\ avProc'[p][c] = "booting"
           /\ \A q, d \in AvAgents : q # p \/ d # c => avProc'[q][d] = avProc[q][d]
           /\ \A q \in AvAgents : q # c => avRules'[q] = avRules[q]
           /\ \A q \in AvAgents : Children(q)' = Children(q)
<1>1. PICK c \in AvAgents : c = avCall[p].child /\ c # Top /\ avProc[p][c] = "none"
  BY DEF AvMake, At, AvInv, AvBorn
<1>a. /\ avCall[p].at = "make" /\ avCall[p] \in AvCalls /\ p \in avHeart
      /\ c \notin avDir /\ ~avCrossed /\ avDir' = avDir \cup {c}
  BY <1>1, AvFacts DEF AvMake, At
<1>0. PICK call : call = [avCall[p] EXCEPT !.at = "wait"]
  OBVIOUS
<1>2. call \in AvCalls /\ call.at = "wait" /\ call.child = c
  BY <1>0, <1>1, <1>a, CallAdvances DEF AvCallAt
<1>3. /\ avCall' \in [AvAgents -> AvCalls] /\ avCall'[p] = call
      /\ \A q \in AvAgents : q # p => avCall'[q] = avCall[q]
  BY <1>0, <1>2, CallMoves DEF AvMake
<1>4. /\ avProc'[p][c] = "booting"
      /\ \A q, d \in AvAgents : q # p \/ d # c => avProc'[q][d] = avProc[q][d]
  <2>1. avProc' = [avProc EXCEPT ![p][c] = "booting"]
    BY <1>1 DEF AvMake
  <2> QED BY <2>1, AvFacts
<1>5. \A q \in AvAgents : q # c => avRules'[q] = avRules[q]
  <2>1. PICK deep \in BOOLEAN :
          avRules' = [avRules EXCEPT ![c] = IF deep THEN Inherited(p, deep).rules ELSE @]
    BY <1>1 DEF AvMake
  <2> QED BY <2>1, AvFacts
<1>6. ASSUME NEW q \in AvAgents PROVE Children(q)' = Children(q)
  <2>1. avLedger' = avLedger /\ \A r \in avLedger[q] : r.child \in avDir
    BY DEF AvMake, AvInv, AvBorn
  <2> QED BY <2>1, <1>a DEF Children
<1> QED BY <1>1, <1>2, <1>3, <1>4, <1>5, <1>6, <1>a

LEMMA MakeTree ==
  ASSUME AvInv, NEW p \in AvAgents, AvMake(p), ~avCrossed'
  PROVE  AvTree'
<1>1. PICK c \in AvAgents, call \in AvCalls :
           /\ c = avCall[p].child /\ c \notin avDir /\ avCall[p].at = "make" /\ p \in avHeart /\ ~avCrossed
           /\ avDir' = avDir \cup {c}
           /\ avCall' \in [AvAgents -> AvCalls] /\ avCall'[p] = call /\ call.at = "wait" /\ call.child = c
           /\ \A q \in AvAgents : q # p => avCall'[q] = avCall[q]
           /\ avProc'[p][c] = "booting"
           /\ \A q, d \in AvAgents : q # p \/ d # c => avProc'[q][d] = avProc[q][d]
           /\ \A q \in AvAgents : Children(q)' = Children(q)
  BY MakeIs
<1>2. AvTree /\ p \in avDir
  BY <1>1, AvFacts DEF AvInv
<1>3. \A q, r, d \in AvAgents : avProc'[q][d] # "none" /\ avProc'[r][d] # "none" => q = r
  <2>1. \A q \in AvAgents : q # p => avProc'[q][c] = "none"
    BY <1>1 DEF AvInv, AvBorn
  <2>2. \A q, d \in AvAgents : d # c => avProc'[q][d] = avProc[q][d]
    BY <1>1
  <2> QED BY <2>1, <2>2, <1>2 DEF AvTree
<1>4. /\ \A q \in AvAgents : q # p => Offspring(q)' = Offspring(q)
      /\ Offspring(p)' = Offspring(p) \cup {c}
  BY <1>1 DEF Offspring
<1>5. ASSUME NEW s \in SUBSET AvAgents, Top \in s, \A b \in s : Offspring(b)' \subseteq s
      PROVE  avDir' \subseteq s
  <2>1. \A b \in s : Offspring(b) \subseteq s
    BY <1>4, <1>5
  <2>2. avDir \subseteq s
    BY <1>2, <1>5, <2>1 DEF AvTree
  <2>3. c \in Offspring(p)' /\ p \in s
    BY <1>2, <1>4, <2>2
  <2>4. c \in s
    BY <2>3, <1>5
  <2> QED BY <2>2, <2>4, <1>1
<1>6. \E age \in [AvAgents -> Nat] : \A q \in AvAgents : \A a \in Offspring(q)' : age[q] < age[a]
  <2>1. PICK age \in [AvAgents -> Nat] : \A q \in AvAgents : \A a \in Offspring(q) : age[q] < age[a]
    BY <1>2 DEF AvTree
  <2>2. PICK new : new = [age EXCEPT ![c] = age[p] + 1]
    OBVIOUS
  <2>3. new \in [AvAgents -> Nat] /\ new[c] = age[p] + 1 /\ \A q \in AvAgents : q # c => new[q] = age[q]
    BY <2>2
  <2>4. \A q \in AvAgents : Offspring(q) \subseteq avDir
    BY DEF Offspring, Children, AvInv, AvBorn
  <2>5. Offspring(c) = {}
    <3>1. c \notin avHeart
      BY <1>1, AvFacts
    <3>2. avLedger[c] = {} /\ avCall[c].at = "idle"
      BY <3>1 DEF AvInv, AvBorn
    <3> QED BY <3>2 DEF Offspring, Children
  <2>6. ASSUME NEW q \in AvAgents, NEW a \in Offspring(q)' PROVE new[q] < new[a]
    <3>1. CASE a \in Offspring(q)
      <4>1. a \in AvAgents /\ a # c /\ q # c
        BY <3>1, <1>1, <2>4, <2>5, AvFacts
      <4>2. age[q] < age[a]
        BY <3>1, <2>1
      <4> QED BY <4>1, <4>2, <2>3
    <3>2. CASE a \notin Offspring(q)
      <4>1. q = p /\ a = c /\ p # c
        BY <3>2, <1>1, <1>2, <1>4
      <4>2. age[p] \in Nat
        OBVIOUS
      <4> QED BY <4>1, <4>2, <2>3
    <3> QED BY <3>1, <3>2
  <2> QED BY <2>3, <2>6
<1> QED BY <1>3, <1>5, <1>6 DEF AvTree

LEMMA ReachStays ==
  ASSUME \A b \in AvAgents : Children(b)' = Children(b), NEW root
  PROVE  Reach(root)' = Reach(root)
BY DEF Reach

\* The parts of AvOwed.
BeatsTrue == \A a \in AvAgents : avBeat[a].at = "read" => avSignal[a] = avBeat[a].rules
TodoBelow == \A p \in AvAgents : avCall[p].at = "write" => avCall[p].todo \subseteq Below(p)
StaleBelow ==
  \A p \in AvAgents : Hands(p) /\ avCall[p].rules # avSet =>
    \E q, root \in AvAgents : Raises(q, root) /\ p \in Reach(root)
AllOwed == \A a \in AvAgents : Alive(a) => Final(a) = avSet \/ Owed(a)

LEMMA OwedParts == ASSUME AvInv, ~avCrossed PROVE AvTree /\ BeatsTrue /\ TodoBelow /\ StaleBelow /\ AllOwed
BY DEF AvInv, AvOwed, BeatsTrue, TodoBelow, StaleBelow, AllOwed

LEMMA PartsOwed == ASSUME BeatsTrue', TodoBelow', StaleBelow', AllOwed' PROVE AvOwed'
BY DEF AvOwed, BeatsTrue, TodoBelow, StaleBelow, AllOwed

\* Steps that hand out nothing: a call is as it was, or on the way to be one that raises.
LEMMA OwedStays ==
  ASSUME AvInv, ~avCrossed, avSet' = avSet, BeatsTrue',
         \A b \in AvAgents : Children(b)' = Children(b),
         \A p \in AvAgents : \/ avCall'[p] = avCall[p]
                             \/ avCall[p].at \in {"idle", "make"} /\ avCall'[p].at \in {"idle", "make", "wait"},
         \A a \in AvAgents : Alive(a)' => (Alive(a) /\ Final(a)' = Final(a)) \/ Owed(a)'
  PROVE  AvOwed'
<1>1. AvTree /\ TodoBelow /\ StaleBelow /\ AllOwed
  BY OwedParts
<1>2. \A root \in AvAgents : Reach(root)' = Reach(root) /\ Below(root)' = Below(root)
  BY ReachStays DEF Below
<1>3. TodoBelow'
  BY <1>1, <1>2 DEF TodoBelow
<1>4. ASSUME NEW p \in AvAgents, NEW root \in AvAgents, Raises(p, root) PROVE Raises(p, root)'
  BY <1>4 DEF Raises
<1>5. StaleBelow'
  <2> SUFFICES ASSUME NEW p \in AvAgents, Hands(p)', avCall'[p].rules # avSet'
               PROVE  \E q, root \in AvAgents : Raises(q, root)' /\ p \in Reach(root)'
    BY DEF StaleBelow
  <2>1. Hands(p) /\ avCall[p].rules # avSet
    BY DEF Hands
  <2>2. PICK q, root \in AvAgents : Raises(q, root) /\ p \in Reach(root)
    BY <2>1, <1>1 DEF StaleBelow
  <2> QED BY <2>2, <1>2, <1>4
<1>6. ASSUME NEW a \in AvAgents, Owed(a) PROVE Owed(a)'
  <2>1. PICK p \in AvAgents : Promised(p, a)
    BY <1>6 DEF Owed
  <2>2. CASE \E root \in AvAgents : Raises(p, root) /\ a \in Reach(root)
    <3>1. PICK root \in AvAgents : Raises(p, root) /\ a \in Reach(root)
      BY <2>2
    <3>2. Raises(p, root)' /\ a \in Reach(root)'
      BY <3>1, <1>2, <1>4
    <3> QED BY <3>2 DEF Promised, Owed
  <2>3. CASE avCall[p].at = "walk" /\ avCall[p].rules = avSet /\ a \in Below(p)
    <3>1. avCall'[p] = avCall[p] /\ a \in Below(p)'
      BY <2>3, <1>2
    <3>2. avCall'[p].at = "walk" /\ avCall'[p].rules = avSet' /\ a \in Below(p)'
      BY <2>3, <3>1
    <3> QED BY <3>2 DEF Promised, Owed
  <2>4. CASE avCall[p].at = "write" /\ avCall[p].rules = avSet /\ a \in avCall[p].todo
    <3>1. avCall'[p].at = "write" /\ avCall'[p].rules = avSet' /\ a \in avCall'[p].todo
      BY <2>4
    <3> QED BY <3>1 DEF Promised, Owed
  <2> QED BY <2>1, <2>2, <2>3, <2>4 DEF Promised
<1>7. AllOwed'
  <2> SUFFICES ASSUME NEW a \in AvAgents, Alive(a)' PROVE Final(a)' = avSet' \/ Owed(a)'
    BY DEF AllOwed
  <2>1. CASE Owed(a)'
    BY <2>1
  <2>2. CASE Alive(a) /\ Final(a)' = Final(a)
    BY <2>2, <1>1, <1>6 DEF AllOwed
  <2> QED BY <2>1, <2>2
<1> QED BY <1>3, <1>5, <1>7, PartsOwed

\* Nothing is lost while a heartbeat thread carries it.
LEMMA BeatOwed ==
  ASSUME AvInv, NEW a \in AvAgents, ~avCrossed',
         AvBeatReads(a) \/ AvBeatUnlinks(a) \/ AvBeatKeeps(a) \/ AvBeatFails(a)
  PROVE  AvOwed'
<1>1. PICK beat \in AvBeats :
           /\ avBeat' \in [AvAgents -> AvBeats] /\ avBeat'[a] = beat
           /\ \A q \in AvAgents : q # a => avBeat'[q] = avBeat[q]
           /\ AvBeatReads(a) => beat.at = "read" /\ beat.rules = avSignal[a]
           /\ AvBeatUnlinks(a) => beat.at = "unlinked" /\ beat.rules = avBeat[a].rules
           /\ AvBeatKeeps(a) \/ AvBeatFails(a) => beat = BeatIdle
  BY BeatIs
<1>2. UNCHANGED <<avDir, avHeart, avProc, avLedger, avCall, avSet, avCrossed>> /\ ~AvBeatFails(a)
  BY DEF AvBeatReads, AvBeatUnlinks, AvBeatKeeps, AvBeatFails, avLife
<1>3. BeatsTrue
  BY <1>2, OwedParts
<1>4. /\ \A q \in AvAgents : q # a => avSignal'[q] = avSignal[q] /\ avRules'[q] = avRules[q]
      /\ AvBeatReads(a) => /\ avSignal'[a] = avSignal[a] /\ avRules'[a] = avRules[a]
                           /\ avSignal[a] # 0 /\ avBeat[a].at = "idle"
      /\ AvBeatUnlinks(a) => avSignal'[a] = 0 /\ avRules'[a] = avRules[a] /\ avBeat[a].at = "read"
      /\ AvBeatKeeps(a) => /\ avSignal'[a] = avSignal[a] /\ avRules'[a] = avBeat[a].rules
                           /\ avBeat[a].at = "unlinked"
  BY AvFacts DEF AvBeatReads, AvBeatUnlinks, AvBeatKeeps, AvBeatFails, avFiles, BeatIdle
<1>5. BeatsTrue'
  <2>1. avBeat'[a].at = "read" => AvBeatReads(a)
    BY <1>1, <1>2 DEF BeatIdle
  <2>2. avBeat'[a].at = "read" => avSignal'[a] = avBeat'[a].rules
    BY <2>1, <1>1, <1>4
  <2>3. \A q \in AvAgents : q # a => (avBeat'[q].at = "read" => avSignal'[q] = avBeat'[q].rules)
    BY <1>1, <1>3, <1>4 DEF BeatsTrue
  <2> QED BY <2>2, <2>3 DEF BeatsTrue
<1>6. ASSUME NEW q \in AvAgents PROVE Final(q)' = Final(q)
  <2>1. CASE q # a
    BY <2>1, <1>1, <1>4 DEF Final
  <2>2. CASE q = a /\ AvBeatReads(a)
    BY <2>2, <1>4 DEF Final
  <2>3. CASE q = a /\ AvBeatUnlinks(a)
    <3>1. avSignal[a] = avBeat[a].rules
      BY <2>3, <1>3, <1>4 DEF BeatsTrue
    <3>2. avSignal'[a] = 0 /\ avBeat'[a].at = "unlinked" /\ avBeat'[a].rules = avBeat[a].rules
      BY <2>3, <1>1, <1>4
    <3> QED BY <2>3, <3>1, <3>2, <1>4 DEF Final
  <2>4. CASE q = a /\ AvBeatKeeps(a)
    <3>1. avBeat'[a].at = "idle"
      BY <2>4, <1>1 DEF BeatIdle
    <3> QED BY <2>4, <3>1, <1>4 DEF Final
  <2> QED BY <2>1, <2>2, <2>3, <2>4, <1>2
<1>7. \A q \in AvAgents : Alive(q)' => Alive(q)
  BY <1>2 DEF Alive
<1>8. \A b \in AvAgents : Children(b)' = Children(b)
  BY <1>2 DEF Children
<1> QED BY <1>2, <1>5, <1>6, <1>7, <1>8, OwedStays

LEMMA LifeOwed ==
  ASSUME AvInv, NEW a \in AvAgents, NEW c \in AvAgents, ~avCrossed',
         AvCrash(a) \/ AvRelaunch(a) \/ AvSetFails(a) \/ AvBoots(a, c) \/ AvDies(a, c) \/ AvSpawn(a, c)
  PROVE  AvOwed'
<1>1. UNCHANGED <<avDir, avLedger, avRules, avSignal, avSet>>
  BY DEF AvCrash, AvRelaunch, AvSetFails, AvBoots, AvDies, AvSpawn, avLife, avFiles
<1>2. ~avCrossed
  BY DEF AvCrash, AvRelaunch, AvSetFails, AvBoots, AvDies, AvSpawn
<1>3. \A q \in AvAgents : \/ avBeat'[q].at = avBeat[q].at /\ avBeat'[q].rules = avBeat[q].rules
                          \/ avBeat'[q].at = "idle" /\ avBeat[q].at = "idle"
  <2>1. CASE AvCrash(a)
    <3>1. avBeat[a].at = "idle"
      BY <2>1 DEF AvCrash
    <3> QED BY <3>1, <2>1, CrashIs DEF BeatIdle
  <2>2. CASE ~AvCrash(a)
    <3>1. avBeat' = avBeat
      BY <2>2 DEF AvRelaunch, AvSetFails, AvBoots, AvDies, AvSpawn
    <3> QED BY <3>1
  <2> QED BY <2>1, <2>2
<1>4. BeatsTrue'
  <2>1. BeatsTrue
    BY <1>2, OwedParts
  <2> QED BY <2>1, <1>1, <1>3 DEF BeatsTrue
<1>5. \A q \in AvAgents : \/ avCall'[q] = avCall[q]
                          \/ avCall[q].at \in {"idle", "make"} /\ avCall'[q].at \in {"idle", "make", "wait"}
  <2>1. CASE AvCrash(a)
    <3>1. avCall[a].at = "idle"
      BY <2>1 DEF AvCrash
    <3> QED BY <3>1, <2>1, CrashIs, NoAvatarCallIs
  <2>2. CASE AvSpawn(a, c)
    <3>0. PICK call : call = [NoAvatarCall EXCEPT !.at = "make", !.child = c]
      OBVIOUS
    <3>1. call.at = "make" /\ call \in AvCalls
      BY <3>0 DEF NoAvatarCall, AvCalls, AvCallAt
    <3>2. avCall' = [avCall EXCEPT ![a] = call] /\ avCall[a].at = "idle"
      BY <2>2, <3>0 DEF AvSpawn, At, Goes
    <3> QED BY <3>1, <3>2, AvFacts
  <2>3. CASE ~AvCrash(a) /\ ~AvSpawn(a, c)
    <3>1. avCall' = avCall
      BY <2>3 DEF AvRelaunch, AvSetFails, AvBoots, AvDies
    <3> QED BY <3>1
  <2> QED BY <2>1, <2>2, <2>3
<1>6. \A q \in AvAgents : Final(q)' = Final(q)
  BY <1>1, <1>3 DEF Final
<1>7. ASSUME NEW q \in AvAgents, Alive(q)' PROVE Alive(q)
  <2>1. CASE AvBoots(a, c) \/ AvDies(a, c)
    <3>1. PICK v \in {"up", "exited"} : avProc' = [avProc EXCEPT ![a][c] = v]
      BY <2>1 DEF AvBoots, AvDies
    <3>2. avProc[a][c] = "booting" /\ avHeart' \subseteq avHeart \cup {c}
      BY <2>1 DEF AvBoots, AvDies
    <3>3. \A r, d \in AvAgents : avProc'[r][d] = "booting" => avProc[r][d] = "booting"
      BY <3>1, AvFacts
    <3> QED BY <3>2, <3>3, <1>7 DEF Alive
  <2>2. CASE ~AvBoots(a, c) /\ ~AvDies(a, c)
    <3>1. avHeart' = avHeart /\ avProc' = avProc
      BY <2>2 DEF AvCrash, AvRelaunch, AvSetFails, AvSpawn, avLife
    <3> QED BY <3>1, <1>7 DEF Alive
  <2> QED BY <2>1, <2>2
<1>8. \A b \in AvAgents : Children(b)' = Children(b)
  BY <1>1 DEF Children
<1> QED BY <1>1, <1>2, <1>4, <1>5, <1>6, <1>7, <1>8, OwedStays

\* A newborn will be handed the rules by the call that makes it.
LEMMA MakeOwed ==
  ASSUME AvInv, NEW p \in AvAgents, AvMake(p), ~avCrossed'
  PROVE  AvOwed'
<1>1. PICK c \in AvAgents, call \in AvCalls :
           /\ c = avCall[p].child /\ c \notin avDir /\ avCall[p].at = "make" /\ p \in avHeart /\ ~avCrossed
           /\ avDir' = avDir \cup {c}
           /\ avCall' \in [AvAgents -> AvCalls] /\ avCall'[p] = call /\ call.at = "wait" /\ call.child = c
           /\ \A q \in AvAgents : q # p => avCall'[q] = avCall[q]
           /\ avProc'[p][c] = "booting"
           /\ \A q, d \in AvAgents : q # p \/ d # c => avProc'[q][d] = avProc[q][d]
           /\ \A q \in AvAgents : q # c => avRules'[q] = avRules[q]
           /\ \A q \in AvAgents : Children(q)' = Children(q)
  BY MakeIs
<1>2. UNCHANGED <<avSignal, avBeat, avSet, avHeart>>
  BY DEF AvMake, Inherited
<1>3. BeatsTrue'
  <2>1. BeatsTrue
    BY <1>1, OwedParts
  <2> QED BY <2>1, <1>2 DEF BeatsTrue
<1>4. \A q \in AvAgents : \/ avCall'[q] = avCall[q]
                          \/ avCall[q].at \in {"idle", "make"} /\ avCall'[q].at \in {"idle", "make", "wait"}
  BY <1>1
<1>5. ASSUME NEW a \in AvAgents, Alive(a)' PROVE (Alive(a) /\ Final(a)' = Final(a)) \/ Owed(a)'
  <2>1. CASE a = c
    <3>1. Raises(p, c)'
      BY <1>1 DEF Raises
    <3>2. Reach(c)' = Reach(c) /\ c \in Reach(c)
      BY <1>1, ReachStays, ReachHas
    <3> QED BY <2>1, <3>1, <3>2 DEF Owed, Promised
  <2>2. CASE a # c
    <3>1. \A q \in AvAgents : avProc'[q][a] = avProc[q][a]
      BY <1>1, <2>2
    <3>2. Alive(a)
      BY <3>1, <1>2, <1>5 DEF Alive
    <3>3. Final(a)' = Final(a)
      BY <1>1, <1>2, <2>2 DEF Final
    <3> QED BY <3>2, <3>3
  <2> QED BY <2>1, <2>2
<1> QED BY <1>1, <1>2, <1>3, <1>4, <1>5, OwedStays

\* A call that hands out rules goes on.
LEMMA HandsOn ==
  ASSUME AvInv, ~avCrossed, NEW p \in AvAgents, Hands(p), BeatsTrue',
         UNCHANGED <<avDir, avHeart, avProc, avLedger, avSet>>,
         \A q \in AvAgents : q # p => avCall'[q] = avCall[q],
         \/ avCall'[p].at = "idle"
         \/ /\ avCall'[p].at = "write" /\ avCall'[p].rules = avCall[p].rules
            /\ avCall'[p].todo \subseteq Below(p),
         \A a \in AvAgents : Promised(p, a) => Promised(p, a)' \/ Final(a)' = avSet,
         \A a \in AvAgents : \/ Final(a)' = Final(a) \/ Final(a)' = avSet
                             \/ \E q, root \in AvAgents : Raises(q, root) /\ a \in Reach(root)
  PROVE  AvOwed'
<1>1. AvTree /\ TodoBelow /\ StaleBelow /\ AllOwed
  BY OwedParts
<1>2. \A root \in AvAgents : Reach(root)' = Reach(root) /\ Below(root)' = Below(root)
  BY ReachStays DEF Below, Children
<1>3. TodoBelow'
  <2> SUFFICES ASSUME NEW q \in AvAgents, avCall'[q].at = "write" PROVE avCall'[q].todo \subseteq Below(q)'
    BY DEF TodoBelow
  <2>1. CASE q = p
    BY <2>1, <1>2
  <2>2. CASE q # p
    BY <2>2, <1>1, <1>2 DEF TodoBelow
  <2> QED BY <2>1, <2>2
<1>4. ASSUME NEW q \in AvAgents, NEW root \in AvAgents, Raises(q, root) PROVE q # p /\ Raises(q, root)'
  <2>1. q # p
    BY <1>4 DEF Raises, Hands
  <2> QED BY <2>1, <1>4 DEF Raises
<1>5. StaleBelow'
  <2> SUFFICES ASSUME NEW x \in AvAgents, Hands(x)', avCall'[x].rules # avSet'
               PROVE  \E q, root \in AvAgents : Raises(q, root)' /\ x \in Reach(root)'
    BY DEF StaleBelow
  <2>1. Hands(x) /\ avCall[x].rules # avSet
    <3>1. CASE x = p
      BY <3>1 DEF Hands
    <3>2. CASE x # p
      BY <3>2 DEF Hands
    <3> QED BY <3>1, <3>2
  <2>2. PICK q, root \in AvAgents : Raises(q, root) /\ x \in Reach(root)
    BY <2>1, <1>1 DEF StaleBelow
  <2> QED BY <2>2, <1>2, <1>4
<1>6. ASSUME NEW a \in AvAgents, NEW q \in AvAgents, q # p, Promised(q, a) PROVE Owed(a)'
  <2>0. avCall'[q] = avCall[q]
    BY <1>6
  <2>2. CASE \E root \in AvAgents : Raises(q, root) /\ a \in Reach(root)
    <3>1. PICK root \in AvAgents : Raises(q, root) /\ a \in Reach(root)
      BY <2>2
    <3>2. Raises(q, root)' /\ a \in Reach(root)'
      BY <3>1, <1>2, <1>4
    <3> QED BY <3>2 DEF Promised, Owed
  <2>3. CASE avCall[q].at = "walk" /\ avCall[q].rules = avSet /\ a \in Below(q)
    <3>2. avCall'[q].at = "walk" /\ avCall'[q].rules = avSet' /\ a \in Below(q)'
      BY <2>0, <2>3, <1>2
    <3> QED BY <3>2 DEF Promised, Owed
  <2>4. CASE avCall[q].at = "write" /\ avCall[q].rules = avSet /\ a \in avCall[q].todo
    <3>1. avCall'[q].at = "write" /\ avCall'[q].rules = avSet' /\ a \in avCall'[q].todo
      BY <2>0, <2>4
    <3> QED BY <3>1 DEF Promised, Owed
  <2> QED BY <1>6, <2>2, <2>3, <2>4 DEF Promised
<1>7. AllOwed'
  <2> SUFFICES ASSUME NEW a \in AvAgents, Alive(a)' PROVE Final(a)' = avSet' \/ Owed(a)'
    BY DEF AllOwed
  <2>1. Final(a) = avSet \/ Owed(a)
    BY <1>1 DEF AllOwed, Alive
  <2>2. CASE Owed(a)
    <3>1. PICK q \in AvAgents : Promised(q, a)
      BY <2>2 DEF Owed
    <3>2. CASE q = p
      BY <3>1, <3>2 DEF Owed
    <3>3. CASE q # p
      BY <3>1, <3>3, <1>6
    <3> QED BY <3>2, <3>3
  <2>3. CASE \E q, root \in AvAgents : Raises(q, root) /\ a \in Reach(root)
    <3>1. PICK q, root \in AvAgents : Raises(q, root) /\ a \in Reach(root)
      BY <2>3
    <3>2. q # p /\ Promised(q, a)
      BY <3>1, <1>4 DEF Promised
    <3> QED BY <3>2, <1>6
  <2>4. CASE Final(a) = avSet /\ (Final(a)' = Final(a) \/ Final(a)' = avSet)
    BY <2>4
  <2>5. \/ Final(a)' = Final(a) \/ Final(a)' = avSet
        \/ \E q, root \in AvAgents : Raises(q, root) /\ a \in Reach(root)
    OBVIOUS
  <2> QED BY <2>1, <2>2, <2>3, <2>4, <2>5
<1> QED BY <1>3, <1>5, <1>7, PartsOwed

LEMMA WalkOwed ==
  ASSUME AvInv, NEW p \in AvAgents, AvWalk(p), ~avCrossed'
  PROVE  AvOwed'
<1>1. PICK call \in AvCalls :
           /\ avCall[p].at = "walk" /\ p \in avUp
           /\ avCall' \in [AvAgents -> AvCalls] /\ avCall'[p] = call
           /\ \A q \in AvAgents : q # p => avCall'[q] = avCall[q]
           /\ IF Below(p) = {} THEN call = NoAvatarCall
              ELSE call.at = "write" /\ call.rules = avCall[p].rules /\ call.todo = Below(p)
                   /\ call.child = avCall[p].child
  BY WalkIs
<1>2. UNCHANGED <<avDir, avHeart, avProc, avLedger, avRules, avSignal, avBeat, avSet>> /\ ~avCrossed
  BY DEF AvWalk, avLife, avFiles
<1>3. BeatsTrue'
  <2>1. BeatsTrue
    BY <1>2, OwedParts
  <2> QED BY <2>1, <1>2 DEF BeatsTrue
<1>4. Hands(p)
  BY <1>1 DEF Hands
<1>5. \A a \in AvAgents : Final(a)' = Final(a)
  BY <1>2 DEF Final
<1>6. \/ avCall'[p].at = "idle"
      \/ /\ avCall'[p].at = "write" /\ avCall'[p].rules = avCall[p].rules
         /\ avCall'[p].todo \subseteq Below(p)
  BY <1>1, NoAvatarCallIs
<1>7. ASSUME NEW a \in AvAgents, Promised(p, a) PROVE Promised(p, a)'
  <2>1. avCall[p].rules = avSet /\ a \in Below(p)
    BY <1>1, <1>7 DEF Promised, Raises
  <2>2. avCall'[p].at = "write" /\ avCall'[p].rules = avSet' /\ a \in avCall'[p].todo
    BY <2>1, <1>1, <1>2
  <2> QED BY <2>2 DEF Promised
<1> QED BY <1>1, <1>2, <1>3, <1>4, <1>5, <1>6, <1>7, HandsOn

\* The rules an agent will have are no others than were set.
LEMMA FinalSet ==
  ASSUME AvInv, NEW a \in AvAgents
  PROVE  Final(a) \in Nat /\ Final(a) <= avSet
<1>1. avRules[a] \in Nat /\ avSignal[a] \in Nat /\ avBeat[a].rules \in Nat
  BY AvFacts DEF AvBeats
<1>2. avRules[a] <= avSet /\ avSignal[a] <= avSet /\ avBeat[a].rules <= avSet
  BY DEF AvInv, AvNumbers
<1> QED BY <1>1, <1>2 DEF Final

LEMMA WritesOwed ==
  ASSUME AvInv, NEW p \in AvAgents, NEW a \in AvAgents, AvWrites(p, a), ~avCrossed'
  PROVE  AvOwed'
<1>0. At(p, "write") /\ a \in avCall[p].todo /\ RulesWritten(p, a)
  BY DEF AvWrites
<1>1. PICK call \in AvCalls :
           /\ avCall[p].at = "write" /\ p \in avUp
           /\ avCall' \in [AvAgents -> AvCalls] /\ avCall'[p] = call
           /\ \A q \in AvAgents : q # p => avCall'[q] = avCall[q]
           /\ IF avCall[p].todo = {a} THEN call = NoAvatarCall
              ELSE call.at = "write" /\ call.rules = avCall[p].rules
                   /\ call.todo = avCall[p].todo \ {a} /\ call.child = avCall[p].child
  BY <1>0, WrittenIs
<1>2. /\ UNCHANGED <<avDir, avHeart, avProc, avLedger, avRules, avBeat, avSet>>
      /\ ~avCrossed /\ avBeat[a].at # "read"
      /\ avSignal'[a] = avCall[p].rules /\ \A q \in AvAgents : q # a => avSignal'[q] = avSignal[q]
  BY AvFacts DEF AvWrites, avLife, avFiles
<1>3. BeatsTrue /\ TodoBelow /\ StaleBelow
  BY <1>2, OwedParts
<1>4. BeatsTrue'
  BY <1>2, <1>3 DEF BeatsTrue
<1>5. Hands(p) /\ avCall[p].todo \subseteq Below(p)
  BY <1>1, <1>3 DEF Hands, TodoBelow
<1>6. \/ avCall'[p].at = "idle"
      \/ /\ avCall'[p].at = "write" /\ avCall'[p].rules = avCall[p].rules
         /\ avCall'[p].todo \subseteq Below(p)
  BY <1>1, <1>5, NoAvatarCallIs
<1>7. ASSUME avCall[p].rules = avSet PROVE Final(a)' = avSet
  <2>1. CASE avSet # 0
    BY <2>1, <1>2, <1>7 DEF Final
  <2>2. CASE avSet = 0
    <3>1. avRules[a] \in Nat /\ avBeat[a].rules \in Nat /\ avRules[a] <= avSet /\ avBeat[a].rules <= avSet
      BY AvFacts DEF AvInv, AvNumbers, AvBeats
    <3>2. avSignal'[a] = 0 /\ avBeat'[a].rules = 0 /\ avRules'[a] = 0
      BY <3>1, <2>2, <1>2, <1>7
    <3> QED BY <3>2, <2>2 DEF Final
  <2> QED BY <2>1, <2>2
<1>8. ASSUME NEW b \in AvAgents, Promised(p, b) PROVE Promised(p, b)' \/ Final(b)' = avSet
  <2>1. avCall[p].rules = avSet /\ b \in avCall[p].todo
    BY <1>1, <1>8 DEF Promised, Raises
  <2>2. CASE b = a
    BY <2>1, <2>2, <1>7
  <2>3. CASE b # a
    <3>1. avCall'[p].at = "write" /\ avCall'[p].rules = avSet' /\ b \in avCall'[p].todo
      BY <2>1, <2>3, <1>1, <1>2
    <3> QED BY <3>1 DEF Promised
  <2> QED BY <2>2, <2>3
<1>9. ASSUME NEW b \in AvAgents
      PROVE  \/ Final(b)' = Final(b) \/ Final(b)' = avSet
             \/ \E q, root \in AvAgents : Raises(q, root) /\ b \in Reach(root)
  <2>1. CASE b # a
    BY <2>1, <1>2 DEF Final
  <2>2. CASE b = a /\ avCall[p].rules = avSet
    BY <2>2, <1>7
  <2>3. CASE b = a /\ avCall[p].rules # avSet
    <3>1. PICK q, root \in AvAgents : Raises(q, root) /\ p \in Reach(root)
      BY <2>3, <1>3, <1>5 DEF StaleBelow
    <3>2. a \in Reach(p)
      BY <1>0, <1>5 DEF Below
    <3>3. a \in Reach(root)
      BY <3>1, <3>2, ReachHas
    <3> QED BY <3>1, <3>3, <2>3
  <2> QED BY <2>1, <2>2, <2>3
<1> QED BY <1>1, <1>2, <1>4, <1>5, <1>6, <1>8, <1>9, HandsOn

\* Rules set at the top are promised to every other directory.
LEMMA SetOwed ==
  ASSUME AvInv, NEW p \in AvAgents, AvSetRules(p), ~avCrossed'
  PROVE  AvOwed'
<1>1. PICK call \in AvCalls :
           /\ avCall[p].at = "idle" /\ p \in avUp /\ p = Top
           /\ avCall' \in [AvAgents -> AvCalls] /\ avCall'[p] = call
           /\ \A q \in AvAgents : q # p => avCall'[q] = avCall[q]
           /\ call.at = "walk" /\ call.rules = avSet + 1
           /\ avSet' = avSet + 1 /\ avSignal' \in [AvAgents -> Nat] /\ avSignal'[p] = avSet + 1
           /\ \A q \in AvAgents : q # p => avSignal'[q] = avSignal[q]
  BY RulesSetIs
<1>2. /\ UNCHANGED <<avDir, avHeart, avProc, avLedger, avRules, avBeat>> /\ ~avCrossed
      /\ avBeat[p].at # "read" /\ \A q \in AvAgents : avCall[q].at = "idle"
  BY DEF AvSetRules, avLife
<1>3. AvTree /\ BeatsTrue
  BY <1>2, OwedParts
<1>4. BeatsTrue'
  BY <1>1, <1>2, <1>3 DEF BeatsTrue
<1>5. \A q \in AvAgents : avCall'[q].at = "walk" => q = p
  BY <1>1, <1>2
<1>6. \A q \in AvAgents : avCall'[q].at # "write"
  BY <1>1, <1>2
<1>7. TodoBelow' /\ StaleBelow'
  BY <1>1, <1>5, <1>6 DEF TodoBelow, StaleBelow, Hands
<1>8. avDir \subseteq Reach(Top)
  <2>1. \A b \in AvAgents : Offspring(b) = Children(b)
    BY <1>2 DEF Offspring
  <2>2. Top \in Reach(Top) /\ Reach(Top) \in SUBSET AvAgents
        /\ \A b \in Reach(Top) : Children(b) \subseteq Reach(Top)
    BY AvFacts, ReachHas
  <2>3. \A b \in Reach(Top) : Offspring(b) \subseteq Reach(Top)
    BY <2>1, <2>2
  <2> QED BY <2>2, <2>3, <1>3 DEF AvTree
<1>9. AllOwed'
  <2> SUFFICES ASSUME NEW a \in AvAgents, Alive(a)' PROVE Final(a)' = avSet' \/ Owed(a)'
    BY DEF AllOwed
  <2>1. CASE a = Top
    <3>1. avSet + 1 # 0
      BY AvFacts
    <3> QED BY <2>1, <3>1, <1>1 DEF Final
  <2>2. CASE a # Top
    <3>1. a \in avDir
      BY <1>2, AvFacts DEF Alive, AvInv, AvBorn
    <3>2. a \in Below(p)
      BY <3>1, <2>2, <1>1, <1>8 DEF Below
    <3>3. Reach(p)' = Reach(p)
      BY <1>2, ReachStays DEF Children
    <3>4. avCall'[p].at = "walk" /\ avCall'[p].rules = avSet' /\ a \in Below(p)'
      BY <3>2, <3>3, <1>1 DEF Below
    <3> QED BY <3>4 DEF Promised, Owed
  <2> QED BY <2>1, <2>2
<1> QED BY <1>4, <1>7, <1>9, PartsOwed

\* A newborn that failed runs nowhere and has nobody below it.
LEMMA FailedAlone ==
  ASSUME AvInv, ~avCrossed, NEW p \in AvAgents, AvWaited(p), Booted(p, avCall[p].child) = "failed"
  PROVE  \E c \in AvAgents : c = avCall[p].child /\ ~Alive(c) /\ Reach(c) = {c} /\ avCall[c].at = "idle"
<1>1. PICK c \in AvAgents : c = avCall[p].child /\ avProc[p][c] # "none"
  BY AvFacts DEF AvWaited, At, AvInv, AvBorn
<1>2. c \notin avHeart /\ avProc[p][c] = "exited"
  BY <1>1 DEF Booted
<1>3. avLedger[c] = {} /\ avCall[c].at = "idle"
  BY <1>2 DEF AvInv, AvBorn
<1>4. ~Alive(c)
  <2>1. AvTree
    BY OwedParts
  <2>2. ASSUME NEW q \in AvAgents, avProc[q][c] = "booting" PROVE FALSE
    <3>1. q = p
      BY <2>1, <2>2, <1>1 DEF AvTree
    <3> QED BY <3>1, <2>2, <1>2
  <2> QED BY <2>2, <1>2 DEF Alive
<1>5. Reach(c) = {c}
  <2>1. Children(c) = {}
    BY <1>3 DEF Children
  <2>2. ASSUME NEW a \in Reach(c) PROVE a \in {c}
    <3>1. {c} \in SUBSET AvAgents /\ c \in {c} /\ \A b \in {c} : Children(b) \subseteq {c}
      BY <2>1
    <3> QED BY <3>1, <2>2 DEF Reach
  <2>3. c \in Reach(c)
    BY ReachHas
  <2> QED BY <2>2, <2>3
<1> QED BY <1>1, <1>3, <1>4, <1>5

LEMMA WaitedOwed ==
  ASSUME AvInv, NEW p \in AvAgents, AvWaited(p), ~avCrossed'
  PROVE  AvOwed'
<1>1. PICK boot \in {"ok", "failed", "slow"}, call \in AvCalls :
           /\ boot = Booted(p, avCall[p].child) /\ avCall[p].at = "wait" /\ p \in avUp
           /\ avLedger' = [avLedger EXCEPT ![p] = @ \cup {[child |-> avCall[p].child, boot |-> boot]}]
           /\ avLedger' \in [AvAgents -> SUBSET [child : AvAgents, boot : {"ok", "failed", "slow"}]]
           /\ avCall' \in [AvAgents -> AvCalls] /\ avCall'[p] = call
           /\ \A q \in AvAgents : q # p => avCall'[q] = avCall[q]
           /\ IF boot = "failed" THEN call = NoAvatarCall
              ELSE call.at = "read" /\ call.child = avCall[p].child
                   /\ call.rules = avCall[p].rules /\ call.todo = avCall[p].todo
  BY WaitIs
<1>2. UNCHANGED <<avDir, avHeart, avProc, avRules, avSignal, avBeat, avSet>> /\ ~avCrossed
  BY DEF AvWaited, avLife, avFiles
<1>3. BeatsTrue /\ TodoBelow /\ StaleBelow /\ AllOwed
  BY <1>2, OwedParts
<1>4. BeatsTrue'
  BY <1>2, <1>3 DEF BeatsTrue
<1>5. \A b \in AvAgents : Children(b) \subseteq Children(b)'
  BY <1>1, <1>2, AvFacts DEF Children
<1>6. \A root \in AvAgents : Reach(root) \subseteq Reach(root)' /\ Below(root) \subseteq Below(root)'
  BY <1>5, ReachGrows DEF Below
<1>7. \A a \in AvAgents : Final(a)' = Final(a) /\ (Alive(a)' <=> Alive(a))
  BY <1>2 DEF Final, Alive
<1>8. avCall'[p].at \in {"idle", "read"}
  BY <1>1, NoAvatarCallIs
<1>9. TodoBelow'
  <2> SUFFICES ASSUME NEW q \in AvAgents, avCall'[q].at = "write" PROVE avCall'[q].todo \subseteq Below(q)'
    BY DEF TodoBelow
  <2>1. q # p
    BY <1>8
  <2> QED BY <2>1, <1>1, <1>3, <1>6 DEF TodoBelow
<1>10. ASSUME NEW a \in AvAgents, NEW q \in AvAgents, NEW root \in AvAgents, Raises(q, root), a \in Reach(root)
       PROVE  \/ \E r \in AvAgents : Raises(q, r)' /\ a \in Reach(r)'
              \/ ~Alive(a) /\ avCall[a].at = "idle" /\ a # p
  <2>1. CASE q # p
    <3>1. Raises(q, root)'
      BY <2>1, <1>1, <1>10 DEF Raises
    <3> QED BY <3>1, <1>6, <1>10
  <2>2. CASE q = p /\ boot # "failed"
    <3>1. Raises(q, root)'
      BY <2>2, <1>1, <1>10 DEF Raises
    <3> QED BY <3>1, <1>6, <1>10
  <2>3. CASE q = p /\ boot = "failed"
    <3>1. PICK c \in AvAgents : c = avCall[p].child /\ ~Alive(c) /\ Reach(c) = {c} /\ avCall[c].at = "idle"
      BY <2>3, <1>1, <1>2, FailedAlone
    <3>2. root = c
      BY <2>3, <3>1, <1>10 DEF Raises
    <3> QED BY <3>1, <3>2, <1>1, <1>10
  <2> QED BY <2>1, <2>2, <2>3
<1>11. StaleBelow'
  <2> SUFFICES ASSUME NEW x \in AvAgents, Hands(x)', avCall'[x].rules # avSet'
               PROVE  \E q, root \in AvAgents : Raises(q, root)' /\ x \in Reach(root)'
    BY DEF StaleBelow
  <2>1. x # p
    BY <1>8 DEF Hands
  <2>2. Hands(x) /\ avCall[x].rules # avSet
    BY <2>1, <1>1, <1>2 DEF Hands
  <2>3. PICK q, root \in AvAgents : Raises(q, root) /\ x \in Reach(root)
    BY <2>2, <1>3 DEF StaleBelow
  <2>4. avCall[x].at # "idle"
    BY <2>2 DEF Hands
  <2> QED BY <2>3, <2>4, <1>10
<1>12. AllOwed'
  <2> SUFFICES ASSUME NEW a \in AvAgents, Alive(a)' PROVE Final(a)' = avSet' \/ Owed(a)'
    BY DEF AllOwed
  <2>1. Alive(a) /\ Final(a)' = Final(a)
    BY <1>7
  <2>2. CASE Final(a) = avSet
    BY <2>1, <2>2, <1>2
  <2>3. CASE Owed(a)
    <3>1. PICK q \in AvAgents : Promised(q, a)
      BY <2>3 DEF Owed
    <3>2. CASE \E root \in AvAgents : Raises(q, root) /\ a \in Reach(root)
      <4>1. \E r \in AvAgents : Raises(q, r)' /\ a \in Reach(r)'
        BY <2>1, <3>2, <1>10
      <4> QED BY <4>1 DEF Owed, Promised
    <3>3. CASE avCall[q].at = "walk" /\ avCall[q].rules = avSet /\ a \in Below(q)
      <4>1. q # p
        BY <3>3, <1>1
      <4>2. avCall'[q].at = "walk" /\ avCall'[q].rules = avSet' /\ a \in Below(q)'
        BY <3>3, <4>1, <1>1, <1>2, <1>6
      <4> QED BY <4>2 DEF Owed, Promised
    <3>4. CASE avCall[q].at = "write" /\ avCall[q].rules = avSet /\ a \in avCall[q].todo
      <4>1. q # p
        BY <3>4, <1>1
      <4>2. avCall'[q].at = "write" /\ avCall'[q].rules = avSet' /\ a \in avCall'[q].todo
        BY <3>4, <4>1, <1>1, <1>2
      <4> QED BY <4>2 DEF Owed, Promised
    <3> QED BY <3>1, <3>2, <3>3, <3>4 DEF Promised
  <2> QED BY <2>1, <2>2, <2>3, <1>3 DEF AllOwed
<1> QED BY <1>4, <1>9, <1>11, <1>12, PartsOwed

\* An agent that reads its own rules for its newborn: they are the last, or it is itself
\* below a newborn whose call will reach further down.
LEMMA ReadsOwed ==
  ASSUME AvInv, NEW p \in AvAgents, AvReadsRules(p), ~avCrossed'
  PROVE  AvOwed'
<1>1. PICK call \in AvCalls :
           /\ avCall[p].at = "read" /\ p \in avUp
           /\ avCall' \in [AvAgents -> AvCalls] /\ avCall'[p] = call
           /\ \A q \in AvAgents : q # p => avCall'[q] = avCall[q]
           /\ IF avRules[p] = 0 THEN call = NoAvatarCall
              ELSE call.at = "walk" /\ call.rules = avRules[p] /\ call.child = avCall[p].child
  BY RulesReadIs
<1>2. UNCHANGED <<avDir, avHeart, avProc, avLedger, avRules, avSignal, avBeat, avSet>>
      /\ ~avCrossed /\ ~Crossing(p)
  BY DEF AvReadsRules, avLife, avFiles
<1>3. AvTree /\ BeatsTrue /\ TodoBelow /\ StaleBelow /\ AllOwed
  BY <1>2, OwedParts
<1>4. BeatsTrue'
  BY <1>2, <1>3 DEF BeatsTrue
<1>5. \A q \in AvAgents : q # p => avCall[q].at \notin {"read", "walk", "write"}
  BY <1>2 DEF Crossing
<1>6. Final(p) = avRules[p] /\ Alive(p)
  <2>1. avSignal[p] = 0 /\ avBeat[p].at = "idle"
    BY <1>2 DEF Crossing, BeatIdle
  <2>2. p \in avHeart
    BY <1>1, AvFacts
  <2> QED BY <2>1, <2>2 DEF Final, Alive
<1>7. PICK c \in AvAgents : c = avCall[p].child /\ c \in Children(p)
  BY <1>1, AvFacts DEF AvInv, AvBorn, Children
<1>8. Reach(c) \subseteq Reach(p) /\ p \notin Reach(c) /\ Reach(c) \subseteq Below(p)
  <2>1. Reach(c) \subseteq Reach(p)
    BY <1>7, ReachHas
  <2>2. c \in Offspring(p)
    BY <1>7 DEF Offspring
  <2>3. p \notin Reach(c)
    BY <2>2, <1>2, NoReturn
  <2> QED BY <2>1, <2>3 DEF Below
<1>9. \A root \in AvAgents : Reach(root)' = Reach(root) /\ Below(root)' = Below(root)
  BY <1>2, ReachStays DEF Below, Children
<1>10. \A a \in AvAgents : Final(a)' = Final(a) /\ (Alive(a)' <=> Alive(a))
  BY <1>2 DEF Final, Alive
<1>11. avCall'[p].at = "idle" \/ (avCall'[p].at = "walk" /\ avCall'[p].rules = avRules[p] /\ avRules[p] # 0)
  BY <1>1, NoAvatarCallIs
<1>12. \A q \in AvAgents : avCall'[q].at # "write" /\ (avCall'[q].at = "walk" => q = p)
  <2> SUFFICES ASSUME NEW q \in AvAgents PROVE avCall'[q].at # "write" /\ (avCall'[q].at = "walk" => q = p)
    OBVIOUS
  <2>1. CASE q = p
    BY <2>1, <1>11
  <2>2. CASE q # p
    BY <2>2, <1>1, <1>5
  <2> QED BY <2>1, <2>2
<1>13. TodoBelow'
  BY <1>12 DEF TodoBelow
<1>14. ASSUME NEW a \in AvAgents, NEW q \in AvAgents, NEW root \in AvAgents, q # p, Raises(q, root), a \in Reach(root)
       PROVE  Raises(q, root)' /\ a \in Reach(root)' /\ Owed(a)'
  <2>1. Raises(q, root)' /\ a \in Reach(root)'
    BY <1>1, <1>9, <1>14 DEF Raises
  <2> QED BY <2>1 DEF Owed, Promised
<1>15. ASSUME avRules[p] # avSet
       PROVE  \E q, root \in AvAgents : q # p /\ Raises(q, root) /\ p \in Reach(root)
  <2>1. Owed(p)
    BY <1>3, <1>6, <1>15 DEF AllOwed
  <2>2. PICK q \in AvAgents : Promised(q, p)
    BY <2>1 DEF Owed
  <2>3. PICK root \in AvAgents : Raises(q, root) /\ p \in Reach(root)
    BY <2>2, <1>1, <1>5 DEF Promised
  <2>4. q # p
    <3> SUFFICES ASSUME q = p PROVE FALSE
      OBVIOUS
    <3>1. root = c
      BY <2>3, <1>7 DEF Raises
    <3> QED BY <3>1, <2>3, <1>8
  <2> QED BY <2>3, <2>4
<1>16. StaleBelow'
  <2> SUFFICES ASSUME NEW x \in AvAgents, Hands(x)', avCall'[x].rules # avSet'
               PROVE  \E q, root \in AvAgents : Raises(q, root)' /\ x \in Reach(root)'
    BY DEF StaleBelow
  <2>1. x = p /\ avRules[p] # avSet
    BY <1>2, <1>11, <1>12 DEF Hands
  <2> QED BY <2>1, <1>14, <1>15
<1>17. AllOwed'
  <2> SUFFICES ASSUME NEW a \in AvAgents, Alive(a)' PROVE Final(a)' = avSet' \/ Owed(a)'
    BY DEF AllOwed
  <2>1. CASE Final(a) = avSet
    BY <2>1, <1>2, <1>10
  <2>2. CASE Final(a) # avSet
    <3>1. Owed(a)
      BY <2>2, <1>3, <1>10 DEF AllOwed
    <3>2. PICK q \in AvAgents : Promised(q, a)
      BY <3>1 DEF Owed
    <3>3. PICK root \in AvAgents : Raises(q, root) /\ a \in Reach(root)
      BY <3>2, <1>1, <1>5 DEF Promised
    <3>4. CASE q # p
      BY <3>3, <3>4, <1>14
    <3>5. CASE q = p
      <4>1. root = c
        BY <3>3, <3>5, <1>7 DEF Raises
      <4>2. a \in Reach(c) /\ a \in Below(p)'
        BY <4>1, <3>3, <1>8, <1>9
      <4>3. CASE avRules[p] # avSet
        <5>1. PICK q2, r2 \in AvAgents : q2 # p /\ Raises(q2, r2) /\ p \in Reach(r2)
          BY <4>3, <1>15
        <5>2. a \in Reach(r2)
          <6>1. Reach(p) \subseteq Reach(r2)
            BY <5>1, ReachHas
          <6> QED BY <6>1, <4>2, <1>8
        <5> QED BY <5>1, <5>2, <1>14
      <4>4. CASE avRules[p] = avSet /\ avSet # 0
        <5>1. avCall'[p].at = "walk" /\ avCall'[p].rules = avSet'
          BY <4>4, <1>1, <1>2
        <5> QED BY <5>1, <4>2 DEF Owed, Promised
      <4>5. CASE avSet = 0
        <5>1. Final(a) \in Nat /\ Final(a) <= avSet
          BY FinalSet
        <5> QED BY <5>1, <4>5, <2>2
      <4> QED BY <4>3, <4>4, <4>5
    <3> QED BY <3>4, <3>5
  <2> QED BY <2>1, <2>2
<1> QED BY <1>4, <1>13, <1>16, <1>17, PartsOwed

-----------------------------------------------------------------------------
LEMMA AvStarts == AvInit => AvInv
<1> SUFFICES ASSUME AvInit PROVE AvInv
  OBVIOUS
<1>1. Top \in AvAgents /\ Top = 1
  BY AvatarAssumption DEF Top
<1>2. BeatIdle \in AvBeats /\ NoAvatarCall \in AvCalls /\ NoAvatarCall.at = "idle" /\ NoAvatarCall.rules = 0
      /\ BeatIdle.at = "idle" /\ BeatIdle.rules = 0
  BY NoAvatarCallIs DEF BeatIdle, AvBeats
<1>3. AvCore
  BY <1>1, <1>2 DEF AvInit, AvCore
<1>4. \A p \in AvAgents : avCall[p].at = "idle" /\ avLedger[p] = {} /\ Offspring(p) = {}
  BY <1>2 DEF AvInit, Offspring, Children
<1>5. AvBorn /\ BootIsTrue
  BY <1>4 DEF AvInit, AvBorn, BootIsTrue
<1>6. AvNumbers
  BY <1>2 DEF AvInit, AvNumbers
<1>7. AvTree
  <2>1. \E age \in [AvAgents -> Nat] : \A p \in AvAgents : \A a \in Offspring(p) : age[p] < age[a]
    <3>1. [a \in AvAgents |-> 0] \in [AvAgents -> Nat]
      OBVIOUS
    <3> QED BY <3>1, <1>4
  <2> QED BY <2>1 DEF AvInit, AvTree
<1>8. AvOwed
  <2>1. \A a \in AvAgents : Final(a) = avSet
    BY <1>2 DEF AvInit, Final
  <2>2. \A a \in AvAgents : avBeat[a].at = "idle"
    BY <1>2 DEF AvInit
  <2> QED BY <2>1, <2>2, <1>4 DEF AvOwed, Hands
<1> QED BY <1>3, <1>5, <1>6, <1>7, <1>8 DEF AvInv

LEMMA AvSteps ==
  ASSUME AvInv, [AvNext]_avVars
  PROVE  AvInv'
<1>1. CASE UNCHANGED avVars
  <2>1. AvPlain'
    BY <1>1 DEF avVars, AvInv, AvPlain, AvCore, AvBorn, AvNumbers, BootIsTrue, Children
  <2>2. \A root \in AvAgents : Children(root)' = Children(root) /\ Offspring(root)' = Offspring(root)
    BY <1>1 DEF avVars, Children, Offspring
  <2>3. ~avCrossed' => AvTree'
    BY <1>1, <2>2, TreeStands DEF avVars
  <2>4. ~avCrossed' => AvOwed'
    <3> SUFFICES ASSUME ~avCrossed PROVE AvOwed'
      BY <1>1 DEF avVars
    <3>1. BeatsTrue'
      BY <1>1, OwedParts DEF avVars, BeatsTrue
    <3>2. \A a \in AvAgents : Alive(a)' => Alive(a) /\ Final(a)' = Final(a)
      BY <1>1 DEF avVars, Alive, Final
    <3> QED BY <1>1, <2>2, <3>1, <3>2, OwedStays DEF avVars
  <2> QED BY <2>1, <2>3, <2>4 DEF AvInv, AvPlain
<1>2. CASE AvNext
  <2>1. PICK a \in AvAgents, b \in AvAgents :
          \/ AvMake(a) \/ AvWaited(a) \/ AvReadsRules(a) \/ AvSetRules(a) \/ AvSetFails(a) \/ AvWalk(a)
          \/ AvBeatReads(a) \/ AvBeatUnlinks(a) \/ AvBeatKeeps(a) \/ AvBeatFails(a)
          \/ AvCrash(a) \/ AvRelaunch(a)
          \/ AvSpawn(a, b) \/ AvBoots(a, b) \/ AvDies(a, b) \/ AvWrites(a, b) \/ AvWriteFails(a, b)
    BY <1>2 DEF AvNext
  <2>2. CASE AvMake(a)
    BY <2>2, MakePlain, MakeTree, MakeOwed DEF AvInv, AvPlain
  <2>3. CASE AvWaited(a)
    BY <2>3, WaitedPlain, TreeSteps, WaitedOwed DEF AvInv, AvPlain
  <2>4. CASE AvReadsRules(a)
    BY <2>4, HandPlain, TreeSteps, ReadsOwed DEF AvInv, AvPlain
  <2>5. CASE AvSetRules(a)
    BY <2>5, HandPlain, TreeSteps, SetOwed DEF AvInv, AvPlain
  <2>6. CASE AvWalk(a)
    BY <2>6, HandPlain, TreeSteps, WalkOwed DEF AvInv, AvPlain
  <2>7. CASE AvWrites(a, b)
    BY <2>7, HandPlain, TreeSteps, WritesOwed DEF AvInv, AvPlain
  <2>8. CASE AvWriteFails(a, b)
    <3>1. avCrossed'
      BY <2>8 DEF AvWriteFails
    <3> QED BY <2>8, <3>1, HandPlain DEF AvInv, AvPlain
  <2>9. CASE AvBeatReads(a) \/ AvBeatUnlinks(a) \/ AvBeatKeeps(a) \/ AvBeatFails(a)
    BY <2>9, BeatPlain, TreeSteps, BeatOwed DEF AvInv, AvPlain
  <2>10. CASE AvCrash(a) \/ AvRelaunch(a) \/ AvSetFails(a)
    BY <2>10, LifePlain, TreeSteps, LifeOwed DEF AvInv, AvPlain
  <2>11. CASE AvSpawn(a, b)
    BY <2>11, SpawnPlain, TreeSteps, LifeOwed DEF AvInv, AvPlain
  <2>12. CASE AvBoots(a, b) \/ AvDies(a, b)
    BY <2>12, ProcPlain, TreeSteps, LifeOwed DEF AvInv, AvPlain
  <2> QED BY <2>1, <2>2, <2>3, <2>4, <2>5, <2>6, <2>7, <2>8, <2>9, <2>10, <2>11, <2>12
<1> QED BY <1>1, <1>2

LEMMA AtRestAllHave == AvInv => RulesReach
<1> SUFFICES ASSUME AvInv, Resting, ~avCrossed, NEW a \in avUp PROVE avRules[a] = avSet
  BY DEF RulesReach
<1>1. a \in AvAgents /\ Alive(a)
  BY AvFacts DEF Alive
<1>2. \A p \in AvAgents : avCall[p].at = "idle"
  BY DEF Resting
<1>3. ~Owed(a)
  BY <1>2 DEF Owed, Promised, Raises
<1>4. Final(a) = avSet
  BY <1>1, <1>3, OwedParts DEF AllOwed
<1>5. avSignal[a] = 0 /\ avBeat[a].at = "idle"
  BY <1>1 DEF Resting, BeatIdle
<1> QED BY <1>4, <1>5 DEF Final

LEMMA AvAlways == AvSpec => []AvInv
<1>1. AvInv /\ [AvNext]_avVars => AvInv'
  BY AvSteps
<1> QED BY <1>1, AvStarts, PTL DEF AvSpec

\* An avatar that was reported as running ran, and once every call and every heartbeat is
\* through each agent has the rules set last, in trees of any shape, however slowly they boot.
THEOREM RulesArrive == AvSpec => [](BootIsTrue /\ RulesReach)
<1>1. AvInv => BootIsTrue /\ RulesReach
  BY AtRestAllHave DEF AvInv
<1> QED BY <1>1, AvAlways, PTL

\* Rules are set, and things fail, within their bounds.
AvBounded == avSet \in 0..AvRules /\ avFaults \in 0..AvFaults

LEMMA AvBoundedKeeps == ASSUME AvBounded, [AvNext]_avVars PROVE AvBounded'
<1>1. /\ avSet' = avSet \/ (avSet < AvRules /\ avSet' = avSet + 1)
      /\ avFaults' = avFaults \/ (avFaults < AvFaults /\ avFaults' = avFaults + 1)
  BY ZenonT(60) DEF AvNext, avVars, AvMake, AvWaited, AvReadsRules, AvSetRules, AvSetFails, AvWalk, AvBeatReads,
     AvBeatUnlinks, AvBeatKeeps, AvBeatFails, AvCrash, AvRelaunch, AvSpawn, AvBoots, AvDies, AvWrites,
     AvWriteFails, Trip
<1>2. avSet \in 0..AvRules /\ avFaults \in 0..AvFaults /\ AvRules \in Nat /\ AvFaults \in Nat
  BY AvatarAssumption DEF AvBounded
<1> QED BY <1>1, <1>2 DEF AvBounded

LEMMA AvTypes == AvSpec => []AvTypeOK
<1>1. AvInit => AvBounded
  BY AvatarAssumption DEF AvInit, AvBounded
<1>2. AvInv /\ AvBounded => AvTypeOK
  <2> SUFFICES ASSUME AvInv, AvBounded PROVE AvTypeOK
    OBVIOUS
  <2>1. AvCore /\ AvNumbers
    BY DEF AvInv
  <2>2. avSet \in 0..AvRules /\ AvRules \in Nat /\ avFaults \in 0..AvFaults
    BY AvatarAssumption DEF AvBounded
  <2>3. \A n \in Nat : n <= avSet => n \in 0..AvRules
    BY <2>2
  <2>4. avRules \in [AvAgents -> 0..AvRules] /\ avSignal \in [AvAgents -> 0..AvRules]
    BY <2>1, <2>3 DEF AvCore, AvNumbers
  <2>5. avBeat \in [AvAgents -> [at : {"idle", "read", "unlinked"}, rules : 0..AvRules]]
    <3>1. \A b \in AvBeats : b.rules <= avSet => b \in [at : {"idle", "read", "unlinked"}, rules : 0..AvRules]
      BY <2>3 DEF AvBeats
    <3>2. avBeat \in [AvAgents -> AvBeats] /\ \A a \in AvAgents : avBeat[a].rules <= avSet
      BY <2>1 DEF AvCore, AvNumbers
    <3> QED BY <3>1, <3>2
  <2>6. avCall \in [AvAgents -> [at : AvCallAt, child : AvAgents \cup {0}, rules : 0..AvRules,
                                 todo : SUBSET AvAgents]]
    <3>1. \A c \in AvCalls : c.rules <= avSet =>
            c \in [at : AvCallAt, child : AvAgents \cup {0}, rules : 0..AvRules, todo : SUBSET AvAgents]
      BY <2>3 DEF AvCalls
    <3>2. avCall \in [AvAgents -> AvCalls] /\ \A a \in AvAgents : avCall[a].rules <= avSet
      BY <2>1 DEF AvCore, AvNumbers
    <3> QED BY <3>1, <3>2
  <2>7. avDir \subseteq AvAgents /\ avUp \subseteq avDir /\ avHeart \subseteq avDir
    BY <2>1 DEF AvCore
  <2> QED BY <2>1, <2>2, <2>4, <2>5, <2>6, <2>7 DEF AvCore, AvCallAt, AvTypeOK
<1> QED BY <1>1, <1>2, AvBoundedKeeps, AvAlways, PTL DEF AvSpec

-----------------------------------------------------------------------------
(* McpRegistry: the file and the boot                                      *)

RgRecords == [name : RgNames, ok : BOOLEAN]

\* The names the lines of a file are valid for
NamesIn(file) == {file[i][1].name : i \in {k \in DOMAIN file : ValidLine(file[k])}}

RgFileType(file) == file \in Seq(Seq(RgRecords))

\* The records kept are lines of the file, each valid, and every valid line's name has one.
LEMMA KeptIs ==
  ASSUME NEW file, RgFileType(file)
  PROVE  /\ KeptLines(file) \in SUBSET (DOMAIN file)
         /\ \A i \in KeptLines(file) : ValidLine(file[i]) /\ file[i][1].name \in RgNames
         /\ \A i \in DOMAIN file : ValidLine(file[i]) =>
              \E j \in KeptLines(file) : file[j][1].name = file[i][1].name
<1>1. /\ Len(file) \in Nat /\ DOMAIN file = 1..Len(file)
      /\ \A i \in DOMAIN file : file[i] \in Seq(RgRecords)
  BY DEF RgFileType
<1>2. KeptLines(file) \in SUBSET (DOMAIN file) /\ \A i \in KeptLines(file) : ValidLine(file[i])
  BY DEF KeptLines
<1>3. ASSUME NEW line \in Seq(RgRecords), ValidLine(line) PROVE line[1].name \in RgNames
  <2>1. line[1] \in RgRecords
    BY <1>3 DEF ValidLine
  <2> QED BY <2>1 DEF RgRecords
<1>4. \A i \in KeptLines(file) : file[i][1].name \in RgNames
  BY <1>1, <1>2, <1>3
<1>5. ASSUME NEW i \in DOMAIN file, ValidLine(file[i])
      PROVE  \E j \in KeptLines(file) : file[j][1].name = file[i][1].name
  <2> DEFINE Same == {k \in DOMAIN file : ValidLine(file[k]) /\ file[k][1].name = file[i][1].name}
  <2>1. Same \in SUBSET Nat /\ Same # {}
    BY <1>1, <1>5
  <2>2. PICK j \in Same : \A k \in Same : j <= k
    <3> HIDE DEF Same
    <3> QED BY <2>1, Least
  <2>3. j \in DOMAIN file /\ ValidLine(file[j]) /\ file[j][1].name = file[i][1].name /\ j \in 1..Len(file)
    BY <1>1, <2>2
  <2>4. ASSUME NEW k \in 1..(j - 1), ValidLine(file[k]) PROVE file[k][1].name # file[j][1].name
    <3>1. k \in DOMAIN file /\ ~(j <= k)
      BY <1>1, <2>3
    <3>2. k \notin Same
      <4> HIDE DEF Same
      <4> QED BY <2>2, <3>1
    <3> QED BY <2>3, <2>4, <3>1, <3>2
  <2>5. j \in KeptLines(file)
    BY <2>3, <2>4 DEF KeptLines
  <2> QED BY <2>3, <2>5
<1> QED BY <1>2, <1>4, <1>5

\* The names registered are those of the valid lines.
LEMMA RegisteredIs ==
  ASSUME NEW file, RgFileType(file)
  PROVE  /\ Registered(file) \in Seq(RgNames)
         /\ ToSet(Registered(file)) = NamesIn(file)
         /\ \A name : Contains(Registered(file), name) <=> name \in NamesIn(file)
         /\ NamesIn(file) \in SUBSET RgNames
<1>1. PICK lines : lines = AtPlaces(file, KeptLines(file))
  OBVIOUS
<1>2. /\ KeptLines(file) \in SUBSET (DOMAIN file)
      /\ \A i \in KeptLines(file) : ValidLine(file[i]) /\ file[i][1].name \in RgNames
      /\ \A i \in DOMAIN file : ValidLine(file[i]) =>
           \E j \in KeptLines(file) : file[j][1].name = file[i][1].name
  BY KeptIs
<1>3. /\ lines \in Seq(Seq(RgRecords))
      /\ \A n \in DOMAIN lines : \E i \in KeptLines(file) : lines[n] = file[i]
      /\ \A i \in KeptLines(file) : \E n \in DOMAIN lines : lines[n] = file[i]
  BY <1>1, <1>2, AtPlacesIs DEF RgFileType
<1>4. Registered(file) = [n \in DOMAIN lines |-> lines[n][1].name]
  BY <1>1 DEF Registered
<1>5. \A n \in DOMAIN lines : lines[n][1].name \in RgNames /\ lines[n][1].name \in NamesIn(file)
  BY <1>2, <1>3 DEF NamesIn
<1>6. Len(lines) \in Nat /\ DOMAIN lines = 1..Len(lines)
  BY <1>3
<1>7. Registered(file) \in Seq(RgNames)
  BY <1>4, <1>5, <1>6
<1>8. DOMAIN Registered(file) = DOMAIN lines /\ \A n \in DOMAIN lines : Registered(file)[n] = lines[n][1].name
  BY <1>4
<1>9. ASSUME NEW name \in NamesIn(file) PROVE \E n \in DOMAIN lines : Registered(file)[n] = name
  <2>1. PICK i \in DOMAIN file : ValidLine(file[i]) /\ name = file[i][1].name
    BY <1>9 DEF NamesIn
  <2>2. PICK j \in KeptLines(file) : file[j][1].name = name
    BY <1>2, <2>1
  <2>3. PICK n \in DOMAIN lines : lines[n] = file[j]
    BY <1>3, <2>2
  <2>4. Registered(file)[n] = file[j][1].name
    BY <1>8, <2>3
  <2> QED BY <2>2, <2>3, <2>4
<1>10. ToSet(Registered(file)) = NamesIn(file)
  BY <1>5, <1>8, <1>9 DEF ToSet
<1>11. Len(Registered(file)) = Len(lines) /\ DOMAIN Registered(file) = 1..Len(Registered(file))
  BY <1>6, <1>7, <1>8
<1>12. \A name : Contains(Registered(file), name) <=> name \in NamesIn(file)
  BY <1>5, <1>8, <1>9, <1>11 DEF Contains
<1>13. NamesIn(file) \in SUBSET RgNames
  BY <1>8, <1>5, <1>9
<1> QED BY <1>7, <1>10, <1>12, <1>13

\* A file that agrees with the beginning of another one registers a beginning of what that one does.
LEMMA BeginningIs ==
  ASSUME NEW base, RgFileType(base), NEW file, RgFileType(file),
         Len(base) <= Len(file), \A i \in 1..Len(base) : base[i] = file[i]
  PROVE  IsPrefix(Registered(base), Registered(file))
<1>1. /\ Len(base) \in Nat /\ DOMAIN base = 1..Len(base)
      /\ Len(file) \in Nat /\ DOMAIN file = 1..Len(file)
  BY DEF RgFileType
<1>2. ASSUME NEW i \in 1..Len(base) PROVE i \in KeptLines(base) <=> i \in KeptLines(file)
  <2>1. i \in DOMAIN base /\ i \in DOMAIN file
    BY <1>1
  <2>2. \A j \in 1..(i - 1) : j \in 1..Len(base)
    BY <1>1
  <2>3. base[i] = file[i] /\ \A j \in 1..(i - 1) : base[j] = file[j]
    BY <2>2
  <2> QED BY <2>1, <2>3 DEF KeptLines
<1>3. KeptLines(base) \in SUBSET (1..Len(base)) /\ KeptLines(file) \in SUBSET (1..Len(file))
  BY <1>1, KeptIs
<1>4. KeptLines(base) = KeptLines(file) \cap (1..Len(base))
  BY <1>2, <1>3
<1>5. PICK p, q : p = KeptLines(base) /\ q = KeptLines(file)
  OBVIOUS
<1>50. /\ p \in SUBSET (1..Len(base)) /\ q \in SUBSET (1..Len(file))
       /\ p = q \cap (1..Len(base))
  BY <1>3, <1>4, <1>5
<1>51. IsFiniteSet(q)
  <2>1. IsFiniteSet(1..Len(file))
    BY <1>1, FS_Interval
  <2> QED BY <1>50, <2>1, FS_Subset
<1>52. p \in SUBSET q
  BY <1>50
<1>53. Cardinality(p) \in Nat /\ Cardinality(q) \in Nat /\ Cardinality(p) <= Cardinality(q)
  BY <1>51, <1>52, FS_Subset, FS_CardinalityType
<1>54. ASSUME NEW n \in 1..Cardinality(p) PROVE Place(q, n) = Place(p, n) /\ Place(p, n) \in p
  <2>1. PICK i : i = Place(p, n)
    OBVIOUS
  <2>2. i \in p /\ Cardinality({j \in p : j <= i}) = n
    BY <1>1, <1>50, <2>1, PlaceIs
  <2>3. {j \in p : j <= i} = {j \in q : j <= i} /\ i \in q
    <3>1. i \in q /\ i \in Nat /\ i <= Len(base)
      BY <1>1, <1>50, <2>2
    <3>2. \A j : j \in q => j \in Nat /\ 1 <= j
      BY <1>1, <1>50
    <3>3. ASSUME NEW j \in q, j <= i PROVE j \in 1..Len(base)
      BY <1>1, <3>1, <3>2, <3>3
    <3> QED BY <1>50, <3>1, <3>3
  <2>4. n = Cardinality({j \in q : j <= i})
    BY <2>2, <2>3
  <2>5. Place(q, n) = i
    BY <1>1, <1>50, <2>3, <2>4, PlaceOf
  <2> QED BY <2>1, <2>2, <2>5
<1>6. /\ Cardinality(p) \in Nat /\ Cardinality(q) \in Nat /\ Cardinality(p) <= Cardinality(q)
      /\ \A n \in 1..Cardinality(p) : Place(q, n) = Place(p, n) /\ Place(p, n) \in p
  BY <1>53, <1>54
<1>7. PICK r, s : r = Registered(base) /\ s = Registered(file)
  OBVIOUS
<1>8. r \in Seq(RgNames) /\ s \in Seq(RgNames)
  BY <1>7, RegisteredIs
<1>9. /\ DOMAIN r = 1..Cardinality(p) /\ DOMAIN s = 1..Cardinality(q)
      /\ \A n \in 1..Cardinality(p) : r[n] = base[Place(p, n)][1].name
      /\ \A n \in 1..Cardinality(q) : s[n] = file[Place(q, n)][1].name
  BY <1>5, <1>7 DEF Registered, AtPlaces
<1>10. Len(r) = Cardinality(p) /\ Len(s) = Cardinality(q)
  BY <1>6, <1>8, <1>9
<1>11. ASSUME NEW n \in 1..Len(r) PROVE r[n] = s[n]
  <2>1. n \in 1..Cardinality(p) /\ n \in 1..Cardinality(q)
    BY <1>6, <1>10
  <2>2. Place(q, n) = Place(p, n) /\ Place(p, n) \in 1..Len(base)
    BY <1>3, <1>5, <1>6, <2>1
  <2>3. base[Place(p, n)] = file[Place(p, n)]
    BY <2>2
  <2> QED BY <1>9, <2>1, <2>2, <2>3
<1>12. Len(r) <= Len(s) /\ Len(r) \in Nat
  BY <1>6, <1>10
<1>13. SubSeq(r, 1, Len(r)) = SubSeq(s, 1, Len(r))
  BY <1>8, <1>11, <1>12
<1> QED BY <1>7, <1>12, <1>13 DEF IsPrefix

\* The file with one line more registers what the line is valid for.
LEMMA OneLineMore ==
  ASSUME NEW file, RgFileType(file), NEW more, RgFileType(more), Len(more) = Len(file) + 1,
         \A i \in 1..Len(file) : more[i] = file[i], ValidLine(more[Len(file) + 1])
  PROVE  NamesIn(more) = NamesIn(file) \cup {more[Len(file) + 1][1].name}
<1>1. Len(file) \in Nat /\ DOMAIN file = 1..Len(file) /\ DOMAIN more = 1..(Len(file) + 1)
  BY DEF RgFileType
<1>2. PICK name : name = more[Len(file) + 1][1].name
  OBVIOUS
<1>6. DOMAIN more = DOMAIN file \cup {Len(file) + 1}
  BY <1>1
<1>8. \A i \in DOMAIN file : ValidLine(more[i]) <=> ValidLine(file[i])
  BY <1>1
<1>9. ASSUME NEW n \in NamesIn(more) PROVE n \in NamesIn(file) \cup {name}
  <2>1. PICK i \in DOMAIN more : ValidLine(more[i]) /\ n = more[i][1].name
    BY <1>9 DEF NamesIn
  <2>2. CASE i = Len(file) + 1
    BY <1>2, <2>1, <2>2
  <2>3. CASE i \in DOMAIN file
    <3>1. ValidLine(file[i]) /\ n = file[i][1].name
      BY <1>1, <1>8, <2>1, <2>3
    <3>2. n \in NamesIn(file)
      BY <2>3, <3>1 DEF NamesIn
    <3> QED BY <3>2
  <2> QED BY <1>6, <2>1, <2>2, <2>3
<1>10. name \in NamesIn(more)
  <2>1. Len(file) + 1 \in DOMAIN more
    BY <1>6
  <2> QED BY <1>2, <2>1 DEF NamesIn
<1>11. ASSUME NEW n \in NamesIn(file) PROVE n \in NamesIn(more)
  <2>1. PICK i \in DOMAIN file : ValidLine(file[i]) /\ n = file[i][1].name
    BY <1>11 DEF NamesIn
  <2>2. i \in DOMAIN more /\ ValidLine(more[i]) /\ n = more[i][1].name
    BY <1>1, <1>6, <1>8, <2>1
  <2> QED BY <2>2 DEF NamesIn
<1> QED BY <1>2, <1>9, <1>10, <1>11

\* The file without its last line.
LEMMA FrontIs ==
  ASSUME NEW file, RgFileType(file), file # <<>>
  PROVE  /\ RgFileType(Front(file)) /\ Len(Front(file)) = Len(file) - 1 /\ Len(file) \in Nat \ {0}
         /\ DOMAIN file = 1..Len(file) /\ \A i \in DOMAIN file : file[i] \in Seq(RgRecords)
         /\ \A i \in 1..(Len(file) - 1) : Front(file)[i] = file[i]
<1>1. /\ Len(file) \in Nat /\ Len(file) # 0 /\ DOMAIN file = 1..Len(file)
      /\ file \in Seq(Seq(RgRecords)) /\ \A i \in DOMAIN file : file[i] \in Seq(RgRecords)
  BY DEF RgFileType
<1>2. /\ Front(file) \in Seq(Seq(RgRecords)) /\ Len(Front(file)) = Len(file) - 1
      /\ \A i \in 1..(Len(file) - 1) : Front(file)[i] = file[i]
  BY <1>1 DEF Front
<1> QED BY <1>1, <1>2 DEF RgFileType

LEMMA LineLess ==
  ASSUME NEW file, RgFileType(file), NEW i \in DOMAIN file
  PROVE  RgFileType(RemoveAt(file, i))
<1>1. Len(file) \in Nat /\ DOMAIN file = 1..Len(file) /\ file \in Seq(Seq(RgRecords))
  BY DEF RgFileType
<1>2. SubSeq(file, 1, i - 1) \in Seq(Seq(RgRecords)) /\ SubSeq(file, i + 1, Len(file)) \in Seq(Seq(RgRecords))
  BY <1>1
<1> QED BY <1>2 DEF RgFileType, RemoveAt

ShownNames(section) == {section[i].name : i \in DOMAIN section}

Declared(n) == n \in RgCatalog /\ \E k \in DOMAIN rgInit.addons : rgInit.addons[k] = n

\* While the boot writes the add-ons, and the file was well ended when it began
Adding(boot, file, ended) ==
  /\ ended \/ file = <<>>
  /\ boot.known = NamesIn(file)

\* Each declared add-on is in the file or will be
Comes(n, boot, file) == n \in NamesIn(file) \/ \E k \in DOMAIN boot.todo : boot.todo[k] = n

RgTypes ==
  /\ RgFileType(rgFile) /\ rgEnded \in BOOLEAN
  /\ rgInit \in [addons : Seq(RgNames), mcp : SUBSET RgNames]
  /\ rgIdentity \in [RgNames -> SUBSET AccountKeys]
  /\ rgBoot \in [at : BootStates, known : SUBSET RgNames, todo : Seq(RgNames)]
  /\ rgPrompt \in Seq([name : RgNames, account : SUBSET AccountKeys])
  /\ rgServers \in SUBSET RgNames /\ rgTidy \in BOOLEAN
  /\ rgOps \in [edits : 0..RgEdits, boots : 0..RgBoots]

RgKept ==
  rgTidy =>
    /\ rgBoot.at = "adding" => Adding(rgBoot, rgFile, rgEnded)
    /\ \A n : Declared(n) => /\ rgBoot.at = "adding" => Comes(n, rgBoot, rgFile)
                             /\ rgBoot.at \in {"loading", "up"} => n \in NamesIn(rgFile)
    /\ rgBoot.at \in {"loading", "up"} => ShownNames(rgPrompt) = NamesIn(rgFile)
    /\ rgBoot.at = "up" => rgServers = rgInit.mcp \cap NamesIn(rgFile)

RgInv == RgTypes /\ RgKept

LEMMA RgStarts == RgInit => RgInv
<1> SUFFICES ASSUME RgInit PROVE RgInv
  OBVIOUS
<1> USE McpRegistryAssumption
<1>1. \A n, m \in RgNames : <<n, m>> \in Seq(RgNames)
  OBVIOUS
<1>2. rgInit \in [addons : Seq(RgNames), mcp : SUBSET RgNames]
  <2>1. /\ rgInit.addons \in {<<n, m>> : n, m \in RgNames} /\ rgInit.mcp \in SUBSET RgNames
        /\ rgInit = [addons |-> rgInit.addons, mcp |-> rgInit.mcp]
    BY DEF RgInit
  <2>2. PICK n \in RgNames, m \in RgNames : rgInit.addons = <<n, m>>
    BY <2>1
  <2>3. rgInit.addons \in Seq(RgNames)
    BY <1>1, <2>2
  <2> QED BY <2>1, <2>3
<1>3. RgFileType(rgFile) /\ rgEnded \in BOOLEAN
  BY DEF RgInit, RgFileType
<1>4. rgIdentity \in [RgNames -> SUBSET AccountKeys]
  BY DEF RgInit
<1>5. rgBoot \in [at : BootStates, known : SUBSET RgNames, todo : Seq(RgNames)]
  BY DEF RgInit, RgDown, BootStates
<1>6. rgPrompt \in Seq([name : RgNames, account : SUBSET AccountKeys])
  BY DEF RgInit
<1>7. rgOps \in [edits : 0..RgEdits, boots : 0..RgBoots]
  BY DEF RgInit
<1>8. RgTypes
  BY <1>2, <1>3, <1>4, <1>5, <1>6, <1>7 DEF RgInit, RgTypes
<1>9. RgKept
  BY DEF RgInit, RgKept
<1> QED BY <1>8, <1>9 DEF RgInv

\* What the prompt shows has the names of the file, and each with an account of this agent.
LEMMA RenderedIs ==
  ASSUME RgTypes
  PROVE  /\ Rendered \in Seq([name : RgNames, account : SUBSET AccountKeys])
         /\ ShownNames(Rendered) = NamesIn(rgFile)
<1>1. PICK names : names = Registered(rgFile)
  OBVIOUS
<1>2. names \in Seq(RgNames) /\ ToSet(names) = NamesIn(rgFile)
  BY <1>1, RegisteredIs DEF RgTypes
<1>3. PICK shown : shown = Rendered
  OBVIOUS
<1>4. shown = [i \in DOMAIN names |-> [name |-> names[i], account |-> ShownAccount(names[i])]]
  BY <1>1, <1>3 DEF Rendered
<1>5. \A n \in RgNames : ShownAccount(n) \in SUBSET AccountKeys
  BY DEF RgTypes, ShownAccount
<1>6. Len(names) \in Nat /\ DOMAIN names = 1..Len(names) /\ \A i \in DOMAIN names : names[i] \in RgNames
  BY <1>2
<1>7. \A i \in DOMAIN names : [name |-> names[i], account |-> ShownAccount(names[i])]
                                \in [name : RgNames, account : SUBSET AccountKeys]
  BY <1>5, <1>6
<1>8. shown \in Seq([name : RgNames, account : SUBSET AccountKeys])
  BY <1>4, <1>6, <1>7
<1>9. DOMAIN shown = DOMAIN names /\ \A i \in DOMAIN names : shown[i].name = names[i]
  BY <1>4
<1>10. ShownNames(shown) = ToSet(names)
  BY <1>9 DEF ShownNames, ToSet
<1> QED BY <1>2, <1>3, <1>8, <1>10

RgBootTypes == [at : BootStates, known : SUBSET RgNames, todo : Seq(RgNames)]

\* What becomes of where the boot is.
LEMMA BootGoes ==
  ASSUME NEW b \in RgBootTypes
  PROVE  /\ \A d : b.todo # <<>> /\ d = [b EXCEPT !.todo = Tail(@)] =>
              /\ d \in RgBootTypes /\ d.at = b.at /\ d.todo = Tail(b.todo) /\ d.known = b.known
         /\ \A d : d = [b EXCEPT !.at = "loading"] => d \in RgBootTypes /\ d.at = "loading"
         /\ \A d : d = [b EXCEPT !.at = "up", !.known = {}] => d \in RgBootTypes /\ d.at = "up"
<1>1. b = [at |-> b.at, known |-> b.known, todo |-> b.todo] /\ b.todo \in Seq(RgNames)
      /\ b.at \in BootStates /\ b.known \in SUBSET RgNames
  BY DEF RgBootTypes
<1>2. {"loading", "up"} \in SUBSET BootStates
  BY DEF BootStates
<1>4. ASSUME NEW d, b.todo # <<>>, d = [b EXCEPT !.todo = Tail(@)]
      PROVE  /\ d \in RgBootTypes /\ d.at = b.at /\ d.todo = Tail(b.todo) /\ d.known = b.known
  <2>1. d = [at |-> b.at, known |-> b.known, todo |-> Tail(b.todo)]
    BY <1>1, <1>4
  <2>2. Tail(b.todo) \in Seq(RgNames)
    BY <1>1, <1>4
  <2> QED BY <1>1, <2>1, <2>2 DEF RgBootTypes
<1>5. ASSUME NEW d, d = [b EXCEPT !.at = "loading"] PROVE d \in RgBootTypes /\ d.at = "loading"
  <2>1. d = [at |-> "loading", known |-> b.known, todo |-> b.todo]
    BY <1>1, <1>5
  <2> QED BY <1>1, <1>2, <2>1 DEF RgBootTypes
<1>6. ASSUME NEW d, d = [b EXCEPT !.at = "up", !.known = {}] PROVE d \in RgBootTypes /\ d.at = "up"
  <2>1. d = [at |-> "up", known |-> {}, todo |-> b.todo]
    BY <1>1, <1>6
  <2> QED BY <1>1, <1>2, <2>1 DEF RgBootTypes
<1> QED BY <1>4, <1>5, <1>6

\* The add-on that is next is written or skipped.
LEMMA AddonIs ==
  ASSUME RgTypes, RgAddon
  PROVE  /\ rgBoot'.at = "adding" /\ rgBoot' \in RgBootTypes /\ rgBoot'.todo = Tail(rgBoot.todo)
         /\ rgBoot.todo \in Seq(RgNames) /\ rgBoot.todo # <<>>
         /\ RgFileType(rgFile)' /\ rgEnded' \in BOOLEAN
         /\ \/ /\ UNCHANGED <<rgFile, rgEnded>> /\ rgBoot'.known = rgBoot.known
               /\ Head(rgBoot.todo) \in rgBoot.known \/ Head(rgBoot.todo) \notin RgCatalog
            \/ /\ rgEnded' = TRUE /\ rgBoot'.known = rgBoot.known \cup {Head(rgBoot.todo)}
               /\ (rgEnded \/ rgFile = <<>>) => NamesIn(rgFile)' = NamesIn(rgFile) \cup {Head(rgBoot.todo)}
         /\ LET base == IF rgEnded \/ rgFile = <<>> THEN rgFile ELSE Front(rgFile)
            IN IsPrefix(Registered(base), Registered(rgFile'))
<1>1. PICK b, d : b = rgBoot /\ d = rgBoot'
  OBVIOUS
<1>2. PICK file, next : file = rgFile /\ next = rgFile'
  OBVIOUS
<1>3. PICK name : name = Head(rgBoot.todo)
  OBVIOUS
<1>4. /\ b \in RgBootTypes /\ RgFileType(file) /\ b.at = "adding" /\ b.todo # <<>>
      /\ b.todo \in Seq(RgNames) /\ name \in RgNames
  BY <1>1, <1>2, <1>3 DEF RgTypes, RgBootTypes, RgAddon
<1>5. PICK base : base = IF rgEnded \/ rgFile = <<>> THEN rgFile ELSE Front(rgFile)
  OBVIOUS
<1>6. CASE ~(name \notin b.known /\ name \in RgCatalog)
  <2>1. d = [b EXCEPT !.todo = Tail(@)] /\ next = file /\ rgEnded' = rgEnded
    BY <1>1, <1>2, <1>3, <1>6 DEF RgAddon
  <2>2. d \in RgBootTypes /\ d.at = b.at /\ d.todo = Tail(b.todo) /\ d.known = b.known
    BY <1>4, <2>1, BootGoes
  <2>3. IsPrefix(Registered(base), Registered(next))
    <3>1. CASE rgEnded \/ rgFile = <<>>
      <4>1. base = file /\ Len(base) \in Nat
        BY <1>2, <1>4, <1>5, <3>1 DEF RgFileType
      <4> QED BY <1>4, <2>1, <4>1, BeginningIs
    <3>2. CASE ~(rgEnded \/ rgFile = <<>>)
      <4>1. base = Front(file) /\ file # <<>> /\ Len(file) \in Nat
        BY <1>2, <1>4, <1>5, <3>2 DEF RgFileType
      <4>4. /\ RgFileType(base) /\ Len(base) = Len(file) - 1
            /\ \A i \in 1..(Len(file) - 1) : base[i] = file[i]
        BY <1>4, <4>1, FrontIs
      <4>5. Len(base) <= Len(file) /\ \A i \in 1..Len(base) : base[i] = file[i]
        BY <4>1, <4>4
      <4> QED BY <1>4, <2>1, <4>4, <4>5, BeginningIs
    <3> QED BY <3>1, <3>2
  <2> QED BY <1>1, <1>2, <1>3, <1>4, <1>5, <1>6, <2>1, <2>2, <2>3 DEF RgTypes
<1>7. CASE name \notin b.known /\ name \in RgCatalog
  <2>1. /\ d = [b EXCEPT !.todo = Tail(@), !.known = @ \cup {name}]
        /\ next = AppendedLine(file, CatalogRecord(name)) /\ rgEnded' = TRUE
    BY <1>1, <1>2, <1>3, <1>7 DEF RgAddon
  <2>2. d \in RgBootTypes /\ d.at = b.at /\ d.todo = Tail(b.todo) /\ d.known = b.known \cup {name}
    <3>1. /\ b = [at |-> b.at, known |-> b.known, todo |-> b.todo] /\ b.todo \in Seq(RgNames)
          /\ b.at \in BootStates /\ b.known \in SUBSET RgNames
      BY <1>4 DEF RgBootTypes
    <3>2. d = [at |-> b.at, known |-> b.known \cup {name}, todo |-> Tail(b.todo)]
      BY <2>1, <3>1
    <3>3. Tail(b.todo) \in Seq(RgNames) /\ b.known \cup {name} \in SUBSET RgNames
      BY <1>4, <3>1
    <3> QED BY <3>1, <3>2, <3>3 DEF RgBootTypes
  <2>3. PICK record \in RgRecords : record = CatalogRecord(name) /\ record.ok /\ record.name = name
    <3>1. PICK r : r = [name |-> name, ok |-> TRUE]
      OBVIOUS
    <3>2. r \in RgRecords /\ r.ok /\ r.name = name
      BY <1>4, <3>1 DEF RgRecords
    <3> QED BY <3>1, <3>2 DEF Record, CatalogRecord
  <2>4. CASE rgEnded \/ rgFile = <<>>
    <3>1. next = Append(file, <<record>>) /\ base = file
      BY <1>2, <1>5, <2>1, <2>3, <2>4 DEF AppendedLine
    <3>10. PICK line : line = <<record>>
      OBVIOUS
    <3>11. line \in Seq(RgRecords) /\ ValidLine(line) /\ line[1].name = name
      BY <2>3, <3>10 DEF ValidLine
    <3>12. file \in Seq(Seq(RgRecords)) /\ Len(file) \in Nat
      BY <1>4 DEF RgFileType
    <3>13. next = Append(file, line)
      BY <3>1, <3>10
    <3>14. /\ next \in Seq(Seq(RgRecords)) /\ Len(next) = Len(file) + 1
           /\ next[Len(file) + 1] = line /\ \A i \in 1..Len(file) : next[i] = file[i]
      BY <3>11, <3>12, <3>13
    <3>15. RgFileType(next) /\ ValidLine(next[Len(file) + 1]) /\ next[Len(file) + 1][1].name = name
      BY <3>11, <3>14 DEF RgFileType
    <3>2. /\ RgFileType(next) /\ NamesIn(next) = NamesIn(file) \cup {name}
          /\ Len(next) = Len(file) + 1 /\ \A i \in 1..Len(file) : next[i] = file[i]
      BY <1>4, <3>14, <3>15, OneLineMore
    <3>3. Len(file) \in Nat
      BY <1>4 DEF RgFileType
    <3>31. Len(base) <= Len(next) /\ \A i \in 1..Len(base) : base[i] = next[i]
      BY <3>1, <3>2, <3>3
    <3>4. IsPrefix(Registered(base), Registered(next))
      BY <1>4, <3>1, <3>2, <3>31, BeginningIs
    <3> QED BY <1>1, <1>2, <1>3, <1>4, <1>5, <2>1, <2>2, <3>2, <3>4
  <2>5. CASE ~(rgEnded \/ rgFile = <<>>)
    <3>1. next = [file EXCEPT ![Len(file)] = Append(@, record)] /\ base = Front(file) /\ file # <<>>
      BY <1>2, <1>5, <2>1, <2>3, <2>5 DEF AppendedLine
    <3>10. /\ RgFileType(base) /\ Len(base) = Len(file) - 1 /\ Len(file) \in Nat \ {0}
           /\ DOMAIN file = 1..Len(file) /\ \A i \in DOMAIN file : file[i] \in Seq(RgRecords)
           /\ \A i \in 1..(Len(file) - 1) : base[i] = file[i]
      BY <1>4, <3>1, FrontIs
    <3>11. PICK len \in Nat \ {0} : len = Len(file)
      BY <3>10
    <3>12. PICK line : line = Append(file[len], record)
      OBVIOUS
    <3>13. line \in Seq(RgRecords)
      BY <3>10, <3>11, <3>12
    <3>14. next = [i \in 1..len |-> IF i = len THEN line ELSE file[i]]
      BY <3>1, <3>10, <3>11, <3>12
    <3>15. PICK T : T = Seq(RgRecords)
      OBVIOUS
    <3>16. /\ DOMAIN next = 1..len /\ next = [i \in 1..len |-> next[i]]
           /\ \A i \in 1..len : next[i] \in T /\ (i # len => next[i] = file[i])
      BY <3>10, <3>11, <3>13, <3>14, <3>15
    <3>17. next \in Seq(T)
      <4>1. \A i \in 1..len : next[i] \in T
        BY <3>16
      <4>2. [i \in 1..len |-> next[i]] \in Seq(T)
        BY <3>11, <4>1
      <4> QED BY <3>16, <4>2
    <3>18. Len(next) = len
      BY <3>11, <3>16, <3>17
    <3>19. \A i \in 1..(len - 1) : next[i] = file[i]
      <4>1. \A i \in 1..(len - 1) : i \in 1..len /\ i # len
        BY <3>11
      <4> QED BY <3>16, <4>1
    <3>2. /\ RgFileType(next) /\ Len(next) = Len(file)
          /\ RgFileType(base) /\ Len(base) = Len(file) - 1
          /\ \A i \in 1..(Len(file) - 1) : base[i] = file[i] /\ next[i] = file[i]
      BY <3>10, <3>11, <3>15, <3>17, <3>18, <3>19 DEF RgFileType
    <3>3. Len(file) \in Nat
      BY <1>4 DEF RgFileType
    <3>4. Len(base) <= Len(next) /\ \A i \in 1..Len(base) : base[i] = next[i]
      BY <3>2, <3>3
    <3>5. IsPrefix(Registered(base), Registered(next))
      BY <3>2, <3>4, BeginningIs
    <3> QED BY <1>1, <1>2, <1>3, <1>4, <1>5, <2>1, <2>2, <2>5, <3>2, <3>5
  <2> QED BY <2>4, <2>5
<1> QED BY <1>6, <1>7

LEMMA RgSteps == RgInv /\ [RgNext]_rgVars => RgInv'
<1> SUFFICES ASSUME RgInv, [RgNext]_rgVars PROVE RgInv'
  OBVIOUS
<1> USE McpRegistryAssumption
<1>0. RgTypes /\ RgKept
  BY DEF RgInv
<1>1. CASE RgRewrite
  <2>1. /\ rgTidy' = FALSE /\ rgEnded' \in BOOLEAN
        /\ UNCHANGED <<rgInit, rgIdentity, rgBoot, rgPrompt, rgServers>>
    BY <1>1 DEF RgRewrite
  <2>2. RgFileType(rgFile)'
    <3>1. PICK file, next : file = rgFile /\ next = rgFile'
      OBVIOUS
    <3>2. RgFileType(file) /\ file \in Seq(Seq(RgRecords))
      BY <1>0, <3>1 DEF RgTypes, RgFileType
    <3>3. CASE \E n \in RgNames, ok \in BOOLEAN : rgFile' = Append(rgFile, <<Record(n, ok)>>)
      <4>1. PICK n \in RgNames, ok \in BOOLEAN : next = Append(file, <<Record(n, ok)>>)
        BY <3>1, <3>3
      <4>2. PICK line : line = <<Record(n, ok)>>
        OBVIOUS
      <4>3. Record(n, ok) \in RgRecords
        BY DEF Record, RgRecords
      <4>4. line \in Seq(RgRecords) /\ next = Append(file, line)
        BY <4>1, <4>2, <4>3
      <4> QED BY <3>1, <3>2, <4>4 DEF RgFileType
    <3>4. CASE \E i \in DOMAIN rgFile : rgFile' = RemoveAt(rgFile, i)
      <4>1. PICK i \in DOMAIN file : next = RemoveAt(file, i)
        BY <3>1, <3>4
      <4>2. RgFileType(next)
        BY <3>2, <4>1, LineLess
      <4> QED BY <3>1, <4>2
    <3> QED BY <1>1, <3>3, <3>4 DEF RgRewrite
  <2>3. rgOps' \in [edits : 0..RgEdits, boots : 0..RgBoots]
    <3>1. PICK o, p : o = rgOps /\ p = rgOps'
      OBVIOUS
    <3>2. o \in [edits : 0..RgEdits, boots : 0..RgBoots] /\ o.edits < RgEdits /\ p = [o EXCEPT !.edits = o.edits + 1]
      BY <1>0, <1>1, <3>1 DEF RgTypes, RgRewrite
    <3>3. p = [edits |-> o.edits + 1, boots |-> o.boots] /\ o.edits + 1 \in 0..RgEdits /\ o.boots \in 0..RgBoots
      BY <3>2
    <3>4. p \in [edits : 0..RgEdits, boots : 0..RgBoots]
      BY <3>3
    <3> QED BY <3>1, <3>4
  <2> QED BY <1>0, <2>1, <2>2, <2>3 DEF RgInv, RgTypes, RgKept
<1>2. ASSUME NEW name \in RgNames, RgPublish(name) PROVE RgInv'
  <2>1. UNCHANGED <<rgFile, rgEnded, rgInit, rgBoot, rgPrompt, rgServers, rgTidy, rgOps>>
    BY <1>2 DEF RgPublish
  <2>2. rgIdentity' \in [RgNames -> SUBSET AccountKeys]
    BY <1>0, <1>2 DEF RgTypes, RgPublish
  <2> QED BY <1>0, <2>1, <2>2 DEF RgInv, RgTypes, RgKept, Declared, Adding, Comes
<1>3. CASE RgStart
  <2>1. PICK known, d : known = ToSet(Registered(rgFile)) /\ d = rgBoot'
    OBVIOUS
  <2>2. known = NamesIn(rgFile) /\ known \in SUBSET RgNames
    BY <1>0, <2>1, RegisteredIs DEF RgTypes
  <2>3. /\ d = [at |-> "adding", known |-> known, todo |-> rgInit.addons]
        /\ rgTidy' = (rgEnded \/ rgFile = <<>>)
        /\ UNCHANGED <<rgFile, rgEnded, rgInit, rgIdentity, rgPrompt, rgServers>>
    BY <1>3, <2>1 DEF RgStart
  <2>4. rgInit.addons \in Seq(RgNames)
    BY <1>0 DEF RgTypes
  <2>5. d.at = "adding" /\ d.known = known /\ d.todo = rgInit.addons
    BY <2>3
  <2>6. d \in RgBootTypes
    BY <2>2, <2>3, <2>4 DEF RgBootTypes, BootStates
  <2>7. rgOps' \in [edits : 0..RgEdits, boots : 0..RgBoots]
    BY <1>0, <1>3, SMTT(30), ZenonT(30) DEF RgTypes, RgStart
  <2>8. RgTypes'
    <3>1. rgTidy' \in BOOLEAN
      BY <2>3
    <3> QED BY <1>0, <2>1, <2>3, <2>6, <2>7, <3>1 DEF RgTypes, RgBootTypes
  <2>9. RgKept'
    <3>1. ASSUME rgTidy' PROVE Adding(rgBoot, rgFile, rgEnded)'
      BY <2>1, <2>2, <2>3, <2>5, <3>1 DEF Adding
    <3>2. ASSUME NEW n, Declared(n)' PROVE Comes(n, rgBoot, rgFile)'
      BY <2>1, <2>3, <2>5, <3>2 DEF Declared, Comes
    <3> QED BY <2>1, <2>5, <3>1, <3>2 DEF RgKept
  <2> QED BY <2>8, <2>9 DEF RgInv
<1>4. CASE RgAddon
  <2>1. PICK b, d, file, next : b = rgBoot /\ d = rgBoot' /\ file = rgFile /\ next = rgFile'
    OBVIOUS
  <2>2. PICK name : name = Head(b.todo)
    OBVIOUS
  <2>3. /\ d.at = "adding" /\ d \in RgBootTypes /\ d.todo = Tail(b.todo)
        /\ b.todo \in Seq(RgNames) /\ b.todo # <<>>
        /\ RgFileType(next) /\ rgEnded' \in BOOLEAN
        /\ \/ /\ next = file /\ rgEnded' = rgEnded /\ d.known = b.known
              /\ name \in b.known \/ name \notin RgCatalog
           \/ /\ rgEnded' = TRUE /\ d.known = b.known \cup {name}
              /\ (rgEnded \/ file = <<>>) => NamesIn(next) = NamesIn(file) \cup {name}
    BY <1>0, <1>4, <2>1, <2>2, AddonIs
  <2>4. b.at = "adding" /\ UNCHANGED <<rgInit, rgIdentity, rgPrompt, rgServers, rgTidy, rgOps>>
    BY <1>4, <2>1 DEF RgAddon
  <2>5. RgTypes'
    BY <1>0, <2>1, <2>3, <2>4 DEF RgTypes, RgBootTypes
  <2>6. RgKept'
    <3> SUFFICES ASSUME rgTidy' PROVE RgKept'
      BY DEF RgKept
    <3>1. /\ rgEnded \/ file = <<>>
          /\ b.known = NamesIn(file)
          /\ \A n : Declared(n) => Comes(n, b, file)
      BY <1>0, <2>1, <2>4 DEF RgKept, Adding
    <3>2. rgEnded' \/ next = <<>>
      BY <2>3, <3>1
    <3>3. d.known = NamesIn(next) /\ NamesIn(file) \in SUBSET NamesIn(next)
      BY <2>3, <3>1
    <3>4. name \in NamesIn(next) \/ name \notin RgCatalog
      BY <2>3, <3>1, <3>3
    <3>5. ASSUME NEW n, Declared(n) PROVE Comes(n, d, next)
      <4>1. CASE n \in NamesIn(file)
        BY <3>3, <4>1 DEF Comes
      <4>2. CASE n \notin NamesIn(file)
        <5>1. PICK k \in DOMAIN b.todo : b.todo[k] = n
          BY <3>1, <3>5, <4>2 DEF Comes
        <5>2. CASE k = 1
          <6>1. n = name /\ n \in RgCatalog
            BY <2>2, <2>3, <3>5, <5>1, <5>2 DEF Declared
          <6> QED BY <3>4, <6>1 DEF Comes
        <5>3. CASE k # 1
          <6>1. PICK todo : todo = b.todo
            OBVIOUS
          <6>2. k \in 1..Len(todo) /\ todo \in Seq(RgNames) /\ todo # <<>>
            BY <2>3, <5>1, <6>1
          <6>3. k - 1 \in DOMAIN Tail(todo) /\ Tail(todo)[k - 1] = todo[k]
            BY <5>3, <6>2
          <6> QED BY <2>3, <5>1, <6>1, <6>3 DEF Comes
        <5> QED BY <5>2, <5>3
      <4> QED BY <4>1, <4>2
    <3>6. Adding(rgBoot, rgFile, rgEnded)'
      BY <2>1, <3>2, <3>3 DEF Adding
    <3>7. ASSUME NEW n, Declared(n)' PROVE Comes(n, rgBoot, rgFile)'
      <4>1. Declared(n)
        BY <2>4, <3>7 DEF Declared
      <4> QED BY <2>1, <3>5, <4>1 DEF Comes
    <3> QED BY <2>1, <2>3, <3>6, <3>7 DEF RgKept
  <2> QED BY <2>5, <2>6 DEF RgInv
<1>5. CASE RgReconcile
  <2>1. PICK b, d : b = rgBoot /\ d = rgBoot'
    OBVIOUS
  <2>2. /\ rgPrompt' = Rendered
        /\ UNCHANGED <<rgFile, rgEnded, rgInit, rgIdentity, rgServers, rgTidy, rgOps>>
        /\ \/ b.at = "adding" /\ b.todo = <<>> /\ d = [b EXCEPT !.at = "loading"]
           \/ b.at = "up" /\ d = b
    BY <1>5, <2>1 DEF RgReconcile
  <2>3. b \in RgBootTypes
    BY <1>0, <2>1 DEF RgTypes, RgBootTypes
  <2>4. /\ d \in RgBootTypes
        /\ \/ b.at = "adding" /\ b.todo = <<>> /\ d.at = "loading"
           \/ b.at = "up" /\ d = b
    <3>1. CASE b.at = "adding" /\ b.todo = <<>> /\ d = [b EXCEPT !.at = "loading"]
      BY <2>3, <3>1, BootGoes
    <3>2. CASE b.at = "up" /\ d = b
      BY <2>3, <3>2
    <3> QED BY <2>2, <3>1, <3>2
  <2>5. PICK p : p = rgPrompt' /\ p = Rendered
    BY <2>2
  <2>6. p \in Seq([name : RgNames, account : SUBSET AccountKeys]) /\ ShownNames(p) = NamesIn(rgFile)
    BY <1>0, <2>5, RenderedIs
  <2>7. RgTypes'
    BY <1>0, <2>1, <2>2, <2>4, <2>5, <2>6 DEF RgTypes, RgBootTypes
  <2>8. RgKept'
    <3> SUFFICES ASSUME rgTidy' PROVE RgKept'
      BY DEF RgKept
    <3>1. rgTidy
      BY <2>2
    <3>2. ASSUME NEW n, Declared(n)' PROVE n \in NamesIn(rgFile)
      <4>1. Declared(n)
        BY <2>2, <3>2 DEF Declared
      <4>2. CASE b.at = "adding" /\ b.todo = <<>>
        <5>1. Comes(n, b, rgFile)
          BY <1>0, <2>1, <3>1, <4>1, <4>2 DEF RgKept
        <5> QED BY <4>2, <5>1 DEF Comes
      <4>3. CASE b.at = "up"
        BY <1>0, <2>1, <3>1, <4>1, <4>3 DEF RgKept
      <4> QED BY <2>4, <4>2, <4>3
    <3>3. ShownNames(rgPrompt)' = NamesIn(rgFile)'
      BY <2>2, <2>5, <2>6
    <3>4. d.at = "up" => rgServers = rgInit.mcp \cap NamesIn(rgFile)
      BY <1>0, <2>1, <2>4, <3>1 DEF RgKept
    <3>5. d.at # "adding" /\ rgFile' = rgFile /\ rgServers' = rgServers /\ rgInit' = rgInit
      BY <2>2, <2>4
    <3> QED BY <2>1, <3>2, <3>3, <3>4, <3>5 DEF RgKept
  <2> QED BY <2>7, <2>8 DEF RgInv
<1>6. CASE RgLoad
  <2>1. PICK b, d : b = rgBoot /\ d = rgBoot'
    OBVIOUS
  <2>2. /\ b.at = "loading" /\ rgServers' = Gated /\ d = [b EXCEPT !.at = "up", !.known = {}]
        /\ UNCHANGED <<rgFile, rgEnded, rgInit, rgIdentity, rgPrompt, rgTidy, rgOps>>
    BY <1>6, <2>1 DEF RgLoad
  <2>3. b \in RgBootTypes
    BY <1>0, <2>1 DEF RgTypes, RgBootTypes
  <2>4. d \in RgBootTypes /\ d.at = "up"
    BY <2>2, <2>3, BootGoes
  <2>5. Gated = rgInit.mcp \cap NamesIn(rgFile) /\ Gated \in SUBSET RgNames
    <3>1. \A n : IsRegistered(n) <=> n \in NamesIn(rgFile)
      BY <1>0, RegisteredIs DEF RgTypes, IsRegistered
    <3>2. rgInit.mcp \in SUBSET RgNames
      BY <1>0 DEF RgTypes
    <3> QED BY <3>1, <3>2 DEF Gated
  <2>6. RgTypes'
    BY <1>0, <2>1, <2>2, <2>4, <2>5 DEF RgTypes, RgBootTypes
  <2>7. RgKept'
    <3> SUFFICES ASSUME rgTidy' PROVE RgKept'
      BY DEF RgKept
    <3>1. /\ \A n : Declared(n) => n \in NamesIn(rgFile)
          /\ ShownNames(rgPrompt) = NamesIn(rgFile)
      BY <1>0, <2>1, <2>2 DEF RgKept
    <3>2. \A n : Declared(n)' => n \in NamesIn(rgFile)'
      BY <2>2, <3>1 DEF Declared
    <3>3. ShownNames(rgPrompt)' = NamesIn(rgFile)' /\ rgServers' = rgInit'.mcp \cap NamesIn(rgFile)'
      BY <2>2, <2>5, <3>1
    <3> QED BY <2>1, <2>4, <3>2, <3>3 DEF RgKept
  <2> QED BY <2>6, <2>7 DEF RgInv
<1>7. CASE RgEnd
  <2>1. /\ rgBoot' = RgDown /\ rgPrompt' = <<>> /\ rgServers' = {} /\ rgTidy' = FALSE
        /\ UNCHANGED <<rgFile, rgEnded, rgInit, rgIdentity, rgOps>>
    BY <1>7 DEF RgEnd
  <2>2. rgBoot' \in [at : BootStates, known : SUBSET RgNames, todo : Seq(RgNames)]
    BY <2>1 DEF RgDown, BootStates
  <2>3. rgPrompt' \in Seq([name : RgNames, account : SUBSET AccountKeys])
    BY <2>1
  <2> QED BY <1>0, <2>1, <2>2, <2>3 DEF RgInv, RgTypes, RgKept
<1>8. CASE UNCHANGED rgVars
  BY <1>0, <1>8 DEF rgVars, RgInv, RgTypes, RgKept, Declared, Adding, Comes
<1> QED BY <1>1, <1>2, <1>3, <1>4, <1>5, <1>6, <1>7, <1>8 DEF RgNext

\* What the invariant says of an agent that is up.
LEMMA RgTells == RgInv => RgTypeOK /\ AddonsServed
<1> SUFFICES ASSUME RgInv PROVE RgTypeOK /\ AddonsServed
  OBVIOUS
<1>1. RgTypeOK
  BY DEF RgInv, RgTypes, RgTypeOK, RgFileType, RgRecords
<1>2. ASSUME rgBoot.at = "up", rgTidy
      PROVE  /\ rgServers \subseteq {rgPrompt[i].name : i \in DOMAIN rgPrompt}
             /\ \A n \in ToSet(rgInit.addons) \cap RgCatalog :
                  /\ n \in {rgPrompt[i].name : i \in DOMAIN rgPrompt}
                  /\ n \in rgInit.mcp => n \in rgServers
  <2>1. /\ \A n : Declared(n) => n \in NamesIn(rgFile)
        /\ ShownNames(rgPrompt) = NamesIn(rgFile)
        /\ rgServers = rgInit.mcp \cap NamesIn(rgFile)
    BY <1>2 DEF RgInv, RgKept
  <2>2. \A n \in ToSet(rgInit.addons) \cap RgCatalog : Declared(n)
    BY DEF ToSet, Declared
  <2> QED BY <2>1, <2>2 DEF ShownNames
<1> QED BY <1>1, <1>2 DEF AddonsServed

\* After a boot that found a well-ended file and was not interfered with, each declared add-on the
\* catalog knows is registered, shown, and started if configured, and nothing else was started
\* (decompress_addons, _load_mcp_from_workdir); and every value is of its type.
THEOREM AddonsAlways == RgSpec => [](RgTypeOK /\ AddonsServed)
<1>1. RgSpec => []RgInv
  BY RgStarts, RgSteps, PTL DEF RgSpec
<1> QED BY <1>1, RgTells, PTL

\* A boot leaves the records it finds, in their order (decompress_addons).
THEOREM BootsAppend == RgSpec => RecordsStay
<1>1. RgSpec => []RgInv
  BY RgStarts, RgSteps, PTL DEF RgSpec
<1>2. RgInv /\ [RgNext]_rgVars =>
        [rgBoot.at = "adding" /\ UNCHANGED rgOps =>
           IsPrefix(Registered(IF rgEnded \/ rgFile = <<>> THEN rgFile ELSE Front(rgFile)),
                    Registered(rgFile'))]_rgVars
  <2> SUFFICES ASSUME RgInv, RgNext, rgBoot.at = "adding", UNCHANGED rgOps
               PROVE  IsPrefix(Registered(IF rgEnded \/ rgFile = <<>> THEN rgFile ELSE Front(rgFile)),
                               Registered(rgFile'))
    OBVIOUS
  <2>0. RgTypes /\ RgKept
    BY DEF RgInv
  <2>1. CASE RgAddon
    BY <2>0, <2>1, AddonIs
  <2>2. CASE rgFile' = rgFile
    <3>1. PICK file, base : file = rgFile /\ base = IF rgEnded \/ rgFile = <<>> THEN rgFile ELSE Front(rgFile)
      OBVIOUS
    <3>2. RgFileType(file) /\ Len(file) \in Nat
      BY <2>0, <3>1 DEF RgTypes, RgFileType
    <3>3. RgFileType(base) /\ Len(base) <= Len(file) /\ \A i \in 1..Len(base) : base[i] = file[i]
      <4>1. CASE base = file
        BY <3>2, <4>1
      <4>2. CASE base = Front(file) /\ file # <<>>
        <5>1. /\ RgFileType(base) /\ Len(base) = Len(file) - 1
              /\ \A i \in 1..(Len(file) - 1) : base[i] = file[i]
          BY <3>2, <4>2, FrontIs
        <5> QED BY <3>2, <5>1
      <4> QED BY <3>1, <4>1, <4>2
    <3>4. IsPrefix(Registered(base), Registered(file))
      BY <3>2, <3>3, BeginningIs
    <3> QED BY <2>2, <3>1, <3>4
  <2>3. rgOps \in [edits : 0..RgEdits, boots : 0..RgBoots] /\ RgEdits \in Nat /\ RgBoots \in Nat
    BY <2>0, McpRegistryAssumption DEF RgTypes
  <2>4. ~RgRewrite
    <3> SUFFICES ASSUME RgRewrite PROVE FALSE
      OBVIOUS
    <3>0. PICK o : o = rgOps
      OBVIOUS
    <3>1. rgOps.edits + 1 = rgOps.edits /\ rgOps.edits \in Nat
      <4>1. o = [o EXCEPT !.edits = o.edits + 1] /\ o \in [edits : 0..RgEdits, boots : 0..RgBoots]
        BY <2>3, <3>0 DEF RgRewrite
      <4>2. o.edits = o.edits + 1
        BY <4>1
      <4> QED BY <3>0, <4>1, <4>2
    <3> QED BY <3>1
  <2>5. ~RgStart
    BY DEF RgStart
  <2>6. RgAddon \/ rgFile' = rgFile
    BY <2>4, <2>5 DEF RgNext, RgPublish, RgReconcile, RgLoad, RgEnd
  <2> QED BY <2>1, <2>2, <2>6
<1> QED BY <1>1, <1>2, PTL DEF RgSpec, RecordsStay

-----------------------------------------------------------------------------
(* SessionLog: the totals                                                  *)

\* Nor has a set of numbers with a bound no greatest one.
LEMMA Most ==
  ASSUME NEW n \in Nat, NEW T \in SUBSET (1..n), T # {}
  PROVE  \E x \in T : \A y \in T : y <= x
<1> DEFINE Above == {k \in Nat : \A y \in T : y <= k}
<1>0. \A y : y \in T => y \in Nat /\ 1 <= y /\ y <= n
  OBVIOUS
<1>1. Above \in SUBSET Nat /\ n \in Above
  BY <1>0
<1>2. PICK k \in Above : \A j \in Above : k <= j
  <2> HIDE DEF Above
  <2> QED BY <1>1, Least
<1>3. k \in Nat /\ \A y \in T : y <= k
  BY <1>2
<1>4. k \in T
  <2> SUFFICES ASSUME k \notin T PROVE FALSE
    OBVIOUS
  <2>1. PICK z \in T : TRUE
    OBVIOUS
  <2>2. k - 1 \in Nat
    BY <1>0, <1>3, <2>1
  <2>3. \A y \in T : y <= k - 1
    BY <1>0, <1>3
  <2>4. k - 1 \in Above
    BY <2>2, <2>3
  <2>5. k <= k - 1
    <3> HIDE DEF Above
    <3> QED BY <1>2, <2>4
  <2> QED BY <1>3, <2>5
<1> QED BY <1>3, <1>4

\* Where the last molt of some records is.
LEMMA BoundaryIs ==
  ASSUME LgTypeOK, NEW records \in SUBSET InLog
  PROVE  \/ Of("molt", records) = {} /\ Boundary(records) = 0
         \/ /\ Boundary(records) \in Of("molt", records) /\ Boundary(records) \in Nat \ {0}
            /\ \A n \in Of("molt", records) : n <= Boundary(records)
<1>1. Len(lgLog) \in Nat /\ InLog = 1..Len(lgLog)
  BY DEF LgTypeOK, InLog
<1>2. Of("molt", records) \in SUBSET (1..Len(lgLog))
  BY <1>1 DEF Of
<1>3. CASE Of("molt", records) # {}
  <2>1. \E m \in Of("molt", records) : \A n \in Of("molt", records) : n <= m
    BY <1>1, <1>2, <1>3, Most
  <2>2. /\ Boundary(records) \in Of("molt", records)
        /\ \A n \in Of("molt", records) : n <= Boundary(records)
    BY <1>3, <2>1 DEF Boundary
  <2>3. Boundary(records) \in Nat \ {0}
    BY <1>1, <1>2, <2>2
  <2> QED BY <2>2, <2>3
<1>4. CASE Of("molt", records) = {}
  BY <1>4 DEF Boundary
<1> QED BY <1>3, <1>4

\* A scan back that found a molt counts what the whole log would.
LEMMA ScanSuffices ==
  ASSUME LgTypeOK, LgScan \in Nat, Boundary(InScan) # 0
  PROVE  RoundsSince(InScan) = RoundsSince(InLog)
<1>1. Len(lgLog) \in Nat /\ InLog = 1..Len(lgLog)
  BY DEF LgTypeOK, InLog
<1>2. InScan \in SUBSET InLog /\ \A r \in InScan, n \in InLog : r < n => n \in InScan
  BY <1>1 DEF InScan
<1>3. PICK b, c : b = Boundary(InScan) /\ c = Boundary(InLog)
  OBVIOUS
<1>4. b \in Of("molt", InScan) /\ b \in Nat /\ \A n \in Of("molt", InScan) : n <= b
  BY <1>2, <1>3, BoundaryIs
<1>5. Of("molt", InScan) \in SUBSET Of("molt", InLog)
  BY <1>2 DEF Of
<1>6. c \in Of("molt", InLog) /\ c \in Nat /\ \A n \in Of("molt", InLog) : n <= c
  <2>1. InLog \in SUBSET InLog
    OBVIOUS
  <2> QED BY <1>3, <1>4, <1>5, <2>1, BoundaryIs
<1>7. b <= c
  BY <1>4, <1>5, <1>6
<1>8. c \in Of("molt", InScan)
  <2>1. b \in InScan /\ c \in InLog /\ lgLog[c] = "molt"
    BY <1>4, <1>6 DEF Of
  <2>2. c \in InScan
    BY <1>2, <1>4, <1>6, <1>7, <2>1
  <2> QED BY <2>1, <2>2 DEF Of
<1>9. b = c
  BY <1>4, <1>6, <1>7, <1>8
<1>10. ASSUME NEW r \in Of("round", InLog), r > b PROVE r \in Of("round", InScan)
  <2>1. r \in InLog /\ lgLog[r] = "round" /\ b \in InScan /\ r \in Nat
    BY <1>1, <1>4 DEF Of
  <2>2. r \in InScan
    BY <1>2, <1>4, <1>10, <2>1
  <2> QED BY <2>1, <2>2 DEF Of
<1>11. Of("round", InScan) \in SUBSET Of("round", InLog)
  BY <1>2 DEF Of
<1>12. {r \in Of("round", InScan) : r > b} = {r \in Of("round", InLog) : r > b}
  BY <1>10, <1>11
<1> QED BY <1>3, <1>9, <1>12 DEF RoundsSince

\* The scan of the log counts the rounds since the last molt, wherever that is.
LEMMA ScanCounts ==
  ASSUME LgTypeOK
  PROVE  ScanLog.calls = RoundsSince(InLog) /\ ScanLog.tier # "sqlite" /\ AskIndex.tier = "sqlite"
         /\ AskIndex.calls = RoundsSince(lgRows)
<1>1. CASE Boundary(InScan) # 0
  BY <1>1, ScanSuffices, SessionLogAssumption DEF ScanLog, AskIndex, Retotalled
<1>2. CASE Boundary(InScan) = 0
  BY <1>2 DEF ScanLog, AskIndex, Retotalled
<1> QED BY <1>1, <1>2

\* A rebuild takes the counters from one of the sources.
LEMMA RebuildCounts ==
  ASSUME LgTypeOK, LgRebuild
  PROVE  (lgTier' = "sqlite" => lgRows = InLog) => lgCalls' = RoundsSince(InLog)
<1>1. PICK from \in Sources : lgTier' = from.tier /\ lgCalls' = from.calls
  BY DEF LgRebuild, Restored
<1>2. from = AskIndex \/ from = ScanLog
  BY DEF Sources
<1> QED BY <1>1, <1>2, ScanCounts

\* The index has rows of the records of the log, and what is on its way is one of them.
LgInv ==
  /\ LgTypeOK
  /\ lgRows \in SUBSET InLog /\ lgHeld \in InLog \cup {0}

LEMMA LgStarts == LgInit => LgInv
<1> SUFFICES ASSUME LgInit PROVE LgInv
  OBVIOUS
<1>1. lgLog \in Seq({"round", "molt", "other"}) /\ lgRows = {} /\ lgHeld = 0
  BY DEF LgInit
<1>2. /\ lgFile \in BOOLEAN /\ lgProc \in {"off", "starting", "up", "closed"}
      /\ lgHeld \in Nat /\ lgOff \in BOOLEAN /\ lgOwed \in BOOLEAN
  BY DEF LgInit
<1>3. lgTier \in {"none", "sqlite", "reverse_scan", "full_scan"}
  BY DEF LgInit
<1>4. lgCalls \in Nat /\ lgBase \in Nat /\ lgLedger \in Nat /\ lgCrashes \in Nat
  BY DEF LgInit
<1>5. LgTypeOK
  BY <1>1, <1>2, <1>3, <1>4 DEF LgTypeOK
<1> QED BY <1>1, <1>5 DEF LgInv

\* The rounds since the last molt are so many.
LEMMA RoundsAreSome ==
  ASSUME LgTypeOK, NEW records \in SUBSET InLog
  PROVE  RoundsSince(records) \in Nat
<1>1. Len(lgLog) \in Nat /\ InLog = 1..Len(lgLog)
  BY DEF LgTypeOK, InLog
<1>2. IsFiniteSet(1..Len(lgLog))
  BY <1>1, FS_Interval
<1>3. {r \in Of("round", records) : r > Boundary(records)} \in SUBSET (1..Len(lgLog))
  BY <1>1 DEF Of
<1> QED BY <1>2, <1>3, FS_Subset, FS_CardinalityType DEF RoundsSince

\* A line more leaves the others where they are.
LEMMA LineAppended ==
  ASSUME LgInv, NEW what \in {"round", "molt", "other"}, Appended(what)
  PROVE  /\ lgLog' \in Seq({"round", "molt", "other"}) /\ lgHeld' \in Nat
         /\ lgHeld' \in InLog' /\ InLog \in SUBSET InLog'
<1>1. PICK log, next : log = lgLog /\ next = lgLog'
  OBVIOUS
<1>2. log \in Seq({"round", "molt", "other"}) /\ next = Append(log, what) /\ lgHeld' = Len(next)
  BY <1>1 DEF LgInv, LgTypeOK, Appended
<1>3. /\ next \in Seq({"round", "molt", "other"}) /\ Len(next) = Len(log) + 1 /\ Len(log) \in Nat
      /\ DOMAIN next = 1..(Len(log) + 1) /\ DOMAIN log = 1..Len(log)
  BY <1>2
<1> QED BY <1>1, <1>2, <1>3 DEF InLog

LEMMA LgSteps == LgInv /\ [LgNext]_lgVars => LgInv'
<1> SUFFICES ASSUME LgInv, [LgNext]_lgVars PROVE LgInv'
  OBVIOUS
<1> USE DEF lgCounters, lgTokens, Steady
<1>1. CASE LgIndex
  <2>1. lgHeld \in InLog /\ lgHeld' = 0 /\ UNCHANGED <<lgLog, lgProc, lgCounters, lgTokens, lgCrashes>>
    BY <1>1 DEF LgIndex, LgInv
  <2>2. InLog' = InLog /\ InLog \in SUBSET Nat
    BY <2>1 DEF InLog, LgInv, LgTypeOK
  <2>3. /\ lgRows' \in SUBSET InLog /\ lgFile' \in BOOLEAN /\ lgOff' \in BOOLEAN
    BY <1>1, <2>1 DEF LgIndex, Opens, Disables, LgInv, LgTypeOK
  <2> QED BY <2>1, <2>2, <2>3 DEF LgInv, LgTypeOK
<1>2. CASE LgRound
  <2>1. /\ Appended("round") /\ lgCalls' = lgCalls + 1 /\ lgOwed' = TRUE
        /\ UNCHANGED <<Steady, lgBase, lgTier, lgLedger>>
    BY <1>2 DEF LgRound, Writes
  <2> QED BY <2>1, LineAppended DEF LgInv, LgTypeOK
<1>3. CASE LgEvent
  <2>1. UNCHANGED <<Steady, lgCounters, lgTokens>>
    BY <1>3 DEF LgEvent
  <2>2. CASE Appended("other")
    BY <2>1, <2>2, LineAppended DEF LgInv, LgTypeOK
  <2>3. CASE UNCHANGED <<lgLog, lgHeld>>
    BY <2>1, <2>3 DEF LgInv, LgTypeOK, InLog
  <2> QED BY <1>3, <2>2, <2>3 DEF LgEvent, Writes
<1>4. CASE LgSave
  <2>1. /\ UNCHANGED <<lgLog, lgHeld, lgRows, lgProc, lgOff, lgCrashes, lgCounters>>
        /\ lgOwed' = FALSE /\ lgLedger' = lgLedger + 1
    BY <1>4 DEF LgSave, LedgerLine
  <2>2. lgFile' \in BOOLEAN
    BY <1>4 DEF LgSave, LedgerLine, Mirrored, TokenRow, Opens, LgInv, LgTypeOK
  <2>3. lgLedger' \in Nat
    BY <2>1 DEF LgInv, LgTypeOK
  <2> QED BY <2>1, <2>2, <2>3 DEF LgInv, LgTypeOK, InLog
<1>5. CASE LgMolt
  <2>1. Appended("molt") /\ lgCalls' = 0 /\ lgBase' = 0 /\ UNCHANGED <<Steady, lgTier, lgTokens>>
    BY <1>5 DEF LgMolt, Writes, StartsOver
  <2> QED BY <2>1, LineAppended DEF LgInv, LgTypeOK
<1>6. CASE LgStart
  <2>1. /\ lgProc' = "starting" /\ Appended("other")
        /\ lgOff' = FALSE /\ lgCalls' = 0 /\ lgBase' = 0 /\ lgOwed' = FALSE
        /\ UNCHANGED <<lgRows, lgFile, lgTier, lgLedger, lgCrashes>>
    BY <1>6 DEF LgStart
  <2> QED BY <2>1, LineAppended DEF LgInv, LgTypeOK
<1>7. CASE LgRebuild
  <2>1. PICK from \in Sources : lgTier' = from.tier /\ lgCalls' = from.calls /\ lgBase' = from.calls
    BY <1>7 DEF LgRebuild, Restored
  <2>2. from = AskIndex \/ from = ScanLog
    BY <2>1 DEF Sources
  <2>3. RoundsSince(lgRows) \in Nat /\ RoundsSince(InLog) \in Nat
    BY RoundsAreSome DEF LgInv
  <2>4. from.calls \in Nat
    BY <2>2, <2>3, ScanCounts DEF LgInv
  <2>5. from.tier \in {"none", "sqlite", "reverse_scan", "full_scan"}
    BY <2>2 DEF AskIndex, ScanLog, Retotalled
  <2>6. /\ lgProc' = "up" /\ UNCHANGED <<lgLog, lgRows, lgFile, lgHeld, lgOff, lgTokens, lgCrashes>>
    BY <1>7 DEF LgRebuild
  <2> QED BY <2>1, <2>4, <2>5, <2>6 DEF LgInv, LgTypeOK, InLog
<1>8. CASE LgStop
  BY <1>8 DEF LgStop, LgInv, LgTypeOK, InLog
<1>9. CASE LgGone \/ LgCrash
  <2>1. /\ lgProc' = "off" /\ lgHeld' = 0
        /\ UNCHANGED <<lgLog, lgRows, lgFile, lgOff, lgCounters, lgTokens>>
    BY <1>9 DEF LgGone, LgCrash
  <2>2. lgCrashes' = lgCrashes \/ lgCrashes' = lgCrashes + 1
    BY <1>9 DEF LgGone, LgCrash
  <2>3. lgCrashes' \in Nat
    BY <2>2 DEF LgInv, LgTypeOK
  <2> QED BY <2>1, <2>3 DEF LgInv, LgTypeOK, InLog
<1>10. CASE LgReindex \/ LgDelete
  <2>1. InLog \in SUBSET Nat /\ InLog' = InLog
    BY <1>10 DEF LgReindex, LgDelete, LgInv, LgTypeOK, InLog
  <2>2. lgRows' \in SUBSET InLog /\ lgFile' \in BOOLEAN
    BY <1>10, <2>1 DEF LgReindex, LgDelete
  <2>3. UNCHANGED <<lgLog, lgProc, lgHeld, lgOff, lgCounters, lgTokens, lgCrashes>>
    BY <1>10 DEF LgReindex, LgDelete
  <2> QED BY <2>1, <2>2, <2>3 DEF LgInv, LgTypeOK
<1>11. CASE UNCHANGED lgVars
  BY <1>11 DEF lgVars, LgInv, LgTypeOK, InLog
<1> QED BY <1>1, <1>2, <1>3, <1>4, <1>5, <1>6, <1>7, <1>8, <1>9, <1>10, <1>11 DEF LgNext

LEMMA LgAlways == LgSpec => []LgInv
BY LgStarts, LgSteps, PTL DEF LgSpec

\* The counters an agent starts with are the rounds logged since the last molt, whichever
\* way they were rebuilt, as long as the index misses no record (rebuild_agent_session).
THEOREM TotalsAgree == LgSpec => RebuildsAgree
<1>1. LgInv /\ [LgNext]_lgVars =>
        [lgProc = "starting" /\ lgProc' = "up" /\ (lgTier' = "sqlite" => lgRows = InLog)
           => lgCalls' = RoundsSince(InLog)]_lgVars
  <2> SUFFICES ASSUME LgInv, LgNext, lgProc = "starting", lgProc' = "up",
                      lgTier' = "sqlite" => lgRows = InLog
               PROVE  lgCalls' = RoundsSince(InLog)
    OBVIOUS
  <2>1. LgRebuild
    BY DEF LgNext, LgIndex, LgRound, LgEvent, LgSave, LgMolt, LgStart, LgStop, LgGone, LgCrash, LgReindex,
       LgDelete, Steady
  <2> QED BY <2>1, RebuildCounts DEF LgInv
<1> QED BY <1>1, LgAlways, PTL DEF LgSpec, RebuildsAgree
=============================================================================
