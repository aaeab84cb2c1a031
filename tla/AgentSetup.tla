----------------------------- MODULE AgentSetup ------------------------------
(***************************************************************************)
(* How an agent is configured (lingtai/agent.py, lingtai/cli.py and        *)
(* lingtai_kernel/presets.py): init.json names an active preset, a default *)
(* and the allowed ones, presets are files beside it, and the prompt is    *)
(* composed from init.json and the files of system/.  The operator edits   *)
(* any of them at any time; the agent swaps presets, falls back to the     *)
(* default when nothing answers, is relaunched, and reloads its prompt     *)
(* when it molts.                                                          *)
(***************************************************************************)
EXTENDS Naturals, FiniteSets

CONSTANTS
  AsPresets, \* preset files
  AsEdits,   \* bound: edits of the operator and of the secretary
  AsBoots    \* bound: launches

ASSUME SetupAssumption ==
  AsPresets # {} /\ AsEdits \in Nat /\ AsBoots \in Nat

VARIABLES
  asInit,    \* init.json
  asFile,    \* each preset file: "good", "broken" or "missing"
  asDisk,    \* system/: lingtai.md, covenant.md, brief.md
  asSection, \* the running prompt
  asRuns,    \* the active preset and skill paths the process runs with
  asUp,      \* "up", "down" (to be relaunched), or "dead" (the launch failed)
  asMine,    \* the agent wrote its own character
  asSound,   \* since the last edit, the agent alone chose what boots next
  asEdits, asBoots

asVars == <<asInit, asFile, asDisk, asSection, asRuns, asUp, asMine, asSound, asEdits, asBoots>>

Texts == {"", "operator", "agent"}
Sections == {"character", "covenant", "brief", "comment"}
Empty == [s \in Sections |-> ""]
Unloaded == [active |-> "", paths |-> {}, tried |-> FALSE]
Own == "own" \* the one skill path the operator lists in init.json

AsInit ==
  /\ \E p \in AsPresets :
       asInit = [active |-> p, default |-> p, allowed |-> AsPresets, paths |-> {Own},
                 stale |-> FALSE, seed |-> "operator", covenant |-> "operator", comment |-> ""]
  /\ asFile = [p \in AsPresets |-> "good"]
  /\ asDisk = [lingtai |-> "", covenant |-> "", brief |-> ""]
  /\ asSection = Empty /\ asRuns = Unloaded /\ asUp = "down"
  /\ asMine = FALSE /\ asSound = FALSE /\ asEdits = 0 /\ asBoots = 0

-----------------------------------------------------------------------------
(* init.json, resolved *)

Loads(p) == asFile[p] = "good"

\* The preset that is used: the default stands in for a file that is missing, never for a broken one
Chosen(init) ==
  IF asFile[init.active] = "missing" /\ init.default # init.active THEN init.default ELSE init.active

\* A preset lists one skill path, named here by the preset; those of init.json are added to it
Materialized(init) ==
  [init EXCEPT !.active = Chosen(init), !.paths = @ \cup {Chosen(init)}]

Valid(init) == init.default \in init.allowed /\ init.active \in init.allowed
Bootable(init) == Loads(Chosen(init)) /\ Valid(Materialized(init))

\* _read_init writes init.json back without its retired fields, before the preset is resolved
Cleaned(init) == [init EXCEPT !.stale = FALSE]

\* load_init resolves the preset first, and writes the result back
CleanedAtBoot(init) == IF init.stale THEN Cleaned(Materialized(init)) ELSE init

\* run() writes what load_init resolved back when the environment it found is not the one named there
WrittenBack(init) == Cleaned(Materialized(init))

\* Mutation of Activated: the list is left as it is
NotWidened(init, p) == [init EXCEPT !.active = p, !.paths = {p}]

\* The default is preserved, and the name goes on the allowed list if it is not there
Activated(init, p) ==
  [init EXCEPT !.active = p, !.paths = {p}, !.allowed = @ \cup {p}]

-----------------------------------------------------------------------------
(* The prompt *)

OrElse(text, other) == IF text = "" THEN other ELSE text

\* What init.json has is mirrored into system/
DiskAfter(init, disk) ==
  [disk EXCEPT !.lingtai = OrElse(init.seed, @), !.covenant = OrElse(init.covenant, @)]

\* Mutation of Composed: a comment that is gone is not deleted
CommentKept(init, disk, section) ==
  [character |-> disk.lingtai,
   covenant |-> OrElse(disk.covenant, section.covenant),
   brief |-> disk.brief,
   comment |-> OrElse(init.comment, section.comment)]

\* Each section is written or deleted, the covenant only written
Composed(init, disk, section) ==
  [character |-> disk.lingtai,
   covenant |-> OrElse(disk.covenant, section.covenant),
   brief |-> disk.brief,
   comment |-> init.comment]

\* _reload_prompt_sections
Reloaded(init, section) ==
  LET disk == DiskAfter(init, asDisk)
  IN asDisk' = disk /\ asSection' = Composed(init, disk, section)

-----------------------------------------------------------------------------
(* The operator, and the secretary that writes the brief *)

Edits(change) ==
  /\ asEdits < AsEdits /\ asEdits' = asEdits + 1
  /\ asSound' = FALSE
  /\ change
  /\ UNCHANGED <<asSection, asRuns, asUp, asMine, asBoots>>

AsEditPresets ==
  Edits(/\ \E a, d \in AsPresets, l \in SUBSET AsPresets :
             asInit' = [asInit EXCEPT !.active = a, !.default = d, !.allowed = l]
        /\ asInit' # asInit
        /\ UNCHANGED <<asFile, asDisk>>)

AsEditTexts ==
  Edits(/\ \E s, c, m \in {"", "operator"}, stale \in BOOLEAN :
             asInit' = [asInit EXCEPT !.seed = s, !.covenant = c, !.comment = m, !.stale = stale]
        /\ asInit' # asInit
        /\ UNCHANGED <<asFile, asDisk>>)

AsEditFile ==
  Edits(/\ \E p \in AsPresets, f \in {"good", "broken", "missing"} :
             asFile[p] # f /\ asFile' = [asFile EXCEPT ![p] = f]
        /\ UNCHANGED <<asInit, asDisk>>)

AsEditDisk ==
  Edits(/\ \E b, c \in {"", "operator"} :
             asDisk' = [asDisk EXCEPT !.brief = b, !.covenant = c]
        /\ asDisk' # asDisk
        /\ UNCHANGED <<asInit, asFile>>)

-----------------------------------------------------------------------------
(* The agent *)

\* psyche writes the character file and the section at once
AsAuthors ==
  /\ asUp = "up"
  /\ asDisk.lingtai # "agent"
  /\ asDisk' = [asDisk EXCEPT !.lingtai = "agent"]
  /\ asSection' = [asSection EXCEPT !.character = "agent"]
  /\ asMine' = TRUE
  /\ UNCHANGED <<asInit, asFile, asRuns, asUp, asSound, asEdits, asBoots>>

Down == asUp' = "down" /\ UNCHANGED <<asFile, asDisk, asSection, asRuns, asMine, asEdits, asBoots>>

\* system(refresh): the named preset, or the default, has to be allowed and to load
AsSwap ==
  /\ asUp = "up"
  /\ \E p \in asInit.allowed \cap AsPresets :
       Loads(p) /\ asInit' = Activated(asInit, p)
  /\ Down /\ UNCHANGED asSound

AsRefresh == asUp = "up" /\ Down /\ UNCHANGED <<asInit, asSound>>

\* AED gave up and the preset is not the default: no list is asked, once per process
CanFallBack == asUp = "up" /\ ~asRuns.tried /\ asInit.active # asInit.default

AsFallback ==
  /\ CanFallBack
  /\ Loads(asInit.default)
  /\ asInit' = Activated(asInit, asInit.default)
  /\ asSound' = TRUE
  /\ Down

AsFallbackFails ==
  /\ CanFallBack
  /\ ~Loads(asInit.default)
  /\ asRuns' = [asRuns EXCEPT !.tried = TRUE]
  /\ UNCHANGED <<asInit, asFile, asDisk, asSection, asUp, asMine, asSound, asEdits, asBoots>>

\* The launch of a process: load_init, and _setup_from_init reads init.json again
AsBoot ==
  /\ asUp = "down" /\ asBoots < AsBoots /\ asBoots' = asBoots + 1
  /\ LET booted == Loads(Chosen(asInit)) /\ Valid(CleanedAtBoot(Materialized(asInit)))
     IN IF booted
        THEN /\ asInit' \in {CleanedAtBoot(asInit), WrittenBack(asInit)}
             /\ asUp' = "up" /\ asSound' = TRUE
             /\ asRuns' = [active |-> Chosen(asInit), paths |-> Materialized(asInit).paths, tried |-> FALSE]
             /\ Reloaded(asInit, Empty)
        ELSE /\ asInit' = IF Loads(Chosen(asInit)) THEN CleanedAtBoot(asInit) ELSE asInit
             /\ asUp' = "dead" /\ UNCHANGED <<asSound, asRuns, asDisk, asSection>>
  /\ UNCHANGED <<asFile, asMine, asEdits>>

\* Somebody launches a dead agent again
AsRelaunch ==
  /\ asUp = "dead" /\ asBoots < AsBoots
  /\ Down /\ UNCHANGED <<asInit, asSound>>

\* The post-molt hook re-reads init.json; a bad one leaves the prompt as it was
AsMolt ==
  /\ asUp = "up"
  /\ asInit' = Cleaned(asInit)
  /\ IF Bootable(asInit)
     THEN Reloaded(asInit, asSection)
     ELSE UNCHANGED <<asDisk, asSection>>
  /\ UNCHANGED <<asFile, asRuns, asUp, asMine, asSound, asEdits, asBoots>>

AsNext ==
  \/ AsEditPresets \/ AsEditTexts \/ AsEditFile \/ AsEditDisk
  \/ AsAuthors \/ AsSwap \/ AsRefresh \/ AsFallback \/ AsFallbackFails
  \/ AsBoot \/ AsRelaunch \/ AsMolt

AsSpec == AsInit /\ [][AsNext]_asVars

-----------------------------------------------------------------------------
AsTypeOK ==
  /\ asInit \in [active : AsPresets, default : AsPresets, allowed : SUBSET AsPresets,
                 paths : SUBSET (AsPresets \cup {Own}), stale : BOOLEAN,
                 seed : Texts, covenant : Texts, comment : Texts]
  /\ asFile \in [AsPresets -> {"good", "broken", "missing"}]
  /\ asDisk \in [lingtai : Texts, covenant : Texts, brief : Texts]
  /\ asSection \in [Sections -> Texts]
  /\ asRuns \in [active : AsPresets \cup {""}, paths : SUBSET (AsPresets \cup {Own}), tried : BOOLEAN]
  /\ asUp \in {"up", "down", "dead"}
  /\ asMine \in BOOLEAN /\ asSound \in BOOLEAN
  /\ asEdits \in 0..AsEdits /\ asBoots \in 0..AsBoots

\* As long as no one but the agent has touched the configuration since a boot or a fallback, the
\* next launch succeeds: a swap, a clean-up, a molt or a fallback never leaves an init.json that
\* does not boot, and the fallback repairs one whose list lacks the default.
ChoiceBoots == asSound => Bootable(asInit) /\ asUp # "dead"

\* A molt leaves the prompt a refresh at that moment would compose, the covenant apart, and what it
\* writes back to init.json holds nothing of the preset it resolved.
MoltAgrees ==
  [][AsMolt => /\ asInit'.paths = asInit.paths /\ asInit'.active = asInit.active
               /\ \A s \in Sections \ {"covenant"} :
                    Bootable(asInit) =>
                      asSection'[s] = Composed(asInit', asDisk', Empty)[s]]_asVars

\* agent.py:1463 "Once the agent self-authors lingtai.md, the on-disk file wins on every
\* boot/refresh": what the agent wrote about itself is still there later.
SelfAuthoredWins == asMine => asDisk.lingtai = "agent"
=============================================================================
