----------------------------- MODULE McpRegistry -----------------------------
(***************************************************************************)
(* The registry of MCP servers in one agent's directory                    *)
(* (lingtai/core/mcp/__init__.py): a file with one record per line that    *)
(* the agent and its operator rewrite with file tools, to which a boot     *)
(* appends the add-ons init.json declares, which goes into the prompt with *)
(* the accounts the servers publish, and without which no server of        *)
(* init.json is started (agent.py).                                        *)
(***************************************************************************)
EXTENDS Naturals, SequencesExt, Subsequence

CONSTANTS
  RgNames,     \* names of servers
  RgCatalog,   \* the names mcp_catalog.json has a record for
  RgEdits,     \* bound: rewrites of the file
  RgBoots      \* bound: boots

ASSUME McpRegistryAssumption ==
  /\ RgCatalog \subseteq RgNames /\ RgEdits \in Nat /\ RgBoots \in Nat

VARIABLES
  rgFile,      \* the lines, each the records between two newlines
  rgEnded,     \* does the last line end in a newline
  rgInit,      \* init.json: its add-ons, its mcp entries
  rgIdentity,  \* name -> keys of the account its server published
  rgBoot,      \* where the boot is, the names it read, the add-ons left
  rgPrompt,    \* the mcp section: names, with the keys shown of each account
  rgServers,   \* servers of init.json the agent tried to start
  rgTidy,      \* ghost: the file was well ended when the boot read it, and no one wrote it since
  rgOps        \* rewrites and boots so far

rgVars == <<rgFile, rgEnded, rgInit, rgIdentity, rgBoot, rgPrompt, rgServers, rgTidy, rgOps>>

Record(name, ok) == [name |-> name, ok |-> ok]
BootStates == {"down", "adding", "loading", "up"}
RgDown == [at |-> "down", known |-> {}, todo |-> <<>>]
AccountKeys == {"alias", "token"}

-----------------------------------------------------------------------------
(* The file *)

\* A line is one JSON object of the schema. Two objects with no newline between are none.
ValidLine(line) == Len(line) = 1 /\ line[1].ok

\* The first record of a name wins, a later one is a problem
KeptLines(file) ==
  {i \in DOMAIN file :
     /\ ValidLine(file[i])
     /\ \A j \in 1..(i - 1) : ValidLine(file[j]) => file[j][1].name # file[i][1].name}

Registered(file) ==
  LET lines == AtPlaces(file, KeptLines(file)) IN [n \in DOMAIN lines |-> lines[n][1].name]

IsRegistered(name) == Contains(Registered(rgFile), name)

\* Mutation of AppendedLine: the file is written anew from the records of this boot
OnlyNew(file, record) == <<<<record>>>>

\* open("a"): the new line begins where the file ends
AppendedLine(file, record) ==
  IF rgEnded \/ file = <<>> THEN Append(file, <<record>>)
  ELSE [file EXCEPT ![Len(file)] = Append(@, record)]

\* The catalog's records carry their own name and pass the validator
CatalogRecord(name) == Record(name, TRUE)

\* Only keys of the allowlist leave the document; an account with none is dropped
ShownAccount(name) == rgIdentity[name] \cap {"alias"}

Rendered == [i \in DOMAIN Registered(rgFile) |->
               LET name == Registered(rgFile)[i] IN [name |-> name, account |-> ShownAccount(name)]]

-----------------------------------------------------------------------------
(* Around the agent *)

RgInit ==
  /\ rgFile = <<>> /\ rgEnded = TRUE
  /\ rgInit \in [addons : {<<n, m>> : n, m \in RgNames}, mcp : SUBSET RgNames]
  /\ rgIdentity = [n \in RgNames |-> {}]
  /\ rgBoot = RgDown /\ rgPrompt = <<>> /\ rgServers = {} /\ rgTidy = FALSE
  /\ rgOps = [edits |-> 0, boots |-> 0]

\* write, edit, or an editor: a record more or a line less, with a last newline or without
RgRewrite ==
  /\ rgOps.edits < RgEdits /\ rgOps' = [rgOps EXCEPT !.edits = @ + 1]
  /\ rgEnded' \in BOOLEAN
  /\ \/ \E n \in RgNames, ok \in BOOLEAN : rgFile' = Append(rgFile, <<Record(n, ok)>>)
     \/ \E i \in DOMAIN rgFile : rgFile' = RemoveAt(rgFile, i)
  /\ rgTidy' = FALSE
  /\ UNCHANGED <<rgInit, rgIdentity, rgBoot, rgPrompt, rgServers>>

\* A server that was started publishes who it is
RgPublish(name) ==
  /\ name \in rgServers /\ rgIdentity[name] = {}
  /\ \E keys \in SUBSET AccountKeys : rgIdentity' = [rgIdentity EXCEPT ![name] = keys]
  /\ rgIdentity' # rgIdentity
  /\ UNCHANGED <<rgFile, rgEnded, rgInit, rgBoot, rgPrompt, rgServers, rgTidy, rgOps>>

-----------------------------------------------------------------------------
(* The boot *)

\* decompress_addons reads the registry once
RgStart ==
  /\ rgBoot.at = "down"
  /\ rgOps.boots < RgBoots /\ rgOps' = [rgOps EXCEPT !.boots = @ + 1]
  /\ rgBoot' = [at |-> "adding", known |-> ToSet(Registered(rgFile)), todo |-> rgInit.addons]
  /\ rgTidy' = (rgEnded \/ rgFile = <<>>)
  /\ UNCHANGED <<rgFile, rgEnded, rgInit, rgIdentity, rgPrompt, rgServers>>

\* Skipped, unknown, or appended with a newline
RgAddon ==
  /\ rgBoot.at = "adding" /\ rgBoot.todo # <<>>
  /\ LET name == Head(rgBoot.todo)
     IN IF name \notin rgBoot.known /\ name \in RgCatalog
        THEN /\ rgFile' = AppendedLine(rgFile, CatalogRecord(name)) /\ rgEnded' = TRUE
             /\ rgBoot' = [rgBoot EXCEPT !.todo = Tail(@), !.known = @ \cup {name}]
        ELSE /\ rgBoot' = [rgBoot EXCEPT !.todo = Tail(@)]
             /\ UNCHANGED <<rgFile, rgEnded>>
  /\ UNCHANGED <<rgInit, rgIdentity, rgPrompt, rgServers, rgTidy, rgOps>>

\* setup of the capability, and mcp(action="show") later
RgReconcile ==
  /\ \/ rgBoot.at = "adding" /\ rgBoot.todo = <<>> /\ rgBoot' = [rgBoot EXCEPT !.at = "loading"]
     \/ rgBoot.at = "up" /\ UNCHANGED rgBoot
  /\ rgPrompt' = Rendered
  /\ UNCHANGED <<rgFile, rgEnded, rgInit, rgIdentity, rgServers, rgTidy, rgOps>>

\* Mutation of Gated: every entry of init.json is started
Ungated == rgInit.mcp

Gated == {n \in rgInit.mcp : IsRegistered(n)}

RgLoad ==
  /\ rgBoot.at = "loading"
  /\ rgServers' = Gated
  /\ rgBoot' = [rgBoot EXCEPT !.at = "up", !.known = {}]
  /\ UNCHANGED <<rgFile, rgEnded, rgInit, rgIdentity, rgPrompt, rgTidy, rgOps>>

\* The process ends, at a refresh or in the middle of its boot
RgEnd ==
  /\ rgBoot.at # "down"
  /\ rgBoot' = RgDown /\ rgPrompt' = <<>> /\ rgServers' = {} /\ rgTidy' = FALSE
  /\ UNCHANGED <<rgFile, rgEnded, rgInit, rgIdentity, rgOps>>

RgNext ==
  \/ RgRewrite \/ (\E n \in RgNames : RgPublish(n))
  \/ RgStart \/ RgAddon \/ RgReconcile \/ RgLoad \/ RgEnd

RgSpec == RgInit /\ [][RgNext]_rgVars

-----------------------------------------------------------------------------
(* Properties *)

\* Every value is of its type, and the registry has one record for a name.
RgTypeOK ==
  /\ rgFile \in Seq(Seq([name : RgNames, ok : BOOLEAN])) /\ rgEnded \in BOOLEAN
  /\ rgInit \in [addons : Seq(RgNames), mcp : SUBSET RgNames]
  /\ rgIdentity \in [RgNames -> SUBSET AccountKeys]
  /\ rgBoot \in [at : BootStates, known : SUBSET RgNames, todo : Seq(RgNames)]
  /\ rgPrompt \in Seq([name : RgNames, account : SUBSET AccountKeys])
  /\ rgServers \subseteq RgNames /\ rgTidy \in BOOLEAN
  /\ rgOps \in [edits : 0..RgEdits, boots : 0..RgBoots]

\* After a boot that found a well-ended file and was not interfered with, however the boots before
\* it ended, each declared add-on the catalog knows is registered, is in the prompt, and was
\* started if init.json configures it; and nothing was started that is not registered
\* (decompress_addons, _load_mcp_from_workdir).
AddonsServed ==
  rgBoot.at = "up" /\ rgTidy =>
    /\ rgServers \subseteq {rgPrompt[i].name : i \in DOMAIN rgPrompt}
    /\ \A n \in ToSet(rgInit.addons) \cap RgCatalog :
         /\ n \in {rgPrompt[i].name : i \in DOMAIN rgPrompt}
         /\ n \in rgInit.mcp => n \in rgServers

\* A boot leaves the records it finds, in their order, but the one of a last line that does not end
\* in a newline ("never modifies existing records, never reorders" holds only without such a line).
RecordsStay ==
  [][rgBoot.at = "adding" /\ UNCHANGED rgOps =>
       IsPrefix(Registered(IF rgEnded \/ rgFile = <<>> THEN rgFile ELSE Front(rgFile)),
                Registered(rgFile'))]_rgVars
=============================================================================
