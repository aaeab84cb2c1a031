---------------------------- MODULE Consultation ----------------------------
(***************************************************************************)
(* One consultation of a soul flow fire (intrinsics/soul/consultation.py): *)
(* a chat, the agent's own or a snapshot of a past self, is cut to the     *)
(* window, the diary is sent to it as a spark, and the tools it asks for   *)
(* are refused, for a few rounds.                                          *)
(***************************************************************************)
EXTENDS Naturals, Sequences, FiniteSets, SequencesExt, FiniteSetsExt

CONSTANTS
  CsLength, \* bound: entries of the chat
  CsWindow, \* bound: tokens the chat may be cut to
  CsRounds  \* _CONSULTATION_MAX_ROUNDS

ASSUME ConsultationAssumption == CsLength \in Nat /\ CsWindow \in Nat /\ CsRounds \in Nat \ {0}

VARIABLES
  csChat,   \* the chat consulted
  csTarget, \* tokens it may have
  csWire,   \* the chat of the consultation's own session
  csAt,     \* where the consultation is
  csRound,  \* rounds sent
  csBlocks  \* blocks the voice has so far

csVars == <<csChat, csTarget, csWire, csAt, csRound, csBlocks>>

Kinds == {"system", "user", "text", "call", "result"}
Size(chat) == Len(chat) + Cardinality({i \in DOMAIN chat : chat[i] = "result"})

\* A result is behind its call, and a call in front of its result
Legal(chat, i) ==
  /\ chat[i] = "result" => i > 1 /\ chat[i - 1] = "call"
  /\ i > 1 /\ chat[i - 1] = "call" => chat[i] = "result"

\* What a chat or a snapshot of one can be: its last call may be unanswered
Snapshots == {chat \in SeqOf(Kinds, CsLength) : \A i \in DOMAIN chat : Legal(chat, i)}

EndsInCall(chat) == chat # <<>> /\ Last(chat) = "call"

\* Mutation of Healed: a cut chat is used as it is
NotHealed(chat) == chat

Healed(chat) == IF EndsInCall(chat) THEN Append(chat, "result") ELSE chat

\* Mutation of Clean: a cut in the middle of a pair
AnyStart(body, i) == TRUE

\* A suffix does not start with a result whose call was cut off
Clean(body, i) == i > Len(body) \/ body[i] # "result"

\* The system entry, and the longest run of last entries that fits with it
Fitted(chat, target) ==
  IF target = 0 \/ chat = <<>> THEN <<>>
  ELSE IF Size(chat) <= target THEN Healed(chat)
  ELSE LET head == IF Head(chat) = "system" THEN <<"system">> ELSE <<>>
           body == SubSeq(chat, Len(head) + 1, Len(chat))
           Rest(i) == SubSeq(body, i, Len(body))
           fits == {i \in DOMAIN body : Size(head \o Rest(i)) <= target}
           first == Min(fits \cup {Len(body) + 1})
       IN Healed(head \o Rest(Min({i \in first..(Len(body) + 1) : Clean(body, i)})))

CsInit ==
  /\ csChat \in Snapshots /\ csTarget \in 0..CsWindow
  /\ csWire = <<>> /\ csAt = "fit" /\ csRound = 0 /\ csBlocks = <<>>

\* A cut that leaves nothing, a session that cannot be made, an empty diary:
\* no consultation
CsFits ==
  /\ csAt = "fit" /\ csWire' = Fitted(csChat, csTarget)
  /\ \/ csWire' # <<>> /\ csAt' = "spark"
     \/ csAt' = "none"
  /\ UNCHANGED <<csChat, csTarget, csRound, csBlocks>>

\* The diary goes behind the chat; a chat that ends with a call refuses it
CsSparks ==
  /\ csAt = "spark"
  /\ IF EndsInCall(csWire) THEN csAt' = "none" /\ UNCHANGED csWire
                        ELSE csAt' = "sent" /\ csWire' = Append(csWire, "user")
  /\ UNCHANGED <<csChat, csTarget, csRound, csBlocks>>

\* What is answered is kept; an answer without calls ends it
CsAnswers ==
  /\ csAt = "sent" /\ csRound' = csRound + 1
  /\ \E kind \in {"text", "call"} :
       /\ csWire' = Append(csWire, kind)
       /\ csBlocks' = Append(csBlocks, kind)
       /\ csAt' = IF kind = "call" THEN "refuse" ELSE "over"
  /\ UNCHANGED <<csChat, csTarget>>

\* Every call is refused; the refusal is sent if a round is left
CsRefuses ==
  /\ csAt = "refuse" /\ csBlocks' = Append(csBlocks, "result")
  /\ IF csRound < CsRounds THEN csAt' = "sent" /\ csWire' = Append(csWire, "result")
                           ELSE csAt' = "over" /\ UNCHANGED csWire
  /\ UNCHANGED <<csChat, csTarget, csRound>>

\* A voice without blocks is not one of the batch's
Survives == csBlocks # <<>>

\* A timeout or an error ends it with the blocks there are
CsNoAnswer ==
  /\ csAt = "sent" /\ csAt' = IF Survives THEN "over" ELSE "none"
  /\ UNCHANGED <<csChat, csTarget, csWire, csRound, csBlocks>>

CsNext == CsFits \/ CsSparks \/ CsAnswers \/ CsRefuses \/ CsNoAnswer

CsSpec == CsInit /\ [][CsNext]_csVars

-----------------------------------------------------------------------------
(* Properties *)

\* Values the consultation's state takes
CsTypeOK ==
  /\ csChat \in Seq(Kinds) /\ csWire \in Seq(Kinds) /\ csBlocks \in Seq(Kinds)
  /\ csTarget \in 0..CsWindow /\ csRound \in 0..CsRounds
  /\ csAt \in {"fit", "spark", "sent", "refuse", "over", "none"}

\* What a consultation sends is a legal chat, whatever the agent was doing
\* when it or its snapshot was taken and wherever the window cuts it: no
\* result without its call, no call but the last without its result, nothing
\* unanswered when the spark or a refusal goes out; and a cut keeps the
\* longest end of the chat that could be legal.
ConsultsLegally ==
  /\ csAt # "none" => \A i \in DOMAIN csWire : Legal(csWire, i)
  /\ csAt \in {"spark", "sent"} => ~EndsInCall(csWire)
  /\ csAt = "spark" /\ Size(csChat) > csTarget =>
       \A i \in DOMAIN csChat :
         LET rest == SubSeq(csChat, i, Len(csChat))
         IN /\ rest[1] # "result"
            /\ Size(rest) + (IF csChat[1] = "system" THEN 1 ELSE 0) <= csTarget
            => IsSuffix(rest, csWire) \/ IsSuffix(Append(rest, "result"), csWire)
=============================================================================
