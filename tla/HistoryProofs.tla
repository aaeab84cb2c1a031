---------------------------- MODULE HistoryProofs ----------------------------
(***************************************************************************)
(* Theorems about ChatInterface, for histories of any length, any bounds   *)
(* and any prompts, when neither race is let in (Races = {}): its types,   *)
(* and that what a request carries is legal.  First what the operators on  *)
(* histories keep (append, close, add results, drop, strip, trim, the      *)
(* selection of a molt), then the invariant, then one lemma per action.    *)
(* After it, in the same order, Consultation, which cuts a chat out of     *)
(* such a history, TimedCalls, which splices pairs into it, and apart from *)
(* them FileSearch: what a search answers and the pages of a file show.    *)
(***************************************************************************)
EXTENDS ChatInterface, Consultation, TimedCalls, FileSearch, CodexProofs

-----------------------------------------------------------------------------
(* Histories                                                               *)

\* One entry: it calls or answers, not both; its ids were issued; and it shows
\* as real what the event log has of the results in it.
EntryOK(e, log, n) ==
  /\ e \in EntryType
  /\ e.calls # {} => e.role = "assistant"
  /\ e.results # {} => e.role = "user"
  /\ e.real \subseteq e.results
  /\ e.results \cap log \subseteq e.real
  /\ \A id \in e.calls \cup e.results : id < n

\* No id is called twice or answered twice.
AskedOnce(h) ==
  \A i, j \in DOMAIN h :
    i # j => /\ h[i].calls \cap h[j].calls = {}
             /\ h[i].results \cap h[j].results = {}

\* A call that is answered is answered by the next entry, and every call is
\* answered there but for those of the last entry.
Follows(h) ==
  \A i, j \in DOMAIN h :
    /\ h[i].calls \cap h[j].results # {} => j = i + 1
    /\ j = i + 1 => h[i].calls \subseteq h[j].results

\* A history whose entries are right one by one and pair by pair, for the ids below n
\* and an event log.  It need not be legal: its last entry may call.
Sound(h, log, n) ==
  /\ h \in Seq(EntryType)
  /\ \A i \in DOMAIN h : EntryOK(h[i], log, n)
  /\ AskedOnce(h) /\ Follows(h)

\* A history goes on with an entry that answers what was left pending, if
\* anything was, and calls what was not called before.
LEMMA SoundAppend ==
  ASSUME NEW log, NEW n, NEW h, Sound(h, log, n),
         NEW e, EntryOK(e, log, n),
         \A i \in DOMAIN h : /\ e.calls \cap (h[i].calls \cup h[i].results) = {}
                             /\ e.results \cap h[i].results = {}
                             /\ i < Len(h) => e.results \cap h[i].calls = {},
         Pending(h) => h[Len(h)].calls \subseteq e.results
  PROVE  Sound(Append(h, e), log, n)
<1> DEFINE g == Append(h, e)
           L == Len(h)
<1>1. /\ h \in Seq(EntryType) /\ L \in Nat /\ e \in EntryType /\ DOMAIN h = 1..L
      /\ g \in Seq(EntryType) /\ Len(g) = L + 1 /\ DOMAIN g = 1..L + 1
      /\ g[L + 1] = e /\ \A i \in 1..L : g[i] = h[i]
  BY DEF Sound, EntryOK
<1>2. \A i \in 1..L + 1 : i \in 1..L \/ i = L + 1
  BY <1>1
<1> HIDE DEF g, L
<1>3. \A i \in DOMAIN g : EntryOK(g[i], log, n)
  BY <1>1, <1>2 DEF Sound
<1>4. AskedOnce(g)
  BY <1>1, <1>2 DEF Sound, AskedOnce
<1>5. Follows(g)
  <2> SUFFICES ASSUME NEW i \in 1..L + 1, NEW j \in 1..L + 1
               PROVE  /\ g[i].calls \cap g[j].results # {} => j = i + 1
                      /\ j = i + 1 => g[i].calls \subseteq g[j].results
    BY <1>1 DEF Follows
  <2>1. CASE i \in 1..L /\ j \in 1..L
    BY <1>1, <2>1 DEF Sound, Follows
  <2>2. CASE i \in 1..L /\ j = L + 1
    <3>1. g[i] = h[i] /\ g[j] = e /\ (i < L \/ i = L)
      BY <1>1, <2>2
    <3>2. i < L => e.results \cap h[i].calls = {}
      BY <1>1, <2>2 DEF L
    <3>3. i = L => h[i].calls \subseteq e.results
      BY <1>1, <2>2 DEF L, Pending
    <3> QED BY <1>1, <2>2, <3>1, <3>2, <3>3
  <2>3. CASE i = L + 1 /\ j \in 1..L
    <3>1. g[i] = e /\ g[j] = h[j] /\ j # i + 1
      BY <1>1, <2>3
    <3> QED BY <1>1, <2>3, <3>1
  <2>4. CASE i = L + 1 /\ j = L + 1
    <3>1. e.calls = {} \/ e.results = {}
      BY DEF EntryOK
    <3> QED BY <1>1, <2>4, <3>1
  <2> QED BY <1>2, <2>1, <2>2, <2>3, <2>4
<1> QED BY <1>1, <1>3, <1>4, <1>5 DEF Sound, g

\* Issuing ids disturbs nothing.
LEMMA SoundGrows ==
  ASSUME NEW log, NEW n \in Int, NEW m \in Int, n <= m, NEW h, Sound(h, log, n)
  PROVE  Sound(h, log, m)
<1>1. \A i \in DOMAIN h : h[i] \in EntryType /\ EntryOK(h[i], log, n)
  BY DEF Sound
<1>2. ASSUME NEW i \in DOMAIN h PROVE EntryOK(h[i], log, m)
  <2>1. \A id \in h[i].calls \cup h[i].results : id \in Int /\ id < n
    BY <1>1 DEF EntryOK, EntryType, Ids
  <2>2. \A id \in h[i].calls \cup h[i].results : id < m
    BY <2>1
  <2> QED BY <1>1, <2>2 DEF EntryOK
<1> QED BY <1>2 DEF Sound

\* A tool that is in no entry's results is logged.
LEMMA SoundLogged ==
  ASSUME NEW log, NEW n, NEW h, Sound(h, log, n), NEW id,
         \A i \in DOMAIN h : id \notin h[i].results
  PROVE  Sound(h, log \cup {id}, n)
<1>1. ASSUME NEW i \in DOMAIN h PROVE EntryOK(h[i], log \cup {id}, n)
  <2>1. EntryOK(h[i], log, n)
    BY DEF Sound
  <2> QED BY <2>1 DEF EntryOK
<1> QED BY <1>1 DEF Sound

\* An entry that neither calls nor answers.
Plain(e) == e.calls = {} /\ e.results = {}

\* What each kind of entry is.
LEMMA EntryIs ==
  /\ \A p \in Prompts \cup {NoPrompt} : \A log, n :
       /\ EntryOK(System(p), log, n) /\ Plain(System(p))
       /\ System(p).role = "system" /\ System(p).prompt = p
  /\ \A log, n : EntryOK(Text, log, n) /\ Plain(Text) /\ Text.role = "user"
<1>1. ASSUME NEW p \in Prompts \cup {NoPrompt}, NEW log, NEW n
      PROVE  /\ EntryOK(System(p), log, n) /\ Plain(System(p))
             /\ System(p).role = "system" /\ System(p).prompt = p
  BY DEF EntryOK, System, EntryType, Plain
<1>2. ASSUME NEW log, NEW n
      PROVE  EntryOK(Text, log, n) /\ Plain(Text) /\ Text.role = "user"
  BY DEF EntryOK, Text, EntryType, Plain
<1> QED BY <1>1, <1>2

LEMMA CallEntry ==
  ASSUME NEW ids \in SUBSET Ids
  PROVE  /\ Assistant(ids) \in EntryType /\ Assistant(ids).role = "assistant"
         /\ Assistant(ids).calls = ids /\ Assistant(ids).results = {}
         /\ \A log, n : (\A id \in ids : id < n) => EntryOK(Assistant(ids), log, n)
<1>1. Assistant(ids) = [role |-> "assistant", calls |-> ids, results |-> {}, real |-> {},
                        prompt |-> NoPrompt]
  <2> DEFINE t == [role |-> "assistant", calls |-> {}, results |-> {}, real |-> {},
                   prompt |-> NoPrompt]
  <2>1. [Text EXCEPT !.role = "assistant"] = t
    BY DEF Text
  <2>2. Assistant(ids) = [t EXCEPT !.calls = ids]
    BY <2>1 DEF Assistant
  <2> QED BY <2>2
<1>2. Assistant(ids) \in EntryType
  BY <1>1 DEF EntryType
<1> QED BY <1>1, <1>2 DEF EntryOK

LEMMA ResultEntry ==
  ASSUME NEW ids \in SUBSET Ids, NEW real \in SUBSET ids
  PROVE  /\ Results(ids, real) \in EntryType /\ Results(ids, real).role = "user"
         /\ Results(ids, real).calls = {} /\ Results(ids, real).results = ids
         /\ \A log, n : (\A id \in ids : id < n) /\ ids \cap log \subseteq real =>
              EntryOK(Results(ids, real), log, n)
<1>1. Results(ids, real) = [role |-> "user", calls |-> {}, results |-> ids, real |-> real,
                            prompt |-> NoPrompt]
  <2> DEFINE t == [role |-> "user", calls |-> {}, results |-> ids, real |-> {},
                   prompt |-> NoPrompt]
  <2>1. [Text EXCEPT !.results = ids] = t
    BY DEF Text
  <2>2. Results(ids, real) = [t EXCEPT !.real = real]
    BY <2>1 DEF Results
  <2> QED BY <2>2
<1>2. Results(ids, real) \in EntryType
  BY <1>1 DEF EntryType
<1> QED BY <1>1, <1>2 DEF EntryOK

\* A prompt or a text is appended where nothing is pending.
LEMMA SoundQuiet ==
  ASSUME NEW log, NEW n, NEW h, Sound(h, log, n), ~Pending(h),
         NEW e, EntryOK(e, log, n), Plain(e)
  PROVE  Sound(Append(h, e), log, n) /\ ~Pending(Append(h, e))
<1>1. Sound(Append(h, e), log, n)
  BY SoundAppend DEF Plain
<1>2. Append(h, e)[Len(Append(h, e))] = e
  BY DEF Sound, EntryOK
<1> QED BY <1>1, <1>2 DEF Pending, Plain

\* The calls of the last entry are answered nowhere.
LEMMA Dangling ==
  ASSUME NEW log, NEW n, NEW h, Sound(h, log, n), Pending(h)
  PROVE  /\ Len(h) \in DOMAIN h /\ h[Len(h)].calls \in SUBSET Ids /\ h[Len(h)].calls # {}
         /\ \A id \in h[Len(h)].calls : id < n
         /\ \A i \in DOMAIN h : h[Len(h)].calls \cap h[i].results = {}
         /\ \A i \in DOMAIN h : i < Len(h) => h[Len(h)].calls \cap h[i].calls = {}
<1>1. h \in Seq(EntryType) /\ h # <<>> /\ Len(h) \in Nat /\ DOMAIN h = 1..Len(h)
  BY DEF Sound, Pending
<1>2. Len(h) \in DOMAIN h /\ h[Len(h)].calls # {}
  BY <1>1 DEF Pending
<1>3. \A id \in h[Len(h)].calls : id < n
  BY <1>2 DEF Sound, EntryOK
<1>4. h[Len(h)].calls \in SUBSET Ids
  <2>1. h[Len(h)] \in EntryType
    BY <1>1, <1>2
  <2> QED BY <2>1 DEF EntryType
<1>5. \A i \in DOMAIN h : h[Len(h)].calls \cap h[i].results = {}
  BY <1>1, <1>2 DEF Sound, Follows
<1>6. \A i \in DOMAIN h : i < Len(h) => h[Len(h)].calls \cap h[i].calls = {}
  BY <1>1, <1>2 DEF Sound, AskedOnce
<1> QED BY <1>2, <1>3, <1>4, <1>5, <1>6

\* What is pending is answered at the end, by at least its calls.
LEMMA SoundAnswered ==
  ASSUME NEW log, NEW n, NEW h, Sound(h, log, n),
         NEW ids \in SUBSET Ids, NEW real \in SUBSET ids, ids # {},
         \A id \in ids : id < n, ids \cap log \subseteq real,
         Pending(h) => h[Len(h)].calls \subseteq ids,
         \A i \in DOMAIN h : /\ ids \cap h[i].results = {}
                             /\ i < Len(h) => ids \cap h[i].calls = {}
  PROVE  LET g == Append(h, Results(ids, real))
         IN Sound(g, log, n) /\ ~Pending(g)
<1> DEFINE e == Results(ids, real)
<1>1. EntryOK(e, log, n) /\ e.calls = {} /\ e.results = ids
  BY ResultEntry
<1> HIDE DEF e
<1>2. Sound(Append(h, e), log, n)
  BY <1>1, SoundAppend
<1>3. Append(h, e)[Len(Append(h, e))] = e
  BY <1>1 DEF Sound, EntryOK
<1> QED BY <1>1, <1>2, <1>3 DEF Pending, e

\* Closing leaves nothing pending.
LEMMA SoundClose ==
  ASSUME NEW log, NEW n, NEW h, Sound(h, log, n)
  PROVE  /\ Sound(Close(h, log), log, n) /\ ~Pending(Close(h, log))
         /\ ~Pending(h) => Close(h, log) = h
<1>1. CASE Pending(h)
  <2> DEFINE ids == h[Len(h)].calls
  <2>1. Sound(Append(h, Results(ids, ids \cap log)), log, n)
        /\ ~Pending(Append(h, Results(ids, ids \cap log)))
    BY <1>1, Dangling, SoundAnswered
  <2> QED BY <1>1, <2>1 DEF Close
<1>2. CASE ~Pending(h)
  BY <1>2 DEF Close
<1> QED BY <1>1, <1>2

\* The results of a batch, none of which was there yet.
LEMMA AddsAll ==
  ASSUME NEW h \in Seq(EntryType), NEW ids, ids # {},
         \A i \in DOMAIN h : h[i].results \cap ids = {}
  PROVE  AddResults(h, ids) = Append(h, Results(ids, ids))
<1> DEFINE over == [i \in DOMAIN h |->
                      [h[i] EXCEPT !.real = @ \cup (h[i].results \cap ids)]]
<1>1. over = h
  <2>1. ASSUME NEW i \in DOMAIN h
        PROVE  [h[i] EXCEPT !.real = @ \cup (h[i].results \cap ids)] = h[i]
    <3>1. h[i] \in EntryType /\ h[i].real \cup (h[i].results \cap ids) = h[i].real
      OBVIOUS
    <3> QED BY <3>1 DEF EntryType
  <2>2. over = [i \in DOMAIN h |-> h[i]]
    BY <2>1
  <2> QED BY <2>2
<1>2. ids \ Placeholders(h) = ids
  BY DEF Placeholders
<1> QED BY <1>1, <1>2 DEF AddResults

\* The first entries of a history.
LEMMA SoundPrefix ==
  ASSUME NEW log, NEW n, NEW h, Sound(h, log, n), NEW k \in 0..Len(h)
  PROVE  /\ Sound(SubSeq(h, 1, k), log, n) /\ Len(SubSeq(h, 1, k)) = k
         /\ \A i \in 1..k : SubSeq(h, 1, k)[i] = h[i]
<1> DEFINE g == SubSeq(h, 1, k)
<1>1. /\ h \in Seq(EntryType) /\ Len(h) \in Nat /\ DOMAIN h = 1..Len(h)
      /\ k \in Nat /\ 1..k \subseteq 1..Len(h)
  BY DEF Sound
<1>2. g \in Seq(EntryType) /\ Len(g) = k /\ DOMAIN g = 1..k /\ \A i \in 1..k : g[i] = h[i]
  BY <1>1
<1> HIDE DEF g
<1>3. \A i \in DOMAIN g : EntryOK(g[i], log, n)
  BY <1>1, <1>2 DEF Sound
<1>4. AskedOnce(g)
  BY <1>1, <1>2 DEF Sound, AskedOnce
<1>5. Follows(g)
  BY <1>1, <1>2 DEF Sound, Follows
<1>6. Sound(g, log, n)
  BY <1>2, <1>3, <1>4, <1>5 DEF Sound
<1> QED BY <1>2, <1>6 DEF g

\* What the pairing leaves: every call, and of the results those that were
\* called.
LEMMA Stripped ==
  ASSUME NEW log, NEW n, NEW h, Sound(h, log, n)
  PROVE  LET g == StripOrphans(h)
         IN /\ g \in Seq(EntryType) /\ Len(g) = Len(h) /\ DOMAIN g = DOMAIN h
            /\ \A i \in DOMAIN h :
                 /\ g[i].role = h[i].role /\ g[i].prompt = h[i].prompt
                 /\ g[i].calls = h[i].calls
                 /\ g[i].results = h[i].results \cap Calls(h)
                 /\ g[i].real = h[i].real \cap Calls(h)
<1>1. /\ h \in Seq(EntryType) /\ Len(h) \in Nat /\ DOMAIN h = 1..Len(h)
      /\ \A i \in DOMAIN h : h[i] \in EntryType /\ h[i].real \subseteq h[i].results
  BY DEF Sound, EntryOK
<1>2. CASE Calls(h) = Answered(h)
  <2>1. \A i \in DOMAIN h : h[i].results \subseteq Calls(h)
    BY <1>2 DEF Answered
  <2> QED BY <1>1, <1>2, <2>1 DEF StripOrphans
<1>3. CASE Calls(h) # Answered(h)
  <2>1. ASSUME NEW i \in DOMAIN h
        PROVE  /\ Strip(h, i) \in EntryType
               /\ Strip(h, i).role = h[i].role /\ Strip(h, i).prompt = h[i].prompt
               /\ Strip(h, i).calls = h[i].calls
               /\ Strip(h, i).results = h[i].results \cap Calls(h)
               /\ Strip(h, i).real = h[i].real \cap Calls(h)
    <3> DEFINE e == h[i]
               c == IF i = Len(h) THEN e.calls ELSE e.calls \cap Answered(h)
               s == e.results \cap Calls(h)
               r == e.real \cap Calls(h)
    <3>1. c = e.calls
      <4>1. ASSUME i # Len(h) PROVE e.calls \subseteq Answered(h)
        <5>1. i + 1 \in DOMAIN h
          BY <1>1, <4>1
        <5>2. e.calls \subseteq h[i + 1].results
          BY <5>1 DEF Sound, Follows
        <5> QED BY <5>1, <5>2 DEF Answered
      <4> QED BY <4>1
    <3>2. Strip(h, i) = [e EXCEPT !.calls = c, !.results = s, !.real = r]
      BY DEF Strip
    <3>3. e \in EntryType /\ s \subseteq e.results /\ r \subseteq e.real
      BY <1>1
    <3> HIDE DEF e, c, s, r
    <3>4. [e EXCEPT !.calls = c, !.results = s, !.real = r]
            = [role |-> e.role, calls |-> e.calls, results |-> s, real |-> r, prompt |-> e.prompt]
      <4> DEFINE t == [role |-> e.role, calls |-> e.calls, results |-> e.results,
                       real |-> e.real, prompt |-> e.prompt]
                 u == [role |-> e.role, calls |-> e.calls, results |-> s,
                       real |-> e.real, prompt |-> e.prompt]
      <4>1. e = t
        BY <3>3 DEF EntryType
      <4>2. [e EXCEPT !.calls = c] = e
        BY <3>1, <4>1
      <4>3. [e EXCEPT !.results = s] = u
        BY <4>1
      <4>4. [e EXCEPT !.calls = c, !.results = s, !.real = r] = [u EXCEPT !.real = r]
        BY <4>2, <4>3
      <4> QED BY <4>4
    <3>5. [role |-> e.role, calls |-> e.calls, results |-> s, real |-> r, prompt |-> e.prompt]
            \in EntryType
      BY <3>3 DEF EntryType
    <3> QED BY <3>2, <3>4, <3>5 DEF e, s, r
  <2>2. StripOrphans(h) = [i \in DOMAIN h |-> Strip(h, i)]
    BY <1>3 DEF StripOrphans
  <2> HIDE DEF Strip
  <2>3. StripOrphans(h) \in Seq(EntryType) /\ Len(StripOrphans(h)) = Len(h)
    BY <1>1, <2>1, <2>2
  <2> QED BY <1>1, <2>1, <2>2, <2>3
<1> QED BY <1>2, <1>3

\* With nothing pending, the pairing leaves a history every provider accepts.
Lawfully(h) ==
  \A i \in DOMAIN h :
    /\ h[i].calls # {} => i < Len(h) /\ h[i].calls = h[i + 1].results
    /\ h[i].results # {} => i > 1 /\ h[i].results = h[i - 1].calls

\* The pairing keeps what is right and makes what is not pending legal.
LEMMA SoundStrip ==
  ASSUME NEW log, NEW n, NEW h, Sound(h, log, n)
  PROVE  LET g == StripOrphans(h)
         IN /\ Sound(g, log, n) /\ (Pending(g) <=> Pending(h))
            /\ ~Pending(h) => Lawfully(g)
<1> DEFINE g == StripOrphans(h)
<1>1. /\ h \in Seq(EntryType) /\ Len(h) \in Nat /\ DOMAIN h = 1..Len(h)
      /\ \A i \in DOMAIN h : EntryOK(h[i], log, n)
  BY DEF Sound
<1>2. /\ g \in Seq(EntryType) /\ Len(g) = Len(h) /\ DOMAIN g = 1..Len(h)
      /\ \A i \in 1..Len(h) :
           /\ g[i] \in EntryType /\ g[i].role = h[i].role /\ g[i].calls = h[i].calls
           /\ g[i].results = h[i].results \cap Calls(h)
           /\ g[i].real = h[i].real \cap Calls(h)
  <2>1. \A i \in DOMAIN g : g[i] \in EntryType
    BY Stripped
  <2> QED BY <1>1, <2>1, Stripped
<1> HIDE DEF g
<1>3. \A i \in DOMAIN g : EntryOK(g[i], log, n)
  <2> SUFFICES ASSUME NEW i \in 1..Len(h) PROVE EntryOK(g[i], log, n)
    BY <1>2
  <2>1. EntryOK(h[i], log, n)
    BY <1>1
  <2> QED BY <1>2, <2>1 DEF EntryOK
<1>4. AskedOnce(g)
  BY <1>1, <1>2 DEF Sound, AskedOnce
<1>5. \A i \in 1..Len(h) : h[i].calls \subseteq Calls(h)
  BY <1>1 DEF Calls
<1>6. Follows(g)
  <2> SUFFICES ASSUME NEW i \in 1..Len(h), NEW j \in 1..Len(h)
               PROVE  /\ g[i].calls \cap g[j].results # {} => j = i + 1
                      /\ j = i + 1 => g[i].calls \subseteq g[j].results
    BY <1>2 DEF Follows
  <2>1. /\ h[i].calls \cap h[j].results # {} => j = i + 1
        /\ j = i + 1 => h[i].calls \subseteq h[j].results
    BY <1>1 DEF Sound, Follows
  <2> QED BY <1>2, <1>5, <2>1
<1>7. Pending(g) <=> Pending(h)
  <2>1. g # <<>> <=> h # <<>>
    BY <1>1, <1>2
  <2>2. h # <<>> => Len(h) \in 1..Len(h)
    BY <1>1
  <2> QED BY <1>2, <2>1, <2>2 DEF Pending
<1>8. ASSUME ~Pending(h) PROVE Lawfully(g)
  <2> SUFFICES ASSUME NEW i \in 1..Len(h)
               PROVE  /\ g[i].calls # {} => i < Len(g) /\ g[i].calls = g[i + 1].results
                      /\ g[i].results # {} => i > 1 /\ g[i].results = g[i - 1].calls
    BY <1>2 DEF Lawfully
  \* What the results of an entry answer is called by the entry before it.
  <2>1. ASSUME NEW k \in 1..Len(h), g[k].results # {}
        PROVE  k > 1 /\ k - 1 \in 1..Len(h) /\ g[k].results = g[k - 1].calls
    <3>1. PICK id \in h[k].results : id \in Calls(h)
      BY <1>2, <2>1
    <3>2. PICK j \in 1..Len(h) : id \in h[j].calls
      BY <1>1, <3>1 DEF Calls
    <3>3. k = j + 1
      BY <1>1, <3>1, <3>2 DEF Sound, Follows
    <3>4. k > 1 /\ k - 1 \in 1..Len(h)
      BY <1>1, <3>3
    <3>5. h[k - 1].calls \subseteq h[k].results
      BY <1>1, <3>4, SMTT(30), ZenonT(30) DEF Sound, Follows
    <3>6. ASSUME NEW x \in h[k].results, x \in Calls(h) PROVE x \in h[k - 1].calls
      <4>1. PICK l \in 1..Len(h) : x \in h[l].calls
        BY <1>1, <3>6 DEF Calls
      <4>2. k = l + 1
        BY <1>1, <3>6, <4>1 DEF Sound, Follows
      <4>3. l = k - 1
        BY <3>3, <4>2
      <4> QED BY <4>1, <4>3
    <3> QED BY <1>2, <1>5, <3>4, <3>5, <3>6
  <2>2. ASSUME g[i].calls # {} PROVE i < Len(g) /\ g[i].calls = g[i + 1].results
    <3>0. Len(h) \in Nat /\ h # <<>>
      BY <1>1
    <3>1. i # Len(h)
      BY <1>2, <1>8, <2>2, <3>0 DEF Pending
    <3>2. i + 1 \in 1..Len(h) /\ i < Len(h)
      BY <3>0, <3>1
    <3>3. g[i].calls \subseteq g[i + 1].results
      BY <1>2, <1>6, <3>2 DEF Follows
    <3>4. g[i + 1].results = g[i + 1 - 1].calls /\ i + 1 - 1 = i
      BY <2>1, <2>2, <3>2, <3>3
    <3> QED BY <1>2, <3>2, <3>4
  <2> QED BY <2>1, <2>2
<1> QED BY <1>2, <1>3, <1>4, <1>6, <1>7, <1>8 DEF Sound, g

-----------------------------------------------------------------------------
(* Cutting a history                                                       *)

\* A bounded set of numbers has a greatest.
LEMMA Highest ==
  ASSUME NEW L \in Nat, NEW T \in SUBSET (1..L), T # {}
  PROVE  \E x \in T : \A y \in T : y <= x
<1> DEFINE U == {u \in Nat : \A y \in T : y <= u}
<1>1. L \in U
  OBVIOUS
<1>2. PICK x \in U : \A u \in U : x <= u
  <2>1. U \in SUBSET Nat /\ U # {}
    BY <1>1
  <2> QED BY <2>1, Least
<1>3. x \in T
  <2> SUFFICES ASSUME x \notin T PROVE FALSE
    OBVIOUS
  <2>1. \A y \in T : y \in Nat /\ y <= x /\ y # x /\ y > 0
    BY <1>2
  <2>2. x \in Nat /\ x # 0
    <3>1. PICK y \in T : TRUE
      OBVIOUS
    <3>2. y \in Nat /\ y <= x /\ y > 0 /\ x \in Nat
      BY <2>1
    <3> QED BY <3>2
  <2>3. \A y \in T : y <= x - 1
    <3>1. ASSUME NEW y \in T PROVE y <= x - 1
      <4>1. y \in Nat /\ y <= x /\ y # x
        BY <2>1
      <4> QED BY <2>2, <4>1
    <3> QED BY <3>1
  <2>4. x - 1 \in U
    BY <2>2, <2>3
  <2> QED BY <1>2, <2>2, <2>4
<1> QED BY <1>2, <1>3

\* What drop_trailing leaves ends with an entry of another role.
LEMMA Dropped ==
  ASSUME NEW h \in Seq(EntryType)
  PROVE  \E k \in 0..Len(h) : /\ DropUsers(h) = SubSeq(h, 1, k)
                              /\ k > 0 => h[k].role # "user"
                              /\ \A j \in k + 1..Len(h) : h[j].role = "user"
<1> DEFINE L == Len(h)
           N == {i \in 1..L : h[i].role # "user"}
           kept == {i \in DOMAIN h : \E j \in i..Len(h) : h[j].role # "user"}
<1>1. L \in Nat /\ DOMAIN h = 1..L
  OBVIOUS
<1>2. CASE N = {}
  <2>1. kept = {}
    BY <1>1, <1>2
  <2>2. DropUsers(h) = SubSeq(h, 1, 0)
    BY <2>1, FS_EmptySet DEF DropUsers
  <2> QED BY <1>1, <1>2, <2>2
<1>3. CASE N # {}
  <2>1. PICK k \in N : \A y \in N : y <= k
    BY <1>1, <1>3, Highest
  <2>2. kept = 1..k
    <3>1. ASSUME NEW i \in 1..k PROVE i \in kept
      BY <1>1, <2>1, <3>1
    <3>2. ASSUME NEW i \in kept PROVE i \in 1..k
      <4>1. PICK j \in i..L : h[j].role # "user"
        OBVIOUS
      <4>2. j \in N /\ i \in 1..L
        BY <1>1, <4>1
      <4> QED BY <1>1, <2>1, <4>2
    <3> QED BY <3>1, <3>2
  <2>3. Cardinality(kept) = k
    <3>1. k \in Nat /\ k >= 1
      BY <1>1
    <3>2. Cardinality(1..k) = k
      BY <3>1, FS_Interval
    <3> QED BY <2>2, <3>2
  <2>4. DropUsers(h) = SubSeq(h, 1, k)
    BY <2>3 DEF DropUsers
  <2>5. \A j \in k + 1..L : h[j].role = "user"
    BY <1>1, <2>1
  <2> QED BY <1>1, <2>1, <2>4, <2>5
<1> QED BY <1>2, <1>3

\* The place of a member of a finite set of numbers in their order.
Upto(S, i) == {j \in S : j <= i}

\* The ranks of the members of a finite set of places run from 1 to their number.
LEMMA Ranks ==
  ASSUME NEW L \in Nat, NEW S \in SUBSET (1..L)
  PROVE  /\ IsFiniteSet(S) /\ Cardinality(S) \in Nat
         /\ \A i \in Nat : IsFiniteSet(Upto(S, i)) /\ Cardinality(Upto(S, i)) \in Nat
         /\ \A i, j \in S : i < j => Cardinality(Upto(S, i)) < Cardinality(Upto(S, j))
         /\ \A i \in S : Cardinality(Upto(S, i)) \in 1..Cardinality(S)
<1>0. \A i \in S : i \in Nat /\ i >= 1
  OBVIOUS
<1>1. IsFiniteSet(S) /\ Cardinality(S) \in Nat
  <2>1. IsFiniteSet(1..L)
    BY FS_Interval
  <2> QED BY <2>1, FS_Subset, FS_CardinalityType
<1>2. ASSUME NEW i \in Nat
      PROVE  /\ IsFiniteSet(Upto(S, i)) /\ Cardinality(Upto(S, i)) \in Nat
             /\ Cardinality(Upto(S, i)) <= Cardinality(S)
  <2>1. Upto(S, i) \in SUBSET S
    BY DEF Upto
  <2> QED BY <1>1, <2>1, FS_Subset, FS_CardinalityType
<1>3. ASSUME NEW i \in S, NEW j \in S, i < j
      PROVE  Cardinality(Upto(S, i)) < Cardinality(Upto(S, j))
  <2>1. i \in Nat /\ j \in Nat
    OBVIOUS
  <2>2. Upto(S, i) \in SUBSET (Upto(S, j) \ {j}) /\ j \in Upto(S, j)
    <3>1. \A x \in Nat : x <= i => x <= j /\ x # j
      BY <1>3, <2>1
    <3>2. ASSUME NEW x \in Upto(S, i) PROVE x \in Upto(S, j) /\ x # j
      <4>1. x \in S /\ x <= i
        BY DEF Upto
      <4> QED BY <1>0, <3>1, <4>1 DEF Upto
    <3>3. j \in Upto(S, j)
      BY <2>1 DEF Upto
    <3> QED BY <3>2, <3>3
  <2>3. /\ IsFiniteSet(Upto(S, j) \ {j})
        /\ Cardinality(Upto(S, j) \ {j}) = Cardinality(Upto(S, j)) - 1
    BY <1>2, <2>1, <2>2, FS_RemoveElement
  <2>4. Cardinality(Upto(S, i)) <= Cardinality(Upto(S, j) \ {j})
    BY <2>2, <2>3, FS_Subset
  <2> QED BY <1>2, <2>1, <2>3, <2>4
<1>4. ASSUME NEW i \in S PROVE Cardinality(Upto(S, i)) \in 1..Cardinality(S)
  <2>1. i \in Nat /\ i \in Upto(S, i)
    BY DEF Upto
  <2>2. Cardinality(Upto(S, i)) # 0
    BY <1>2, <2>1, FS_EmptySet
  <2> QED BY <1>1, <1>2, <2>1, <2>2
<1> QED BY <1>1, <1>2, <1>3, <1>4

\* Choosing by rank goes through the set in order and leaves nothing out.
LEMMA Nth ==
  ASSUME NEW L \in Nat, NEW S \in SUBSET (1..L), NEW k \in 1..Cardinality(S)
  PROVE  \E i \in S : Cardinality(Upto(S, i)) = k
<1> DEFINE T == {x \in Nat : Cardinality(Upto(S, x)) >= k}
<1>0. \A i \in S : i \in Nat /\ i >= 1 /\ i <= L
  OBVIOUS
<1>1. IsFiniteSet(S) /\ Cardinality(S) \in Nat /\ k \in Nat /\ k > 0 /\ k <= Cardinality(S)
  <2>1. IsFiniteSet(S) /\ Cardinality(S) \in Nat
    BY Ranks
  <2> QED BY <2>1
<1>2. \A x \in Nat : IsFiniteSet(Upto(S, x)) /\ Cardinality(Upto(S, x)) \in Nat
  BY Ranks
<1>3. L \in T
  <2>1. Upto(S, L) = S
    BY <1>0 DEF Upto
  <2> QED BY <1>1, <2>1
<1>4. PICK x \in T : \A y \in T : x <= y
  <2>1. T \in SUBSET Nat /\ T # {}
    BY <1>3
  <2> QED BY <2>1, Least
<1>5. x # 0
  <2>1. Upto(S, 0) = {}
    <3>1. \A i \in S : ~(i <= 0)
      BY <1>0
    <3> QED BY <3>1 DEF Upto
  <2>2. Cardinality(Upto(S, 0)) = 0
    BY <2>1, FS_EmptySet
  <2> QED BY <1>1, <1>4, <2>2
<1>6. x - 1 \in Nat /\ Cardinality(Upto(S, x - 1)) < k
  <2>1. x - 1 \in Nat /\ x - 1 \notin T
    BY <1>4, <1>5
  <2> QED BY <1>1, <1>2, <2>1
<1>7. x \in S
  <2> SUFFICES ASSUME x \notin S PROVE FALSE
    OBVIOUS
  <2>1. \A i \in S : i <= x <=> i <= x - 1
    <3>1. \A i \in Nat : i # x => (i <= x <=> i <= x - 1)
      BY <1>4
    <3> QED BY <1>0, <3>1
  <2>2. Upto(S, x) = Upto(S, x - 1)
    BY <2>1 DEF Upto
  <2> QED BY <1>1, <1>2, <1>4, <1>6, <2>2
<1>8. Cardinality(Upto(S, x)) = Cardinality(Upto(S, x - 1)) + 1
  <2>0. /\ \A i \in S : i <= x <=> i <= x - 1 \/ i = x
        /\ ~(x <= x - 1)
    <3>1. \A i \in Nat : i <= x <=> i <= x - 1 \/ i = x
      BY <1>4
    <3> QED BY <1>0, <1>4, <3>1
  <2>1. Upto(S, x) = Upto(S, x - 1) \cup {x} /\ x \notin Upto(S, x - 1)
    BY <1>7, <2>0 DEF Upto
  <2> QED BY <1>2, <1>6, <2>1, FS_AddElement
<1> QED BY <1>1, <1>2, <1>4, <1>6, <1>7, <1>8

\* A molt keeps some of the entries in their order, and with an entry all that
\* could be kept and came later.
Keepable(h, id) ==
  DOMAIN h \ {i \in DOMAIN h : h[i].role = "system" \/ id \in h[i].calls \cup h[i].results}
Order(f, S, m) ==
  /\ f \in [1..m -> S]
  /\ \A i, j \in 1..m : i < j => f[i] < f[j]
  /\ \A s \in S : \E k \in 1..m : f[k] = s
KeptOf(g, h, id, S, f) ==
  /\ Order(f, S, Len(g))
  /\ \A i \in S, j \in Keepable(h, id) : i < j => j \in S
  /\ \A k \in 1..Len(g) : g[k] = h[f[k]]

\* The selection of a molt is such a choice.
LEMMA SelectionIs ==
  ASSUME NEW h \in Seq(EntryType), NEW id, NEW n \in Nat
  PROVE  /\ KeepLast(h, id, n) \in Seq(EntryType)
         /\ \E S \in SUBSET Keepable(h, id) : \E f : KeptOf(KeepLast(h, id, n), h, id, S, f)
<1> DEFINE L == Len(h)
           rest == Keepable(h, id)
           S == {i \in rest : Cardinality({j \in rest : j > i}) < n}
           m == Cardinality(S)
           f == [k \in 1..m |-> CHOOSE i \in S : Cardinality(Upto(S, i)) = k]
<1>1. L \in Nat /\ DOMAIN h = 1..L /\ rest \in SUBSET (1..L) /\ S \in SUBSET rest
  BY DEF Keepable
<1>2. KeepLast(h, id, n) = [k \in 1..m |-> h[f[k]]]
  <2>2. KeepLast(h, id, n) =
          [k \in 1..m |-> h[CHOOSE i \in S : Cardinality({j \in S : j <= i}) = k]]
    BY DEF KeepLast, Keepable
  <2> HIDE DEF S, m
  <2>3. ASSUME NEW k \in 1..m
        PROVE  f[k] = CHOOSE i \in S : Cardinality({j \in S : j <= i}) = k
    BY DEF Upto
  <2> HIDE DEF f
  <2> QED BY <2>2, <2>3
<1> HIDE DEF rest
<1>3. /\ m \in Nat
      /\ \A i, j \in S : i < j => Cardinality(Upto(S, i)) < Cardinality(Upto(S, j))
      /\ \A i \in S : Cardinality(Upto(S, i)) \in 1..m
  <2>1. S \in SUBSET (1..L)
    BY <1>1
  <2> HIDE DEF S
  <2> QED BY <1>1, <2>1, Ranks
<1>4. \A i \in S, j \in rest : i < j => j \in S
  <2> SUFFICES ASSUME NEW i \in S, NEW j \in rest, i < j PROVE j \in S
    OBVIOUS
  <2>0. i \in Nat /\ j \in Nat /\ \A x \in rest : x \in Nat
    BY <1>1
  <2>1. IsFiniteSet(rest)
    <3>1. IsFiniteSet(1..L)
      BY <1>1, FS_Interval
    <3> QED BY <1>1, <3>1, FS_Subset
  <2>2. {x \in rest : x > j} \in SUBSET {x \in rest : x > i}
    <3>1. \A x \in Nat : x > j => x > i
      BY <2>0
    <3> QED BY <2>0, <3>1
  <2>3. IsFiniteSet({x \in rest : x > i}) /\ IsFiniteSet({x \in rest : x > j})
    BY <2>1, FS_Subset
  <2>4. /\ Cardinality({x \in rest : x > j}) <= Cardinality({x \in rest : x > i})
        /\ Cardinality({x \in rest : x > i}) \in Nat
        /\ Cardinality({x \in rest : x > j}) \in Nat
    BY <2>2, <2>3, FS_Subset, FS_CardinalityType
  <2>5. Cardinality({x \in rest : x > i}) < n
    OBVIOUS
  <2> QED BY <2>4, <2>5
<1>0. \A s \in S : s \in 1..L /\ s \in Int
  <2>1. S \in SUBSET (1..L)
    BY <1>1
  <2> HIDE DEF S
  <2> QED BY <1>1, <2>1
<1> HIDE DEF S, m
<1>5. \A k \in 1..m : f[k] \in S /\ Cardinality(Upto(S, f[k])) = k
  <2> SUFFICES ASSUME NEW k \in 1..m PROVE f[k] \in S /\ Cardinality(Upto(S, f[k])) = k
    OBVIOUS
  <2>1. \E i \in S : Cardinality(Upto(S, i)) = k
    <3>1. S \in SUBSET (1..L)
      BY <1>1
    <3> QED BY <1>1, <3>1, Nth DEF m
  <2> QED BY <2>1
<1>6. f \in [1..m -> S]
  BY <1>5
<1> HIDE DEF f
<1>7. Order(f, S, m)
  <2>1. ASSUME NEW i \in 1..m, NEW j \in 1..m, i < j PROVE f[i] < f[j]
    <3>1. /\ f[i] \in S /\ f[j] \in S /\ f[i] \in Int /\ f[j] \in Int
          /\ Cardinality(Upto(S, f[i])) = i /\ Cardinality(Upto(S, f[j])) = j
          /\ i \in Int /\ j \in Int
      BY <1>0, <1>5
    <3>2. ~(f[j] < f[i])
      BY <1>3, <2>1, <3>1
    <3>3. f[i] # f[j]
      BY <2>1, <3>1
    <3> QED BY <3>1, <3>2, <3>3
  <2>2. ASSUME NEW s \in S PROVE \E k \in 1..m : f[k] = s
    <3> DEFINE k == Cardinality(Upto(S, s))
    <3>1. k \in 1..m
      BY <1>3
    <3>2. f[k] \in S /\ Cardinality(Upto(S, f[k])) = k
      BY <1>5, <3>1
    <3>3. s \in Int /\ f[k] \in Int
      BY <1>0, <3>2
    <3>4. ~(s < f[k]) /\ ~(f[k] < s)
      BY <1>3, <3>1, <3>2
    <3>5. f[k] = s
      BY <3>3, <3>4
    <3> QED BY <3>1, <3>5
  <2> QED BY <1>6, <2>1, <2>2 DEF Order
<1>8. KeepLast(h, id, n) \in Seq(EntryType) /\ Len(KeepLast(h, id, n)) = m
  <2>1. \A k \in 1..m : h[f[k]] \in EntryType
    <3>1. \A k \in 1..m : f[k] \in DOMAIN h
      BY <1>0, <1>1, <1>5
    <3> QED BY <3>1
  <2> QED BY <1>2, <1>3, <2>1
<1>9. \A k \in 1..m : KeepLast(h, id, n)[k] = h[f[k]]
  BY <1>2
<1>10. KeptOf(KeepLast(h, id, n), h, id, S, f)
  BY <1>4, <1>7, <1>8, <1>9 DEF KeptOf, rest
<1> QED BY <1>1, <1>8, <1>10 DEF rest

\* What is kept when the call of the molt is at the end, and so in no result.
LEMMA SoundKeep ==
  ASSUME NEW log, NEW n, NEW h, Sound(h, log, n), Pending(h),
         NEW id \in h[Len(h)].calls, NEW keep \in Nat
  PROVE  LET g == KeepLast(h, id, keep)
         IN /\ Sound(g, log, n) /\ ~Pending(g)
            /\ \A k \in DOMAIN g : \E i \in DOMAIN h : i < Len(h) /\ g[k] = h[i]
<1> DEFINE g == KeepLast(h, id, keep)
           L == Len(h)
<1>1. /\ h \in Seq(EntryType) /\ L \in Nat /\ DOMAIN h = 1..L /\ L \in 1..L
      /\ \A i \in 1..L : EntryOK(h[i], log, n)
  <2>1. h \in Seq(EntryType) /\ \A i \in DOMAIN h : EntryOK(h[i], log, n)
    BY DEF Sound
  <2> QED BY <2>1, Dangling
<1>2. PICK S \in SUBSET Keepable(h, id) : \E f : KeptOf(g, h, id, S, f)
  <2>1. h \in Seq(EntryType)
    BY <1>1
  <2> QED BY <2>1, SelectionIs
<1>3. PICK f : KeptOf(g, h, id, S, f)
  BY <1>2
<1>4. g \in Seq(EntryType) /\ Len(g) \in Nat /\ DOMAIN g = 1..Len(g)
  <2>1. g \in Seq(EntryType)
    BY <1>1, SelectionIs
  <2> HIDE DEF g
  <2> QED BY <2>1
<1> HIDE DEF g
\* Only system entries and the last one are left out.
<1>5. \A i \in 1..L : i \in Keepable(h, id) <=> (h[i].role # "system" /\ i < L)
  <2> SUFFICES ASSUME NEW i \in 1..L
               PROVE  i \in Keepable(h, id) <=> (h[i].role # "system" /\ i < L)
    OBVIOUS
  <2>1. id \notin h[i].results
    BY <1>1, Dangling
  <2>2. i < L => id \notin h[i].calls
    BY <1>1, Dangling
  <2>3. i = L => id \in h[i].calls
    BY <1>1
  <2>4. i < L \/ i = L
    <3>1. L \in Nat
      BY <1>1
    <3> QED BY <3>1
  <2> QED BY <1>1, <2>1, <2>2, <2>3, <2>4 DEF Keepable
<1>6. /\ \A k \in 1..Len(g) : f[k] \in S /\ f[k] \in 1..L /\ f[k] < L /\ g[k] = h[f[k]]
      /\ \A i, j \in 1..Len(g) : i < j => f[i] < f[j]
      /\ \A s \in S : \E k \in 1..Len(g) : f[k] = s
  <2>1. S \in SUBSET (1..L)
    BY <1>1 DEF Keepable
  <2> QED BY <1>3, <1>5, <2>1 DEF Order, KeptOf
\* The answer of a kept call is kept next to it.
<1>7. ASSUME NEW i \in 1..Len(g), g[i].calls # {}
      PROVE  /\ i + 1 \in 1..Len(g) /\ f[i + 1] = f[i] + 1
             /\ g[i].calls \subseteq g[i + 1].results
  <2> DEFINE a == f[i]
  <2>1. a \in 1..L /\ a < L /\ a + 1 \in 1..L /\ g[i] = h[a] /\ a \in S
    BY <1>1, <1>6
  <2>2. h[a].calls \subseteq h[a + 1].results
    BY <1>1, <2>1 DEF Sound, Follows
  <2>3. h[a + 1].results # {} /\ h[a + 1].role = "user"
    BY <1>1, <1>7, <2>1, <2>2 DEF EntryOK
  <2>4. a + 1 # L
    <3>1. h[L].role = "assistant"
      BY <1>1, Dangling DEF EntryOK
    <3> QED BY <2>3, <3>1
  <2>5. a + 1 \in Keepable(h, id)
    BY <1>1, <1>5, <2>1, <2>3, <2>4
  <2>6. a + 1 \in S
    BY <1>1, <1>3, <2>1, <2>5 DEF KeptOf
  <2>7. PICK k \in 1..Len(g) : f[k] = a + 1
    BY <1>6, <2>6
  <2> HIDE DEF a
  <2>8. k > i
    BY <1>4, <1>6, <2>1, <2>7 DEF a
  <2>9. i + 1 \in 1..Len(g) /\ i < i + 1 /\ (i + 1 < k \/ i + 1 = k)
    BY <1>4, <2>8
  <2>10. f[i + 1] \in Int /\ a < f[i + 1] /\ f[i + 1] <= a + 1
    BY <1>6, <2>1, <2>7, <2>9 DEF a
  <2>11. f[i + 1] = a + 1
    BY <2>1, <2>10
  <2> QED BY <1>6, <2>1, <2>2, <2>9, <2>11 DEF a
<1>8. ~Pending(g)
  <2> SUFFICES ASSUME g # <<>>, g[Len(g)].calls # {} PROVE FALSE
    BY DEF Pending
  <2>1. Len(g) \in 1..Len(g)
    BY <1>4
  <2> QED BY <1>4, <1>7, <2>1
<1>9. AskedOnce(g)
  <2> SUFFICES ASSUME NEW i \in 1..Len(g), NEW j \in 1..Len(g), i # j
               PROVE  /\ g[i].calls \cap g[j].calls = {}
                      /\ g[i].results \cap g[j].results = {}
    BY <1>4 DEF AskedOnce
  <2>1. f[i] \in 1..L /\ f[j] \in 1..L /\ f[i] # f[j]
    BY <1>4, <1>6
  <2> QED BY <1>1, <1>6, <2>1 DEF Sound, AskedOnce
<1>10. Follows(g)
  <2> SUFFICES ASSUME NEW i \in 1..Len(g), NEW j \in 1..Len(g)
               PROVE  /\ g[i].calls \cap g[j].results # {} => j = i + 1
                      /\ j = i + 1 => g[i].calls \subseteq g[j].results
    BY <1>4 DEF Follows
  <2>1. CASE g[i].calls = {}
    BY <2>1
  <2>2. CASE g[i].calls # {}
    <3>1. i + 1 \in 1..Len(g) /\ f[i + 1] = f[i] + 1 /\ g[i].calls \subseteq g[i + 1].results
      BY <1>7, <2>2
    <3>2. ASSUME g[i].calls \cap g[j].results # {} PROVE j = i + 1
      <4>1. f[j] = f[i] + 1
        BY <1>1, <1>6, <3>2 DEF Sound, Follows
      <4>2. ~(j < i + 1) /\ ~(i + 1 < j)
        BY <1>6, <3>1, <4>1
      <4> QED BY <1>4, <3>1, <4>2
    <3> QED BY <3>1, <3>2
  <2> QED BY <2>1, <2>2
<1>11. \A k \in DOMAIN g : EntryOK(g[k], log, n)
  BY <1>1, <1>4, <1>6
<1> QED BY <1>1, <1>4, <1>6, <1>8, <1>9, <1>10, <1>11 DEF Sound, g

\* A trim leaves the first system entry and what follows a cut.
LEMMA Trimmed ==
  ASSUME NEW h \in Seq(EntryType), CanTrim(h)
  PROVE  \E H \in {0, 1}, c \in 1..Len(h) - 1 :
           /\ HeadLen(h) = H /\ H < c
           /\ Trim(h) = SubSeq(h, 1, H) \o SubSeq(h, c + 1, Len(h))
<1> DEFINE L == Len(h)
           H == HeadLen(h)
           from == H + Tenth(L - H)
<1>1. L \in Nat /\ H \in {0, 1} /\ L - H > 1 /\ L - H \in Nat
  BY DEF HeadLen, CanTrim
<1> HIDE DEF L, H
<1>2. \A x \in Nat : Tenth(x) \in Nat /\ Tenth(x) >= 1
  BY DEF Tenth
<1>3. Tenth(L - H) \in Nat /\ Tenth(L - H) >= 1
  BY <1>1, <1>2
<1>4. from \in Nat /\ H < from /\ from >= 1
  BY <1>1, <1>3
<1> HIDE DEF from
<1>5. Cuts(h) = {c \in from..(L - 1) : h[c].calls = {} /\ h[c + 1].results = {}}
  BY DEF Cuts, from, L, H
<1>6. Cuts(h) # {} /\ \A c \in Cuts(h) : c \in Nat /\ c \in 1..L - 1 /\ H < c
  <2>1. Cuts(h) # {}
    BY DEF CanTrim
  <2>2. \A c \in from..(L - 1) : c \in Nat /\ c \in 1..L - 1 /\ H < c
    BY <1>1, <1>4
  <2> QED BY <1>5, <2>1, <2>2
<1>7. \E c \in Cuts(h) : \A d \in Cuts(h) : c <= d
  <2>1. Cuts(h) \in SUBSET Nat
    BY <1>6
  <2> QED BY <1>6, <2>1, Least
<1> DEFINE cut == CHOOSE c \in Cuts(h) : \A d \in Cuts(h) : c <= d
<1>8. cut \in Cuts(h)
  BY <1>7
<1>9. Trim(h) = SubSeq(h, 1, H) \o SubSeq(h, cut + 1, L)
  BY DEF Trim, L, H
<1> HIDE DEF cut
<1> QED BY <1>1, <1>6, <1>8, <1>9 DEF L, H

\* Entry by entry: a system entry that stays at the head, or a place further on.
LEMMA TrimmedAt ==
  ASSUME NEW h \in Seq(EntryType), CanTrim(h)
  PROVE  \E H \in {0, 1}, d \in Nat :
           /\ Trim(h) \in Seq(EntryType) /\ Len(Trim(h)) + d = Len(h)
           /\ H < Len(Trim(h))
           /\ H = 1 => Trim(h)[1] = h[1] /\ h[1].role = "system"
           /\ \A i \in H + 1..Len(Trim(h)) : i + d \in 1..Len(h) /\ Trim(h)[i] = h[i + d]
<1>1. PICK H \in {0, 1}, c \in 1..Len(h) - 1 :
        /\ HeadLen(h) = H /\ H < c
        /\ Trim(h) = SubSeq(h, 1, H) \o SubSeq(h, c + 1, Len(h))
  BY Trimmed
<1> DEFINE L == Len(h)
           a == SubSeq(h, 1, H)
           b == SubSeq(h, c + 1, L)
           d == c - H
<1>2. L \in Nat /\ c \in Nat /\ H \in Nat /\ c < L /\ d \in Nat /\ H <= L
  BY <1>1
<1>3. a \in Seq(EntryType) /\ Len(a) = H /\ \A i \in 1..H : a[i] = h[i]
  BY <1>2
<1>4. b \in Seq(EntryType) /\ Len(b) = L - c /\ \A i \in 1..L - c : b[i] = h[i + c]
  <2>1. PICK m : m = c + 1
    BY <1>2
  <2>2. m \in 1..(Len(h) + 1) /\ b = SubSeq(h, m, Len(h)) /\ Len(h) + 1 - m = L - c
    BY <1>2, <2>1
  <2>3. \A i \in 1..(L - c) : m + i - 1 = i + c
    BY <1>2, <2>1
  <2>4. b \in Seq(EntryType) /\ Len(b) = L - c /\ \A i \in 1..(Len(h) + 1 - m) : b[i] = h[m + i - 1]
    BY <2>2, EndIs
  <2> HIDE DEF b
  <2> QED BY <2>2, <2>3, <2>4
<1> HIDE DEF a, b
<1>5. /\ a \o b \in Seq(EntryType) /\ Len(a \o b) = H + (L - c)
      /\ \A i \in 1..H : (a \o b)[i] = a[i]
      /\ \A i \in H + 1..H + (L - c) : (a \o b)[i] = b[i - H]
  <2>0. a \in Seq(EntryType) /\ b \in Seq(EntryType)
    BY <1>3, <1>4
  <2>1. a \o b \in Seq(EntryType) /\ Len(a \o b) = Len(a) + Len(b)
    BY <2>0
  <2>2. \A i \in 1..Len(a) + Len(b) :
          (a \o b)[i] = IF i <= Len(a) THEN a[i] ELSE b[i - Len(a)]
    BY <2>0
  <2>3. \A i \in 1..H : i \in 1..Len(a) + Len(b) /\ i <= Len(a)
    BY <1>2, <1>3, <1>4
  <2>4. \A i \in H + 1..H + (L - c) : i \in 1..Len(a) + Len(b) /\ ~(i <= Len(a))
    BY <1>2, <1>3, <1>4
  <2> QED BY <1>3, <1>4, <2>1, <2>2, <2>3, <2>4
<1>6. Trim(h) = a \o b
  BY <1>1 DEF a, b
<1>7. H = 1 => h[1].role = "system"
  BY <1>1 DEF HeadLen
<1>8. ASSUME NEW i \in H + 1..H + (L - c)
      PROVE  i + d \in 1..L /\ (a \o b)[i] = h[i + d]
  <2>1. i - H \in 1..L - c /\ i - H + c = i + d /\ i + d \in 1..L
    BY <1>2
  <2> QED BY <1>4, <1>5, <2>1
<1>9. H + (L - c) + d = L /\ H < H + (L - c)
  BY <1>2
<1>10. H = 1 => (a \o b)[1] = h[1]
  BY <1>2, <1>3, <1>5
<1> DEFINE t == Trim(h)
<1>11. /\ t \in Seq(EntryType) /\ Len(t) + d = L /\ H < Len(t)
       /\ H = 1 => t[1] = h[1] /\ h[1].role = "system"
       /\ \A i \in H + 1..Len(t) : i + d \in 1..L /\ t[i] = h[i + d]
  BY <1>5, <1>6, <1>7, <1>8, <1>9, <1>10
<1> HIDE DEF t, d
<1> QED BY <1>2, <1>11 DEF t

-----------------------------------------------------------------------------
(* The invariant                                                           *)

\* The turn whose results were just sent is the last one that calls, and they
\* are answered nowhere before it.
Sent(h, ids) ==
  LET lastTurn(i) == \A j \in DOMAIN h : j > i => h[j].role # "assistant"
  IN \A i \in DOMAIN h :
       /\ h[i].calls # {} /\ lastTurn(i) => h[i].calls \subseteq ids
       /\ h[i].calls \cap ids # {} => lastTurn(i)
       /\ h[i].results \cap ids # {} => lastTurn(i) /\ h[i].role # "assistant"

\* While tools run their calls are at the end, and nobody has answered them: a
\* tool may end and log its result without the history being behind.
Dangles(h, ids) ==
  /\ Pending(h) /\ h[Len(h)].calls \subseteq ids
  /\ \A i \in DOMAIN h : /\ h[i].results \cap ids = {}
                         /\ i < Len(h) => h[i].calls \cap ids = {}
Unreplied(h, ids) == \A i \in DOMAIN h : h[i].results \cap ids = {}

\* Ids in use were issued; a batch in flight dangles in the chat and in the file is
\* not answered; a request is legal, and one that carries results carries the last
\* turn's.
Issued  == \A id \in batch \cup logged : id < nextId
Running == phase = "exec" => Dangles(chat.entries, batch) /\ Unreplied(disk, batch)
OnWire  ==
  phase = "sending" =>
    /\ ~Pending(chat.entries) /\ Lawfully(chat.entries)
    /\ request = "results" => Sent(chat.entries, batch)

\* The inductive invariant.
ChInv ==
  /\ TypeOK
  /\ Sound(chat.entries, logged, nextId) /\ Sound(disk, logged, nextId)
  /\ Issued /\ Running /\ OnWire

\* A trim parts no pair and leaves the results that were sent last.
LEMMA SoundTrim ==
  ASSUME NEW log, NEW n, NEW h, Sound(h, log, n), CanTrim(h)
  PROVE  /\ Sound(Trim(h), log, n) /\ (Pending(Trim(h)) <=> Pending(h))
         /\ \A ids : Sent(h, ids) => Sent(Trim(h), ids)
<1> DEFINE g == Trim(h)
           L == Len(h)
           M == Len(g)
<1>1. /\ h \in Seq(EntryType) /\ L \in Nat /\ DOMAIN h = 1..L
      /\ \A i \in 1..L : EntryOK(h[i], log, n)
  BY DEF Sound
<1>2. PICK H \in {0, 1}, d \in Nat :
        /\ g \in Seq(EntryType) /\ M + d = L /\ H < M
        /\ H = 1 => g[1] = h[1] /\ h[1].role = "system"
        /\ \A i \in H + 1..M : i + d \in 1..L /\ g[i] = h[i + d]
  BY <1>1, TrimmedAt
<1>3. M \in Nat /\ DOMAIN g = 1..M /\ M \in H + 1..M /\ H \in Nat
  BY <1>2
<1> HIDE DEF g, M
<1>4. ASSUME NEW i \in 1..M
      PROVE  \/ g[i].role = "system" /\ g[i].calls = {} /\ g[i].results = {} /\ i = 1
                /\ EntryOK(g[i], log, n)
             \/ i \in H + 1..M /\ i + d \in 1..L /\ g[i] = h[i + d] /\ EntryOK(g[i], log, n)
  <2>1. CASE i \in H + 1..M
    BY <1>1, <1>2, <2>1
  <2>2. CASE i \notin H + 1..M
    <3>1. i = 1 /\ H = 1 /\ 1 \in 1..L
      BY <1>2, <1>3, <2>2
    <3>2. g[i] = h[1] /\ h[1].role = "system" /\ EntryOK(h[1], log, n)
      BY <1>1, <1>2, <3>1
    <3> QED BY <3>1, <3>2 DEF EntryOK
  <2> QED BY <2>1, <2>2
<1>5. AskedOnce(g)
  <2> SUFFICES ASSUME NEW i \in 1..M, NEW j \in 1..M, i # j
               PROVE  /\ g[i].calls \cap g[j].calls = {}
                      /\ g[i].results \cap g[j].results = {}
    BY <1>3 DEF AskedOnce
  <2>1. i + d # j + d
    BY <1>3
  <2> QED BY <1>1, <1>4, <2>1 DEF Sound, AskedOnce
<1>6. Follows(g)
  <2> SUFFICES ASSUME NEW i \in 1..M, NEW j \in 1..M
               PROVE  /\ g[i].calls \cap g[j].results # {} => j = i + 1
                      /\ j = i + 1 => g[i].calls \subseteq g[j].results
    BY <1>3 DEF Follows
  <2>1. CASE g[i].calls = {}
    BY <2>1
  <2>2. CASE g[i].calls # {}
    <3>1. i \in H + 1..M /\ i + d \in 1..L /\ g[i] = h[i + d]
      BY <1>4, <2>2
    <3>2. CASE j \in H + 1..M
      <4>1. j + d \in 1..L /\ g[j] = h[j + d]
        BY <1>2, <3>2
      <4>2. j + d = (i + d) + 1 <=> j = i + 1
        BY <1>2, <1>3
      <4> QED BY <1>1, <3>1, <4>1, <4>2 DEF Sound, Follows
    <3>3. CASE j \notin H + 1..M
      <4>1. g[j].results = {} /\ j = 1
        BY <1>4, <3>3
      <4>2. j # i + 1
        BY <1>3, <3>1, <4>1
      <4> QED BY <4>1, <4>2
    <3> QED BY <3>2, <3>3
  <2> QED BY <2>1, <2>2
<1>7. Pending(g) <=> Pending(h)
  <2>1. g[M] = h[L] /\ g # <<>> /\ h # <<>>
    BY <1>1, <1>2, <1>3, SMTT(30), ZenonT(30) DEF M
  <2> QED BY <2>1 DEF Pending, M
<1>8. ASSUME NEW ids, Sent(h, ids) PROVE Sent(g, ids)
  <2> DEFINE last(i) == \A j \in 1..M : j > i => g[j].role # "assistant"
             lastWas(i) == \A j \in 1..L : j > i => h[j].role # "assistant"
  <2>1. ASSUME NEW i \in H + 1..M PROVE last(i) <=> lastWas(i + d)
    <3>1. ASSUME last(i), NEW j \in 1..L, j > i + d PROVE h[j].role # "assistant"
      <4>1. j - d \in H + 1..M /\ j - d \in 1..M /\ j - d > i /\ (j - d) + d = j
        BY <1>2, <1>3, <3>1
      <4>2. g[j - d] = h[j]
        BY <1>2, <4>1
      <4> QED BY <3>1, <4>1, <4>2
    <3>2. ASSUME lastWas(i + d), NEW j \in 1..M, j > i PROVE g[j].role # "assistant"
      <4>1. j \in H + 1..M
        BY <1>3, <3>2
      <4>2. j + d \in 1..L /\ j + d > i + d /\ g[j] = h[j + d]
        BY <1>2, <1>3, <3>2, <4>1
      <4> QED BY <3>2, <4>2
    <3> QED BY <3>1, <3>2
  <2>2. \A i \in 1..L :
          /\ h[i].calls # {} /\ lastWas(i) => h[i].calls \subseteq ids
          /\ h[i].calls \cap ids # {} => lastWas(i)
          /\ h[i].results \cap ids # {} => lastWas(i) /\ h[i].role # "assistant"
    BY <1>1, <1>8 DEF Sent
  <2> HIDE DEF last, lastWas
  <2>3. ASSUME NEW i \in 1..M
        PROVE  /\ g[i].calls # {} /\ last(i) => g[i].calls \subseteq ids
               /\ g[i].calls \cap ids # {} => last(i)
               /\ g[i].results \cap ids # {} => last(i) /\ g[i].role # "assistant"
    <3>1. CASE i \in H + 1..M
      <4>1. i + d \in 1..L /\ g[i] = h[i + d]
        BY <1>2, <3>1
      <4> QED BY <2>1, <2>2, <3>1, <4>1
    <3>2. CASE i \notin H + 1..M
      <4>1. g[i].calls = {} /\ g[i].results = {}
        BY <1>4, <3>2
      <4> QED BY <4>1
    <3> QED BY <3>1, <3>2
  <2> QED BY <1>3, <2>3 DEF Sent, last
<1>9. \A i \in DOMAIN g : EntryOK(g[i], log, n)
  BY <1>3, <1>4
<1> QED BY <1>2, <1>5, <1>6, <1>7, <1>8, <1>9 DEF Sound, g

-----------------------------------------------------------------------------
(* The chat: its prompt, told and flushed, and the pairing of a request     *)

\* The current prompt a reload finds is one.
LEMMA LastPromptType ==
  ASSUME NEW h \in Seq(EntryType)
  PROVE  LastPrompt(h) \in Prompts \cup {NoPrompt}
<1>1. CASE SystemAt(h) = {}
  BY <1>1 DEF LastPrompt
<1>2. CASE SystemAt(h) # {}
  <2>1. Len(h) \in Nat /\ SystemAt(h) \in SUBSET (1..Len(h))
    BY DEF SystemAt
  <2>2. \E i \in SystemAt(h) : \A j \in SystemAt(h) : j <= i
    BY <1>2, <2>1, Highest
  <2> DEFINE i == CHOOSE i \in SystemAt(h) : \A j \in SystemAt(h) : j <= i
  <2>3. i \in DOMAIN h
    BY <2>2 DEF SystemAt
  <2>4. LastPrompt(h) = h[i].prompt
    BY <1>2 DEF LastPrompt
  <2> HIDE DEF i
  <2>5. h[i] \in EntryType
    BY <2>3
  <2> QED BY <2>4, <2>5 DEF EntryType
<1> QED BY <1>1, <1>2

\* A system entry was added, where nothing is pending, or nothing was.
Grown(g, h) ==
  \/ g = h
  \/ ~Pending(h) /\ \E p \in Prompts \cup {NoPrompt} : g = Append(h, System(p))

\* Telling the prompt disturbs nothing.
LEMMA SoundGrown ==
  ASSUME NEW log, NEW n, NEW h, NEW g, Sound(h, log, n), Grown(g, h)
  PROVE  /\ Sound(g, log, n) /\ (Pending(g) <=> Pending(h)) /\ (Pending(h) => g = h)
         /\ \A ids : Sent(h, ids) => Sent(g, ids)
<1>1. CASE g = h
  BY <1>1
<1>2. CASE ~Pending(h) /\ \E p \in Prompts \cup {NoPrompt} : g = Append(h, System(p))
  <2>1. PICK p \in Prompts \cup {NoPrompt} : g = Append(h, System(p))
    BY <1>2
  <2> DEFINE e == System(p)
  <2>2. EntryOK(e, log, n) /\ Plain(e) /\ e.role = "system"
    BY EntryIs
  <2> HIDE DEF e
  <2>3. Sound(g, log, n) /\ ~Pending(g)
    BY <1>2, <2>1, <2>2, SoundQuiet DEF e
  <2>4. /\ DOMAIN h = 1..Len(h) /\ DOMAIN g = 1..Len(h) + 1 /\ Len(h) \in Nat
        /\ g[Len(h) + 1] = e /\ \A i \in 1..Len(h) : g[i] = h[i]
    BY <2>1, <2>2 DEF Sound, EntryOK, e
  <2>5. ASSUME NEW ids, Sent(h, ids) PROVE Sent(g, ids)
    <3> DEFINE last(i) == \A j \in DOMAIN g : j > i => g[j].role # "assistant"
               lastWas(i) == \A j \in DOMAIN h : j > i => h[j].role # "assistant"
    <3>1. \A i \in 1..Len(h) + 1 : i \in 1..Len(h) \/ i = Len(h) + 1
      BY <2>4
    <3>2. ASSUME NEW i \in 1..Len(h) PROVE last(i) <=> lastWas(i)
      BY <2>2, <2>4, <3>1
    <3>3. \A i \in 1..Len(h) :
            /\ h[i].calls # {} /\ lastWas(i) => h[i].calls \subseteq ids
            /\ h[i].calls \cap ids # {} => lastWas(i)
            /\ h[i].results \cap ids # {} => lastWas(i) /\ h[i].role # "assistant"
      BY <2>4, <2>5 DEF Sent
    <3>4. ASSUME NEW i \in 1..Len(h) + 1
          PROVE  /\ g[i].calls # {} /\ last(i) => g[i].calls \subseteq ids
                 /\ g[i].calls \cap ids # {} => last(i)
                 /\ g[i].results \cap ids # {} => last(i) /\ g[i].role # "assistant"
      <4> HIDE DEF last, lastWas
      <4>1. CASE i \in 1..Len(h)
        BY <2>4, <3>2, <3>3, <4>1
      <4>2. CASE i = Len(h) + 1
        BY <2>2, <2>4, <4>2 DEF Plain
      <4> QED BY <3>1, <4>1, <4>2
    <3> QED BY <2>4, <3>4 DEF Sent
  <2>6. Pending(g) <=> Pending(h)
    BY <1>2, <2>3
  <2> QED BY <1>2, <2>3, <2>5, <2>6
<1> QED BY <1>1, <1>2 DEF Grown

\* add_system, the two calls of session.send, and _flush_pending_system.
LEMMA ToldIs ==
  ASSUME NEW c \in ChatType, NEW p \in Prompts
  PROVE  LET d == AddSystem(c, p)
         IN d \in ChatType /\ d.current = p /\ Grown(d.entries, c.entries)
<1>0. EntryOK(System(p), {}, 0) /\ System(p) \in EntryType
  BY EntryIs DEF EntryOK
<1>1. CASE p = c.current
  BY <1>1 DEF AddSystem, ChatType, Grown
<1>2. CASE p # c.current /\ Pending(c.entries)
  BY <1>2 DEF AddSystem, ChatType, Grown
<1>3. CASE p # c.current /\ ~Pending(c.entries)
  <2>1. AddSystem(c, p) = [entries |-> Append(c.entries, System(p)), current |-> p,
                           deferred |-> NoPrompt]
    BY <1>3 DEF AddSystem
  <2>2. c.entries \in Seq(EntryType) /\ Append(c.entries, System(p)) \in Seq(EntryType)
    BY <1>0 DEF ChatType
  <2> QED BY <1>3, <2>1, <2>2 DEF ChatType, Grown
<1> QED BY <1>1, <1>2, <1>3

LEMMA Refreshed ==
  ASSUME NEW c \in ChatType, NEW p \in Prompts
  PROVE  Refresh(c, p) \in ChatType /\ Grown(Refresh(c, p).entries, c.entries)
<1> DEFINE d == AddSystem(c, p)
<1>1. d \in ChatType /\ d.current = p /\ Grown(d.entries, c.entries)
  BY ToldIs
<1>2. Refresh(c, p) = AddSystem(d, d.current)
  BY DEF Refresh
<1> HIDE DEF d
<1>3. AddSystem(d, d.current) = [d EXCEPT !.deferred = NoPrompt]
  BY DEF AddSystem
<1>4. AddSystem(d, d.current) \in ChatType /\ AddSystem(d, d.current).entries = d.entries
  BY <1>1, <1>3 DEF ChatType
<1> QED BY <1>1, <1>2, <1>4

LEMMA Flushed ==
  ASSUME NEW c \in ChatType
  PROVE  Flush(c) \in ChatType /\ Grown(Flush(c).entries, c.entries)
<1>1. CASE c.deferred = NoPrompt \/ Pending(c.entries)
  BY <1>1 DEF Flush, Grown
<1>2. CASE ~(c.deferred = NoPrompt \/ Pending(c.entries))
  <2> DEFINE h == c.entries
             e == System(c.deferred)
             g == IF LastPrompt(h) = c.deferred THEN h ELSE Append(h, e)
  <2>1. h \in Seq(EntryType) /\ c.deferred \in Prompts \cup {NoPrompt}
    BY DEF ChatType
  <2>2. e \in EntryType
    BY <2>1, EntryIs DEF EntryOK
  <2>3. g \in Seq(EntryType) /\ Grown(g, h)
    BY <1>2, <2>1, <2>2 DEF Grown
  <2>4. Flush(c) = [c EXCEPT !.deferred = NoPrompt, !.entries = g]
    BY <1>2 DEF Flush
  <2> HIDE DEF g
  <2>5. Flush(c) \in ChatType /\ Flush(c).entries = g
    BY <2>3, <2>4 DEF ChatType
  <2> QED BY <2>3, <2>5
<1> QED BY <1>1, <1>2

LEMMA WithEntries ==
  ASSUME NEW c \in ChatType, NEW h \in Seq(EntryType)
  PROVE  /\ [c EXCEPT !.entries = h] \in ChatType
         /\ [c EXCEPT !.entries = h].entries = h
BY DEF ChatType

\* The pairing of a request.
LEMMA Enforced ==
  ASSUME NEW log, NEW n, NEW c \in ChatType, Sound(c.entries, log, n)
  PROVE  LET d == Enforce(c)
         IN /\ d \in ChatType /\ Sound(d.entries, log, n)
            /\ (Pending(d.entries) <=> Pending(c.entries))
            /\ ~Pending(c.entries) => Lawfully(d.entries)
            /\ \A ids : Sent(c.entries, ids) => Sent(d.entries, ids)
<1> DEFINE f == Flush(c)
           h == f.entries
           g == StripOrphans(h)
<1>1. f \in ChatType /\ Grown(h, c.entries)
  BY Flushed
<1> HIDE DEF f
<1>2. /\ Sound(h, log, n) /\ (Pending(h) <=> Pending(c.entries))
      /\ \A ids : Sent(c.entries, ids) => Sent(h, ids)
  BY <1>1, SoundGrown
<1>3. /\ Sound(g, log, n) /\ (Pending(g) <=> Pending(h)) /\ (~Pending(h) => Lawfully(g))
  BY <1>2, SoundStrip
<1>4. /\ g \in Seq(EntryType) /\ DOMAIN g = DOMAIN h
      /\ \A i \in DOMAIN h : /\ g[i].role = h[i].role /\ g[i].calls = h[i].calls
                             /\ g[i].results \subseteq h[i].results
  BY <1>2, Stripped
<1>5. Enforce(c) \in ChatType /\ Enforce(c).entries = g
  <2>1. Enforce(c) = [f EXCEPT !.entries = g]
    BY DEF Enforce, f
  <2> HIDE DEF g
  <2> QED BY <1>1, <1>4, <2>1, WithEntries
<1> HIDE DEF g, h
<1>6. ASSUME NEW ids, Sent(h, ids) PROVE Sent(g, ids)
  BY <1>4, <1>6 DEF Sent
<1> QED BY <1>2, <1>3, <1>5, <1>6
-----------------------------------------------------------------------------
(* The invariant is kept, action by action                                 *)

\* The types of everything but the histories.
BesidesChat ==
  /\ prompt \in Prompts /\ phase \in {"idle", "sending", "exec"}
  /\ request \in {"text", "results", "none"}
  /\ batch \subseteq Ids /\ logged \subseteq Ids
  /\ nextId \in 1..(MaxCalls + 1) /\ trims \in 0..MaxTrims
  /\ sends \in 0..MaxSends /\ crashes \in 0..MaxCrashes /\ updates \in 0..MaxUpdates

\* The invariant, taken apart and put together.
LEMMA PartsAre ==
  ChInv <=> /\ BesidesChat /\ chat \in ChatType /\ Issued /\ Running /\ OnWire
            /\ Sound(chat.entries, logged, nextId) /\ Sound(disk, logged, nextId)
<1>1. Sound(chat.entries, logged, nextId) =>
        \A i \in DOMAIN chat.entries : chat.entries[i].real \subseteq chat.entries[i].results
  BY DEF Sound, EntryOK
<1>2. Sound(disk, logged, nextId) => disk \in Seq(EntryType)
  BY DEF Sound
<1> QED BY <1>1, <1>2 DEF ChInv, TypeOK, BesidesChat

LEMMA PartsNext ==
  ASSUME BesidesChat', chat' \in ChatType, Issued', Running', OnWire',
         Sound(chat'.entries, logged', nextId'), Sound(disk', logged', nextId')
  PROVE  ChInv'
<1>1. \A i \in DOMAIN chat'.entries : chat'.entries[i].real \subseteq chat'.entries[i].results
  BY DEF Sound, EntryOK
<1>2. disk' \in Seq(EntryType)
  BY DEF Sound
<1>3. TypeOK'
  BY <1>1, <1>2 DEF TypeOK, BesidesChat
<1> QED BY <1>3 DEF ChInv

\* The results of a batch whose calls are at the end.
LEMMA Committed ==
  ASSUME NEW log, NEW n, NEW h, Sound(h, log, n),
         NEW ids \in SUBSET Ids, \A id \in ids : id < n, Dangles(h, ids)
  PROVE  LET g == AddResults(h, ids)
         IN Sound(g, log, n) /\ ~Pending(g) /\ Sent(g, ids)
<1> DEFINE L == Len(h)
           e == Results(ids, ids)
           g == Append(h, e)
<1>1. /\ h \in Seq(EntryType) /\ L \in Nat /\ DOMAIN h = 1..L /\ L \in 1..L
      /\ h[L].calls # {} /\ h[L].calls \subseteq ids
      /\ \A i \in 1..L : EntryOK(h[i], log, n)
      /\ \A i \in 1..L : h[i].results \cap ids = {} /\ (i < L => h[i].calls \cap ids = {})
  <2>1. Pending(h)
    BY DEF Dangles
  <2>2. Len(h) \in DOMAIN h /\ h[Len(h)].calls # {}
    BY <2>1, Dangling
  <2> QED BY <2>2 DEF Dangles, Sound
<1>2. AddResults(h, ids) = g
  BY <1>1, AddsAll
<1>3. Sound(g, log, n) /\ ~Pending(g)
  <2>1. ids # {} /\ ids \cap log \subseteq ids
    BY <1>1
  <2>2. \A i \in DOMAIN h : /\ ids \cap h[i].results = {}
                            /\ i < Len(h) => ids \cap h[i].calls = {}
    BY <1>1
  <2> QED BY <1>1, <2>1, <2>2, SoundAnswered
<1>4. Sent(g, ids)
  <2>1. e \in EntryType /\ e.role = "user" /\ e.calls = {} /\ e.results = ids
    BY ResultEntry
  <2> HIDE DEF e
  <2>2. DOMAIN g = 1..L + 1 /\ g[L + 1] = e /\ \A i \in 1..L : g[i] = h[i]
    BY <1>1, <2>1
  <2> HIDE DEF g, L
  <2>3. h[L].role = "assistant" /\ L < L + 1 /\ \A i \in 1..L + 1 : i < L \/ i = L \/ i = L + 1
    BY <1>1 DEF EntryOK
  <2> DEFINE last(i) == \A j \in DOMAIN g : j > i => g[j].role # "assistant"
  <2>4. last(L)
    BY <1>1, <2>1, <2>2, <2>3
  <2>5. last(L + 1)
    BY <1>1, <2>1, <2>2, <2>3
  <2>6. ASSUME NEW i \in 1..L, i < L PROVE ~last(i)
    BY <1>1, <2>2, <2>3, <2>6
  <2> HIDE DEF last
  <2>7. ASSUME NEW i \in 1..L + 1
        PROVE  /\ g[i].calls # {} /\ last(i) => g[i].calls \subseteq ids
               /\ g[i].calls \cap ids # {} => last(i)
               /\ g[i].results \cap ids # {} => last(i) /\ g[i].role # "assistant"
    <3>1. CASE i < L
      <4>1. i \in 1..L /\ g[i] = h[i]
        BY <1>1, <2>2, <3>1
      <4> QED BY <1>1, <2>6, <3>1, <4>1
    <3>2. CASE i = L
      BY <1>1, <2>2, <2>4, <3>2
    <3>3. CASE i = L + 1
      BY <2>1, <2>2, <2>5, <3>3
    <3> QED BY <2>3, <3>1, <3>2, <3>3
  <2> QED BY <2>2, <2>7 DEF Sent, last
<1> QED BY <1>2, <1>3, <1>4

LEMMA StepUpdateSystemPrompt ==
  ASSUME ChInv, NEW p \in Prompts, UpdateSystemPrompt(p)
  PROVE  ChInv'
<1>1. /\ BesidesChat /\ chat \in ChatType /\ Issued /\ Running /\ OnWire
      /\ Sound(chat.entries, logged, nextId) /\ Sound(disk, logged, nextId)
  BY PartsAre
<1>2. chat' = AddSystem(chat, p) /\ UNCHANGED <<batch, logged, nextId, disk, phase, request>>
  BY DEF UpdateSystemPrompt
<1>3. chat' \in ChatType /\ Grown(chat'.entries, chat.entries)
  BY <1>1, <1>2, ToldIs
<1>4. /\ Sound(chat'.entries, logged, nextId) /\ Sound(disk', logged', nextId')
      /\ Pending(chat.entries) => chat'.entries = chat.entries
  BY <1>1, <1>2, <1>3, SoundGrown
<1>5. BesidesChat'
  BY <1>1, BoundAssumption DEF BesidesChat, UpdateSystemPrompt
<1>6. Issued' /\ OnWire'
  BY <1>1, <1>2 DEF Issued, OnWire, UpdateSystemPrompt
<1>7. Running'
  BY <1>1, <1>2, <1>4 DEF Running, Dangles
<1> QED BY <1>2, <1>3, <1>4, <1>5, <1>6, <1>7, PartsNext

\* What every request has in common.
LEMMA Requested ==
  ASSUME ChInv, NEW kind \in {"text", "results", "none"}, Send(kind),
         NEW c \in ChatType, Sound(c.entries, logged, nextId), ~Pending(c.entries),
         kind = "results" => Sent(c.entries, batch), chat' = Enforce(c)
  PROVE  ChInv'
<1>1. /\ BesidesChat /\ Issued /\ Sound(disk, logged, nextId)
  BY PartsAre
<1>2. /\ phase' = "sending" /\ request' = kind
      /\ UNCHANGED <<batch, logged, nextId, disk>>
  BY DEF Send
<1>3. /\ chat' \in ChatType /\ Sound(chat'.entries, logged, nextId)
      /\ ~Pending(chat'.entries) /\ Lawfully(chat'.entries)
      /\ \A ids : Sent(c.entries, ids) => Sent(chat'.entries, ids)
  BY Enforced
<1>4. BesidesChat'
  BY <1>1, BoundAssumption DEF BesidesChat, Send
<1>5. Issued' /\ Running'
  BY <1>1, <1>2 DEF Issued, Running
<1>6. OnWire'
  BY <1>2, <1>3 DEF OnWire
<1>7. Sound(chat'.entries, logged', nextId') /\ Sound(disk', logged', nextId')
  BY <1>1, <1>2, <1>3
<1> QED BY <1>3, <1>4, <1>5, <1>6, <1>7, PartsNext
LEMMA StepSendText ==
  ASSUME ChInv, SendText
  PROVE  ChInv'
<1> DEFINE told == Refresh(chat, prompt)
           h == Append(Close(told.entries, logged), Text)
           c == [told EXCEPT !.entries = h]
<1>1. /\ BesidesChat /\ chat \in ChatType /\ Sound(chat.entries, logged, nextId)
  BY PartsAre
<1>2. told \in ChatType /\ Grown(told.entries, chat.entries)
  BY <1>1, Refreshed DEF BesidesChat
<1>3. Sound(told.entries, logged, nextId)
  BY <1>1, <1>2, SoundGrown
<1>4. Sound(h, logged, nextId) /\ ~Pending(h)
  <2>1. /\ Sound(Close(told.entries, logged), logged, nextId)
        /\ ~Pending(Close(told.entries, logged))
    BY <1>3, SoundClose
  <2>2. EntryOK(Text, logged, nextId) /\ Plain(Text)
    BY EntryIs
  <2> QED BY <2>1, <2>2, SoundQuiet
<1>5. chat' = Enforce(c) /\ Send("text")
  BY DEF SendText
<1> HIDE DEF h, told
<1>6. c \in ChatType /\ c.entries = h
  BY <1>2, <1>4, WithEntries DEF Sound
<1> QED BY <1>4, <1>5, <1>6, Requested

LEMMA StepSendResults ==
  ASSUME ChInv, SendResults
  PROVE  ChInv'
<1> DEFINE told == Refresh(chat, prompt)
           h == AddResults(chat.entries, batch)
           c == [told EXCEPT !.entries = h]
<1>1. /\ BesidesChat /\ chat \in ChatType /\ Sound(chat.entries, logged, nextId)
      /\ Issued /\ Dangles(chat.entries, batch)
  BY PartsAre DEF Running, SendResults
<1>2. told \in ChatType /\ Grown(told.entries, chat.entries)
  BY <1>1, Refreshed DEF BesidesChat
<1>3. told.entries = chat.entries
  BY <1>1, <1>2, SoundGrown, ZenonT(60) DEF Dangles
<1>4. Sound(h, logged, nextId) /\ ~Pending(h) /\ Sent(h, batch)
  BY <1>1, Committed DEF BesidesChat, Issued
<1>5. chat' = Enforce(c) /\ Send("results")
  BY <1>3 DEF SendResults
<1> HIDE DEF h, told
<1>6. c \in ChatType /\ c.entries = h
  BY <1>2, <1>4, WithEntries DEF Sound
<1> QED BY <1>4, <1>5, <1>6, Requested

LEMMA StepSendNone ==
  ASSUME ChInv, SendNone
  PROVE  ChInv'
<1> DEFINE told == Refresh(chat, prompt)
<1>1. /\ BesidesChat /\ chat \in ChatType /\ Sound(chat.entries, logged, nextId)
  BY PartsAre
<1>2. ~Pending(chat.entries)
  <2> SUFFICES ASSUME Pending(chat.entries) PROVE FALSE
    OBVIOUS
  <2>1. Len(chat.entries) \in DOMAIN chat.entries
    BY <1>1, Dangling
  <2>2. EntryOK(chat.entries[Len(chat.entries)], logged, nextId)
    BY <1>1, <2>1 DEF Sound
  <2> QED BY <2>2 DEF EntryOK, SendNone, Entries, Pending
<1>3. told \in ChatType /\ Grown(told.entries, chat.entries)
  BY <1>1, Refreshed DEF BesidesChat
<1>4. Sound(told.entries, logged, nextId) /\ ~Pending(told.entries)
  BY <1>1, <1>2, <1>3, SoundGrown
<1>5. chat' = Enforce(told) /\ Send("none")
  BY DEF SendNone
<1> HIDE DEF told
<1> QED BY <1>3, <1>4, <1>5, Requested

LEMMA StepTrimContext ==
  ASSUME ChInv, TrimContext
  PROVE  ChInv'
<1> DEFINE h == Trim(chat.entries)
           c == [chat EXCEPT !.entries = h]
<1>1. /\ BesidesChat /\ chat \in ChatType /\ Issued /\ OnWire
      /\ Sound(chat.entries, logged, nextId) /\ Sound(disk, logged, nextId)
  BY PartsAre
<1>2. /\ phase = "sending" /\ CanTrim(chat.entries) /\ chat' = Enforce(c)
      /\ UNCHANGED <<phase, request, batch, logged, nextId, disk>>
  BY DEF TrimContext, Entries
<1>3. /\ Sound(h, logged, nextId) /\ ~Pending(h)
      /\ request = "results" => Sent(h, batch)
  BY <1>1, <1>2, SoundTrim DEF OnWire
<1> HIDE DEF h
<1>4. c \in ChatType /\ c.entries = h
  BY <1>1, <1>3, WithEntries DEF Sound
<1> HIDE DEF c
<1>5. /\ chat' \in ChatType /\ Sound(chat'.entries, logged, nextId)
      /\ ~Pending(chat'.entries) /\ Lawfully(chat'.entries)
      /\ \A ids : Sent(h, ids) => Sent(chat'.entries, ids)
  BY <1>2, <1>3, <1>4, Enforced
<1>6. BesidesChat'
  BY <1>1, BoundAssumption DEF BesidesChat, TrimContext, counters
<1>7. Issued' /\ Running'
  BY <1>1, <1>2 DEF Issued, Running
<1>8. OnWire'
  BY <1>2, <1>3, <1>5 DEF OnWire
<1>9. Sound(chat'.entries, logged', nextId') /\ Sound(disk', logged', nextId')
  BY <1>1, <1>2, <1>5
<1> QED BY <1>5, <1>6, <1>7, <1>8, <1>9, PartsNext

\* The answer, with the ids it calls.
LEMMA Answering ==
  ASSUME ChInv, phase = "sending", NEW n \in 0..2, nextId + n <= MaxCalls + 1
  PROVE  LET g == AppendAnswer(n)
         IN /\ g \in Seq(EntryType) /\ Sound(g, logged, nextId + n)
            /\ NewIds(n) \in SUBSET Ids
            /\ \A id \in NewIds(n) : id < nextId + n
            /\ n = 0 => ~Pending(g)
            /\ n > 0 => Dangles(g, NewIds(n))
<1> DEFINE w == WithNotice
           e == Assistant(NewIds(n))
           g == AppendAnswer(n)
<1>1. /\ BesidesChat /\ OnWire /\ Sound(chat.entries, logged, nextId)
  BY PartsAre
<1>2. Sound(w, logged, nextId) /\ ~Pending(w)
  <2>1. ~Pending(chat.entries)
    BY <1>1 DEF OnWire
  <2>2. EntryOK(Text, logged, nextId) /\ Plain(Text)
    BY EntryIs
  <2> QED BY <1>1, <2>1, <2>2, SoundQuiet DEF WithNotice, Entries
<1>3. nextId \in Nat /\ nextId >= 1 /\ n \in Nat /\ MaxCalls \in Nat
  BY <1>1, BoundAssumption DEF BesidesChat
<1>4. /\ NewIds(n) \in SUBSET Ids /\ \A id \in NewIds(n) : id < nextId + n /\ ~(id < nextId)
      /\ (n = 0 => NewIds(n) = {}) /\ (n > 0 => nextId \in NewIds(n))
  BY <1>3 DEF NewIds, Ids
<1>5. /\ e \in EntryType /\ e.calls = NewIds(n) /\ e.results = {}
      /\ EntryOK(e, logged, nextId + n)
  BY <1>4, CallEntry
<1>6. g = Append(w, e)
  BY DEF AppendAnswer
<1> HIDE DEF e, w, g
<1>7. Sound(w, logged, nextId + n)
  BY <1>2, <1>3, SoundGrows
<1>8. \A i \in DOMAIN w : NewIds(n) \cap (w[i].calls \cup w[i].results) = {}
  BY <1>2, <1>4 DEF Sound, EntryOK
<1>9. Sound(g, logged, nextId + n)
  BY <1>2, <1>5, <1>6, <1>7, <1>8, SoundAppend
<1>10. /\ g \in Seq(EntryType) /\ Len(g) = Len(w) + 1 /\ DOMAIN g = 1..Len(w) + 1
       /\ DOMAIN w = 1..Len(w) /\ Len(w) \in Nat
       /\ g[Len(w) + 1] = e /\ \A i \in 1..Len(w) : g[i] = w[i]
  BY <1>2, <1>5, <1>6 DEF Sound
<1>11. Pending(g) <=> NewIds(n) # {}
  BY <1>5, <1>10 DEF Pending
<1>12. ASSUME n > 0 PROVE Dangles(g, NewIds(n))
  <2>1. Pending(g) /\ g[Len(g)].calls \subseteq NewIds(n)
    BY <1>4, <1>5, <1>10, <1>11, <1>12
  <2>2. ASSUME NEW i \in DOMAIN g
        PROVE  /\ g[i].results \cap NewIds(n) = {}
               /\ i < Len(g) => g[i].calls \cap NewIds(n) = {}
    <3>1. CASE i \in 1..Len(w)
      BY <1>8, <1>10, <3>1
    <3>2. CASE i = Len(w) + 1
      BY <1>5, <1>10, <3>2
    <3> QED BY <1>10, <3>1, <3>2
  <2> QED BY <2>1, <2>2 DEF Dangles
<1> QED BY <1>4, <1>9, <1>10, <1>11, <1>12 DEF g
LEMMA StepAnswer ==
  ASSUME ChInv, NEW n \in 0..2, Answer(n)
  PROVE  ChInv'
<1> DEFINE g == AppendAnswer(n)
<1>1. /\ BesidesChat /\ chat \in ChatType /\ Issued
  BY PartsAre
<1>2. /\ phase = "sending" /\ nextId + n <= MaxCalls + 1
      /\ chat' = [chat EXCEPT !.entries = g] /\ disk' = chat'.entries
      /\ logged' = logged /\ nextId' = nextId + n /\ batch' = NewIds(n)
      /\ phase' = IF n = 0 THEN "idle" ELSE "exec"
  BY DEF Answer, SetEntries, Save
<1>3. /\ g \in Seq(EntryType) /\ Sound(g, logged, nextId + n)
      /\ NewIds(n) \in SUBSET Ids /\ \A id \in NewIds(n) : id < nextId + n
      /\ n > 0 => Dangles(g, NewIds(n))
  BY <1>2, Answering
<1> HIDE DEF g
<1>4. chat' \in ChatType /\ chat'.entries = g
  BY <1>1, <1>2, <1>3, WithEntries
<1>5. BesidesChat'
  BY <1>1, <1>2, <1>3, BoundAssumption, SMTT(30), ZenonT(30) DEF BesidesChat, Answer, counters
<1>6. Issued'
  <2>1. \A id \in logged : id < nextId + n
    BY <1>1 DEF Issued, BesidesChat, Ids
  <2> QED BY <1>2, <1>3, <2>1 DEF Issued
<1>7. Running'
  BY <1>2, <1>3, <1>4 DEF Running, Dangles, Unreplied
<1>8. OnWire'
  BY <1>2 DEF OnWire
<1>9. Sound(chat'.entries, logged', nextId') /\ Sound(disk', logged', nextId')
  BY <1>2, <1>3, <1>4
<1> QED BY <1>4, <1>5, <1>6, <1>7, <1>8, <1>9, PartsNext

\* A request that failed with history h: what was sent with it dangles again,
\* or nothing pending is the batch's.
LEMMA Recovering ==
  ASSUME ChInv, NEW h, NEW n, Sound(h, logged, n), Recover(h),
         NEW m \in 0..2, n = nextId + m, n <= MaxCalls + 1, nextId' = n,
         request = "results" /\ Pending(h) => Dangles(h, batch)
  PROVE  ChInv'
<1> DEFINE restore == request = "results" /\ Pending(h)
           kept == IF restore THEN AddResults(h, batch) ELSE h
           closed == Close(kept, logged)
<1>1. /\ BesidesChat /\ chat \in ChatType /\ Issued /\ Sound(disk, logged, nextId)
  BY PartsAre
<1>2. /\ chat' = [chat EXCEPT !.entries = closed]
      /\ disk' = kept \/ disk' = closed \/ disk' = disk
      /\ phase' = "idle" /\ batch' = {} /\ logged' = logged
  BY DEF Recover, SetEntries
<1>3. nextId \in Int /\ n \in Int /\ nextId <= n
  BY <1>1, BoundAssumption DEF BesidesChat
<1>4. Sound(kept, logged, n)
  <2>1. CASE restore
    <3>1. batch \in SUBSET Ids /\ \A id \in batch : id < n
      BY <1>1, <1>3 DEF BesidesChat, Issued, Ids
    <3> QED BY <2>1, <3>1, Committed
  <2>2. CASE ~restore
    BY <2>2
  <2> QED BY <2>1, <2>2
<1> HIDE DEF kept
<1>5. Sound(closed, logged, n) /\ closed \in Seq(EntryType)
  BY <1>4, SoundClose DEF Sound
<1>6. Sound(disk, logged, n)
  BY <1>1, <1>3, SoundGrows
<1> HIDE DEF closed
<1>7. chat' \in ChatType /\ chat'.entries = closed
  BY <1>1, <1>2, <1>5, WithEntries
<1>8. BesidesChat'
  BY <1>1, <1>2, BoundAssumption DEF BesidesChat, Recover, counters
<1>9. Issued' /\ Running' /\ OnWire'
  <2>1. \A id \in logged : id < n
    BY <1>1, <1>3 DEF Issued, BesidesChat, Ids
  <2> QED BY <1>2, <2>1 DEF Issued, Running, OnWire
<1>10. Sound(chat'.entries, logged', nextId') /\ Sound(disk', logged', nextId')
  BY <1>2, <1>4, <1>5, <1>6, <1>7
<1> QED BY <1>7, <1>8, <1>9, <1>10, PartsNext

LEMMA StepFail ==
  ASSUME ChInv, Fail
  PROVE  ChInv'
<1> DEFINE h == chat.entries
           L == Len(h)
           g == IF request = "none" THEN h ELSE DropUsers(h)
<1>1. /\ BesidesChat /\ OnWire /\ Sound(h, logged, nextId) /\ h \in Seq(EntryType)
  BY PartsAre DEF Sound
<1>2. phase = "sending" /\ Recover(g) /\ nextId' = nextId
  BY DEF Fail, Entries
<1>3. PICK k \in 0..L : /\ DropUsers(h) = SubSeq(h, 1, k)
                        /\ k > 0 => h[k].role # "user"
                        /\ \A j \in k + 1..L : h[j].role = "user"
  BY <1>1, Dropped
<1>4. /\ Sound(SubSeq(h, 1, k), logged, nextId) /\ Len(SubSeq(h, 1, k)) = k
      /\ \A i \in 1..k : SubSeq(h, 1, k)[i] = h[i]
  BY <1>1, SoundPrefix
<1>5. Sound(g, logged, nextId)
  BY <1>1, <1>3, <1>4
<1>6. ASSUME request = "results", Pending(g) PROVE Dangles(g, batch)
  <2>1. /\ g = SubSeq(h, 1, k) /\ Len(g) = k /\ DOMAIN g = 1..k /\ k \in Nat /\ L \in Nat
        /\ DOMAIN h = 1..L /\ 1..k \subseteq 1..L /\ \A i \in 1..k : g[i] = h[i]
    BY <1>1, <1>3, <1>4, <1>5, <1>6 DEF Sound
  <2>2. Sent(h, batch)
    BY <1>1, <1>2, <1>6 DEF OnWire
  <2> DEFINE last(i) == \A j \in DOMAIN h : j > i => h[j].role # "assistant"
  <2>3. \A i \in 1..L :
          /\ h[i].calls # {} /\ last(i) => h[i].calls \subseteq batch
          /\ h[i].calls \cap batch # {} => last(i)
          /\ h[i].results \cap batch # {} => last(i) /\ h[i].role # "assistant"
    BY <2>1, <2>2 DEF Sent
  <2> HIDE DEF g
  <2>4. k \in 1..k /\ h[k].calls # {} /\ k > 0
    <3>1. Len(g) \in DOMAIN g /\ g[Len(g)].calls # {}
      BY <1>5, <1>6, Dangling
    <3> QED BY <2>1, <3>1
  <2>5. h[k].role = "assistant"
    BY <1>1, <2>1, <2>4 DEF Sound, EntryOK
  <2>6. last(k)
    <3>1. ASSUME NEW j \in 1..L, j > k PROVE h[j].role = "user"
      BY <1>3, <2>1, <3>1
    <3> QED BY <2>1, <3>1
  <2>7. ASSUME NEW i \in 1..k, i < k PROVE ~last(i)
    BY <2>1, <2>4, <2>5, <2>7
  <2> HIDE DEF last
  <2>8. \A i \in 1..k : i < k \/ i = k
    BY <2>1
  <2>9. ASSUME NEW i \in 1..k
        PROVE  g[i].results \cap batch = {} /\ (i < k => g[i].calls \cap batch = {})
    <3>1. i \in 1..L /\ g[i] = h[i]
      BY <2>1
    <3>2. CASE i < k
      BY <2>3, <2>7, <3>1, <3>2
    <3>3. CASE i = k
      BY <2>3, <2>5, <3>1, <3>3
    <3> QED BY <2>8, <3>2, <3>3
  <2>10. g[k].calls \subseteq batch
    BY <2>1, <2>3, <2>4, <2>6
  <2> QED BY <1>6, <2>1, <2>9, <2>10 DEF Dangles
<1> HIDE DEF g
<1>7. 0 \in 0..2 /\ nextId = nextId + 0 /\ nextId <= MaxCalls + 1
  BY <1>1, BoundAssumption DEF BesidesChat
<1> QED BY <1>2, <1>5, <1>6, <1>7, Recovering

LEMMA StepLateAnswer ==
  ASSUME ChInv, Races = {}, NEW n \in 0..2, LateAnswer(n)
  PROVE  ChInv'
<1> DEFINE g == AppendAnswer(n)
<1>1. BesidesChat
  BY PartsAre
<1>2. /\ phase = "sending" /\ nextId + n <= MaxCalls + 1 /\ Recover(g)
      /\ nextId' = nextId + n /\ (request = "results" => n = 0)
  BY DEF LateAnswer
<1>3. Sound(g, logged, nextId + n) /\ (n = 0 => ~Pending(g))
  BY <1>2, Answering
<1> HIDE DEF g
<1> QED BY <1>2, <1>3, Recovering

LEMMA StepRunTool ==
  ASSUME ChInv, NEW id \in Ids, RunTool(id)
  PROVE  ChInv'
<1>1. /\ BesidesChat /\ chat \in ChatType /\ Issued /\ Running
      /\ Sound(chat.entries, logged, nextId) /\ Sound(disk, logged, nextId)
  BY PartsAre
<1>2. /\ phase = "exec" /\ id \in batch /\ logged' = logged \cup {id}
      /\ UNCHANGED <<chat, disk, nextId, batch, phase, request>>
  BY DEF RunTool
<1>3. Dangles(chat.entries, batch) /\ Unreplied(disk, batch)
  BY <1>1, <1>2 DEF Running
<1>4. Sound(chat.entries, logged \cup {id}, nextId)
  BY <1>1, <1>2, <1>3, SoundLogged DEF Dangles
<1>5. Sound(disk, logged \cup {id}, nextId)
  BY <1>1, <1>2, <1>3, SoundLogged DEF Unreplied
<1>6. BesidesChat'
  BY <1>1 DEF BesidesChat, RunTool, counters
<1>7. Issued' /\ Running' /\ OnWire'
  BY <1>1, <1>2, <1>3 DEF Issued, Running, OnWire
<1> QED BY <1>1, <1>2, <1>4, <1>5, <1>6, <1>7, PartsNext
\* A history with a system entry put before it.
LEMMA SoundHeaded ==
  ASSUME NEW log, NEW n, NEW h, Sound(h, log, n), NEW p \in Prompts
  PROVE  LET g == <<System(p)>> \o h
         IN /\ Sound(g, log, n) /\ (Pending(g) <=> Pending(h))
            /\ \A i \in DOMAIN g : Plain(g[i]) \/ \E j \in DOMAIN h : g[i] = h[j]
<1> DEFINE e == System(p)
           g == <<e>> \o h
           L == Len(h)
<1>1. e \in EntryType /\ EntryOK(e, log, n) /\ Plain(e)
  BY EntryIs DEF EntryOK
<1> HIDE DEF e
<1>2. /\ h \in Seq(EntryType) /\ L \in Nat /\ DOMAIN h = 1..L
      /\ \A i \in 1..L : EntryOK(h[i], log, n)
  BY DEF Sound
<1>3. /\ g \in Seq(EntryType) /\ Len(g) = L + 1 /\ DOMAIN g = 1..L + 1
      /\ g[1] = e /\ \A i \in 2..L + 1 : i - 1 \in 1..L /\ g[i] = h[i - 1]
  BY <1>1, <1>2
<1> HIDE DEF g, L
<1>4. \A i \in 1..L + 1 : i = 1 \/ i \in 2..L + 1
  BY <1>2
<1>5. \A i \in DOMAIN g : EntryOK(g[i], log, n)
  BY <1>1, <1>2, <1>3, <1>4
<1>6. AskedOnce(g)
  <2> SUFFICES ASSUME NEW i \in 1..L + 1, NEW j \in 1..L + 1, i # j
               PROVE  /\ g[i].calls \cap g[j].calls = {}
                      /\ g[i].results \cap g[j].results = {}
    BY <1>3 DEF AskedOnce
  <2>1. CASE i = 1 \/ j = 1
    BY <1>1, <1>3, <2>1 DEF Plain
  <2>2. CASE i \in 2..L + 1 /\ j \in 2..L + 1
    <3>1. i - 1 # j - 1
      BY <1>2
    <3> QED BY <1>2, <1>3, <2>2, <3>1 DEF Sound, AskedOnce
  <2> QED BY <1>4, <2>1, <2>2
<1>7. Follows(g)
  <2> SUFFICES ASSUME NEW i \in 1..L + 1, NEW j \in 1..L + 1
               PROVE  /\ g[i].calls \cap g[j].results # {} => j = i + 1
                      /\ j = i + 1 => g[i].calls \subseteq g[j].results
    BY <1>3 DEF Follows
  <2>1. CASE i = 1
    BY <1>1, <1>3, <2>1 DEF Plain
  <2>2. CASE i \in 2..L + 1 /\ j = 1
    <3>1. j # i + 1
      BY <1>2, <2>2
    <3> QED BY <1>1, <1>3, <2>2, <3>1 DEF Plain
  <2>3. CASE i \in 2..L + 1 /\ j \in 2..L + 1
    <3>1. j - 1 = (i - 1) + 1 <=> j = i + 1
      BY <1>2
    <3> QED BY <1>2, <1>3, <2>3, <3>1 DEF Sound, Follows
  <2> QED BY <1>4, <2>1, <2>2, <2>3
<1>8. Pending(g) <=> Pending(h)
  <2>1. CASE L = 0
    <3>1. h = <<>> /\ g[Len(g)] = e
      BY <1>2, <1>3, <2>1 DEF L
    <3> QED BY <1>1, <3>1 DEF Pending, Plain
  <2>2. CASE L # 0
    <3>1. h # <<>> /\ g # <<>> /\ g[Len(g)] = h[L]
      <4>1. L + 1 \in 2..L + 1 /\ (L + 1) - 1 = L
        BY <1>2, <2>2
      <4>2. g[L + 1] = h[L]
        BY <1>3, <4>1
      <4> QED BY <1>2, <1>3, <2>2, <4>2 DEF L
    <3> QED BY <3>1 DEF Pending, L
  <2> QED BY <2>1, <2>2
<1>9. \A i \in DOMAIN g : Plain(g[i]) \/ \E j \in DOMAIN h : g[i] = h[j]
  BY <1>1, <1>2, <1>3, <1>4
<1> QED BY <1>3, <1>5, <1>6, <1>7, <1>8, <1>9 DEF Sound, g, e

LEMMA StepMolt ==
  ASSUME ChInv, NEW id \in Ids, NEW n \in MoltKeeps, Molt(id, n)
  PROVE  ChInv'
<1> DEFINE h == chat.entries
           g == KeepLast(h, id, n)
           w == <<System(prompt)>> \o g
           e == Assistant({id})
           new == Append(w, e)
           log == logged \cup {id}
<1>1. /\ BesidesChat /\ chat \in ChatType /\ Issued /\ Running /\ Sound(h, logged, nextId)
  BY PartsAre
<1>2. /\ phase = "exec" /\ id \in batch /\ id \in Calls(h) /\ logged' = log
      /\ disk' = <<>> /\ UNCHANGED <<nextId, batch, phase, request>>
  BY DEF Molt, Entries
<1>3. Dangles(h, batch)
  BY <1>1, <1>2 DEF Running
<1>4. id \in h[Len(h)].calls /\ n \in Nat
  <2>1. DOMAIN h = 1..Len(h) /\ Len(h) \in Nat
    BY <1>1 DEF Sound
  <2>2. PICK i \in DOMAIN h : id \in h[i].calls
    BY <1>2 DEF Calls
  <2>3. ~(i < Len(h))
    BY <1>2, <1>3, <2>2 DEF Dangles
  <2>4. i = Len(h)
    BY <2>1, <2>3
  <2> QED BY <2>2, <2>4, KeepAssumption
<1>5. /\ Sound(g, logged, nextId) /\ ~Pending(g)
      /\ \A k \in DOMAIN g : \E i \in DOMAIN h : i < Len(h) /\ g[k] = h[i]
  BY <1>1, <1>3, <1>4, SoundKeep DEF Dangles
<1> HIDE DEF g
<1>6. /\ Sound(w, logged, nextId) /\ ~Pending(w)
      /\ \A i \in DOMAIN w : Plain(w[i]) \/ \E j \in DOMAIN g : w[i] = g[j]
  <2>1. prompt \in Prompts
    BY <1>1 DEF BesidesChat
  <2>2. /\ Sound(w, logged, nextId) /\ (Pending(w) <=> Pending(g))
        /\ \A i \in DOMAIN w : Plain(w[i]) \/ \E j \in DOMAIN g : w[i] = g[j]
    BY <1>5, <2>1, SoundHeaded
  <2> QED BY <1>5, <2>2
<1> HIDE DEF w
<1>7. \A i \in DOMAIN w : w[i].calls \cap batch = {} /\ w[i].results \cap batch = {}
  <2>1. \A k \in DOMAIN g : g[k].calls \cap batch = {} /\ g[k].results \cap batch = {}
    BY <1>3, <1>5 DEF Dangles
  <2> QED BY <1>6, <2>1 DEF Plain
<1>8. Sound(w, log, nextId)
  BY <1>2, <1>6, <1>7, SoundLogged
<1>9. /\ e \in EntryType /\ e.calls = {id} /\ e.results = {} /\ EntryOK(e, log, nextId)
  <2>1. {id} \in SUBSET Ids /\ \A i \in {id} : i < nextId
    BY <1>1, <1>2 DEF Issued
  <2> QED BY <2>1, CallEntry
<1> HIDE DEF e, log
<1>10. Sound(new, log, nextId)
  BY <1>2, <1>6, <1>7, <1>8, <1>9, SoundAppend
<1>11. /\ new \in Seq(EntryType) /\ Len(new) = Len(w) + 1 /\ DOMAIN new = 1..Len(w) + 1
       /\ DOMAIN w = 1..Len(w) /\ Len(w) \in Nat
       /\ new[Len(w) + 1] = e /\ \A i \in 1..Len(w) : new[i] = w[i]
  BY <1>6, <1>9 DEF Sound
<1>12. chat' \in ChatType /\ chat'.entries = new
  <2>1. Fresh(prompt) \in ChatType /\ Fresh(prompt).entries = <<System(prompt)>>
    <3>1. System(prompt) \in EntryType
      BY <1>1, EntryIs DEF EntryOK, BesidesChat
    <3>2. <<System(prompt)>> \in Seq(EntryType)
      BY <3>1
    <3> QED BY <1>1, <3>2 DEF Fresh, ChatType, BesidesChat
  <2>2. w \o <<e>> = new
    BY <1>6, <1>9 DEF Sound
  <2>3. chat' = [Fresh(prompt) EXCEPT !.entries = (@ \o g) \o <<e>>]
    BY DEF Molt, Entries, g, e
  <2>4. chat' = [Fresh(prompt) EXCEPT !.entries = new]
    BY <2>1, <2>2, <2>3 DEF w
  <2> QED BY <1>11, <2>1, <2>4, WithEntries
<1> HIDE DEF new
<1>13. Dangles(new, batch)
  <2>1. Pending(new) /\ new[Len(new)].calls \subseteq batch
    <3>1. new # <<>> /\ new[Len(new)] = e
      BY <1>11
    <3> QED BY <1>2, <1>9, <3>1 DEF Pending
  <2>2. ASSUME NEW i \in DOMAIN new
        PROVE  /\ new[i].results \cap batch = {}
               /\ i < Len(new) => new[i].calls \cap batch = {}
    <3>1. CASE i \in 1..Len(w)
      BY <1>7, <1>11, <3>1
    <3>2. CASE i = Len(w) + 1
      BY <1>9, <1>11, <3>2
    <3> QED BY <1>11, <3>1, <3>2
  <2> QED BY <2>1, <2>2 DEF Dangles
<1>14. BesidesChat'
  BY <1>1 DEF BesidesChat, Molt, counters
<1>15. Issued' /\ Running' /\ OnWire'
  BY <1>1, <1>2, <1>12, <1>13 DEF Issued, Running, OnWire, Unreplied, log
<1>16. Sound(disk', logged', nextId')
  BY <1>2 DEF Sound, AskedOnce, Follows
<1>17. Sound(chat'.entries, logged', nextId')
  BY <1>2, <1>10, <1>12
<1> QED BY <1>12, <1>14, <1>15, <1>16, <1>17, PartsNext

\* The end of a turn, and whatever else leaves the loop idle with history h.
LEMMA Idling ==
  ASSUME ChInv, NEW h, Sound(h, logged', nextId'), chat' = [chat EXCEPT !.entries = h],
         disk' = chat'.entries, phase' = "idle", BesidesChat', Issued'
  PROVE  ChInv'
<1>1. chat \in ChatType /\ h \in Seq(EntryType)
  BY PartsAre DEF Sound
<1>2. chat' \in ChatType /\ chat'.entries = h
  BY <1>1, WithEntries
<1>3. Running' /\ OnWire'
  BY DEF Running, OnWire
<1> QED BY <1>2, <1>3, PartsNext

LEMMA StepEndTurn ==
  ASSUME ChInv, NEW h, Sound(h, logged, nextId), EndTurn(h)
  PROVE  ChInv'
<1>1. /\ BesidesChat /\ Issued
  BY PartsAre
<1>2. BesidesChat'
  BY <1>1 DEF BesidesChat, EndTurn, counters
<1>3. Issued'
  BY <1>1 DEF Issued, EndTurn
<1> QED BY <1>2, <1>3, Idling DEF EndTurn, SetEntries, Save

LEMMA StepEnds ==
  ASSUME ChInv, Abandon \/ GuardStop \/ StopAfterTools
  PROVE  ChInv'
<1>1. /\ BesidesChat /\ Issued /\ Running /\ Sound(chat.entries, logged, nextId)
  BY PartsAre
<1>2. CASE Abandon
  BY <1>1, <1>2, StepEndTurn DEF Abandon, Entries
<1>3. CASE GuardStop
  BY <1>1, <1>3, SoundClose, StepEndTurn DEF GuardStop, Entries
<1>4. CASE StopAfterTools
  BY <1>1, <1>4, Committed, StepEndTurn DEF StopAfterTools, Entries, BesidesChat, Issued, Running
<1> QED BY <1>2, <1>3, <1>4

LEMMA StepHeal ==
  ASSUME ChInv, Heal
  PROVE  ChInv'
<1> DEFINE h == Close(chat.entries, logged)
<1>1. /\ BesidesChat /\ Issued /\ Sound(chat.entries, logged, nextId)
  BY PartsAre
<1>2. Sound(h, logged, nextId)
  BY <1>1, SoundClose
<1>3. BesidesChat' /\ Issued'
  BY <1>1 DEF BesidesChat, Heal, counters, Issued
<1>4. /\ chat' = [chat EXCEPT !.entries = h] /\ disk' = chat'.entries /\ phase' = "idle"
      /\ logged' = logged /\ nextId' = nextId
  BY DEF Heal, SetEntries, Save, Entries
<1> HIDE DEF h
<1>5. Sound(h, logged', nextId')
  BY <1>2, <1>4
<1> QED BY <1>3, <1>4, <1>5, Idling

LEMMA StepInjectPair ==
  ASSUME ChInv, Races = {}, InjectPair
  PROVE  ChInv'
<1> DEFINE h == Close(chat.entries, logged)
           a == Assistant({nextId})
           r == Results({nextId}, {})
           g == Append(h, a)
           n == nextId + 1
<1>1. /\ BesidesChat /\ Issued /\ Sound(chat.entries, logged, nextId)
  BY PartsAre
<1>2. /\ phase = "idle" /\ nextId <= MaxCalls
      /\ chat' = [chat EXCEPT !.entries = h \o <<a, r>>] /\ disk' = chat'.entries
      /\ phase' = phase /\ logged' = logged /\ nextId' = n /\ batch' = batch
  BY DEF InjectPair, SetEntries, Save, Entries
<1>3. nextId \in Ids /\ nextId \in Int /\ n \in Int /\ nextId <= n /\ nextId < n
      /\ nextId \notin logged
  BY <1>1, <1>2, BoundAssumption, SMTT(30), ZenonT(30) DEF BesidesChat, Ids, Issued
<1>4. Sound(h, logged, nextId) /\ ~Pending(h)
  BY <1>1, SoundClose
<1> HIDE DEF h
<1>5. Sound(h, logged, n)
  BY <1>3, <1>4, SoundGrows
<1>6. \A i \in DOMAIN h : nextId \notin h[i].calls /\ nextId \notin h[i].results
  BY <1>3, <1>4 DEF Sound, EntryOK
<1>7. a \in EntryType /\ a.calls = {nextId} /\ a.results = {} /\ EntryOK(a, logged, n)
  BY <1>3, CallEntry
<1>8. r \in EntryType
  <2>1. {nextId} \in SUBSET Ids /\ {} \in SUBSET {nextId}
    BY <1>3
  <2> QED BY <2>1, ResultEntry
<1> HIDE DEF a
<1>9. Sound(g, logged, n)
  BY <1>4, <1>5, <1>6, <1>7, SoundAppend
<1>10. /\ g \in Seq(EntryType) /\ Len(g) = Len(h) + 1 /\ DOMAIN g = 1..Len(h) + 1
       /\ DOMAIN h = 1..Len(h) /\ Len(h) \in Nat
       /\ g[Len(h) + 1] = a /\ \A i \in 1..Len(h) : g[i] = h[i]
  BY <1>4, <1>7 DEF Sound
<1>11. h \o <<a, r>> = Append(g, r)
  BY <1>4, <1>7, <1>8 DEF Sound
<1> HIDE DEF g
<1>12. /\ Pending(g) => g[Len(g)].calls \subseteq {nextId}
       /\ \A i \in DOMAIN g : /\ {nextId} \cap g[i].results = {}
                              /\ i < Len(g) => {nextId} \cap g[i].calls = {}
  <2>1. g[Len(g)].calls \subseteq {nextId}
    BY <1>7, <1>10
  <2>2. ASSUME NEW i \in DOMAIN g
        PROVE  /\ {nextId} \cap g[i].results = {}
               /\ i < Len(g) => {nextId} \cap g[i].calls = {}
    <3>1. CASE i \in 1..Len(h)
      BY <1>6, <1>10, <3>1
    <3>2. CASE i = Len(h) + 1
      BY <1>7, <1>10, <3>2
    <3> QED BY <1>10, <3>1, <3>2
  <2> QED BY <2>1, <2>2
<1>13. Sound(Append(g, r), logged, n)
  <2>1. {nextId} \in SUBSET Ids /\ {} \in SUBSET {nextId} /\ {nextId} # {}
        /\ (\A i \in {nextId} : i < n) /\ {nextId} \cap logged \subseteq {}
    BY <1>3
  <2> QED BY <1>9, <1>12, <2>1, SoundAnswered
<1>14. BesidesChat'
  BY <1>1, <1>2, BoundAssumption, SMTT(30), ZenonT(30) DEF BesidesChat, InjectPair, counters
<1>15. Issued'
  BY <1>1, <1>2, <1>3 DEF Issued, BesidesChat, Ids
<1> QED BY <1>2, <1>11, <1>13, <1>14, <1>15, Idling

LEMMA StepRestart ==
  ASSUME ChInv, Restart
  PROVE  ChInv'
<1> DEFINE s == StripOrphans(disk)
           h == Close(s, logged)
           log == logged
<1>1. /\ BesidesChat /\ Issued /\ Sound(disk, logged, nextId)
  BY PartsAre
<1>2. /\ chat' = Reload(disk, prompt, logged) /\ disk' = disk /\ logged' = logged
      /\ nextId' = nextId /\ phase' = "idle" /\ batch' = {}
  BY DEF Restart
<1>3. chat' \in ChatType /\ Sound(chat'.entries, logged, nextId)
  <2>1. CASE disk = <<>>
    <3>1. chat' = [entries |-> <<System(prompt)>>, current |-> prompt, deferred |-> NoPrompt]
      BY <1>2, <2>1 DEF Reload, Fresh
    <3>2. Sound(<<>>, logged, nextId) /\ ~Pending(<<>>)
      BY DEF Sound, AskedOnce, Follows, Pending
    <3>3. EntryOK(System(prompt), logged, nextId) /\ Plain(System(prompt))
      BY <1>1, EntryIs DEF BesidesChat
    <3>4. Append(<<>>, System(prompt)) = <<System(prompt)>>
      OBVIOUS
    <3>5. Sound(<<System(prompt)>>, logged, nextId)
      BY <3>2, <3>3, <3>4, SoundQuiet
    <3> QED BY <1>1, <3>1, <3>5 DEF ChatType, BesidesChat, Sound
  <2>2. CASE disk # <<>>
    <3>1. chat' = [entries |-> h, current |-> LastPrompt(disk), deferred |-> NoPrompt]
      BY <1>2, <2>2 DEF Reload
    <3>2. Sound(s, logged, nextId)
      BY <1>1, SoundStrip
    <3> HIDE DEF s
    <3>3. Sound(h, logged, nextId)
      BY <3>2, SoundClose
    <3> HIDE DEF h
    <3>4. LastPrompt(disk) \in Prompts \cup {NoPrompt}
      BY <1>1, LastPromptType DEF Sound
    <3> QED BY <3>1, <3>3, <3>4 DEF ChatType, Sound
  <2> QED BY <2>1, <2>2
<1>4. BesidesChat'
  BY <1>1, BoundAssumption DEF BesidesChat, Restart
<1>5. Issued' /\ Running' /\ OnWire'
  BY <1>1, <1>2 DEF Issued, Running, OnWire
<1>6. Sound(chat'.entries, logged', nextId') /\ Sound(disk', logged', nextId')
  BY <1>1, <1>2, <1>3
<1> QED BY <1>3, <1>4, <1>5, <1>6, PartsNext
LEMMA ChInit == Init => ChInv
<1> SUFFICES ASSUME Init PROVE ChInv
  OBVIOUS
<1>1. FirstPrompt \in Prompts
  BY PromptAssumption
<1>2. Sound(<<>>, {}, 1) /\ ~Pending(<<>>)
  BY DEF Sound, AskedOnce, Follows, Pending
<1>3. EntryOK(System(FirstPrompt), {}, 1) /\ Plain(System(FirstPrompt))
  BY <1>1, EntryIs
<1>4. Append(<<>>, System(FirstPrompt)) = <<System(FirstPrompt)>>
  OBVIOUS
<1>5. Sound(<<System(FirstPrompt)>>, {}, 1)
  BY <1>2, <1>3, <1>4, SoundQuiet
<1>6. chat \in ChatType /\ chat.entries = <<System(FirstPrompt)>>
  BY <1>1, <1>5 DEF Init, Fresh, ChatType, Sound
<1>7. BesidesChat
  BY <1>1, BoundAssumption DEF Init, BesidesChat
<1>8. Issued /\ Running /\ OnWire
  BY DEF Init, Issued, Running, OnWire
<1>9. Sound(chat.entries, logged, nextId) /\ Sound(disk, logged, nextId)
  BY <1>2, <1>5, <1>6 DEF Init
<1> QED BY <1>6, <1>7, <1>8, <1>9, PartsAre

LEMMA ChStep ==
  ASSUME ChInv, Races = {}, [Next]_vars
  PROVE  ChInv'
<1>1. CASE \E p \in Prompts : UpdateSystemPrompt(p)
  BY <1>1, StepUpdateSystemPrompt
<1>2. CASE SendText
  BY <1>2, StepSendText
<1>3. CASE SendResults
  BY <1>3, StepSendResults
<1>4. CASE SendNone
  BY <1>4, StepSendNone
<1>5. CASE TrimContext
  BY <1>5, StepTrimContext
<1>6. CASE \E n \in 0..2 : Answer(n)
  BY <1>6, StepAnswer
<1>7. CASE Fail
  BY <1>7, StepFail
<1>8. CASE \E n \in 0..2 : LateAnswer(n)
  BY <1>8, StepLateAnswer
<1>9. CASE \E id \in Ids : RunTool(id)
  BY <1>9, StepRunTool
<1>10. CASE \E id \in Ids, n \in MoltKeeps : Molt(id, n)
  BY <1>10, StepMolt
<1>11. CASE Abandon \/ GuardStop \/ StopAfterTools
  BY <1>11, StepEnds
<1>12. CASE Heal
  BY <1>12, StepHeal
<1>13. CASE InjectPair
  BY <1>13, StepInjectPair
<1>14. CASE Restart
  BY <1>14, StepRestart
<1>15. CASE UNCHANGED vars
  BY <1>15 DEF vars, counters, ChInv, TypeOK, Issued, Running, OnWire
<1> QED BY <1>1, <1>2, <1>3, <1>4, <1>5, <1>6, <1>7, <1>8, <1>9, <1>10, <1>11, <1>12,
           <1>13, <1>14, <1>15 DEF Next

\* Every value is of its type, and no entry shows as real a result it does not
\* have, whatever was appended, cut, replayed and reloaded.
THEOREM HistoryTyped ==
  ASSUME Races = {}
  PROVE  Spec => []TypeOK
<1>1. ChInv /\ [Next]_vars => ChInv'
  BY ChStep
<1>2. ChInv => TypeOK
  BY DEF ChInv
<1> QED BY ChInit, <1>1, <1>2, PTL DEF Spec

\* With the answer of a request in the hands of one thread and no notification
\* pair put in while tools run, a request shows each call with its results next
\* to it, no id twice, and the real result of a tool that ran, after any failure,
\* roll-back, trim, molt, heal and restart.
THEOREM RequestsLegal ==
  ASSUME Races = {}
  PROVE  Spec => []HistoryLegal
<1>1. ChInv /\ [Next]_vars => ChInv'
  BY ChStep
<1>2. ASSUME ChInv PROVE HistoryLegal
  <2>1. WireValid
    BY <1>2 DEF ChInv, OnWire, Lawfully, WireValid, Entries
  <2>2. OneResultPerId
    BY <1>2 DEF ChInv, Sound, AskedOnce, OneResultPerId, Entries
  <2>3. RanIsShown
    BY <1>2 DEF ChInv, Sound, EntryOK, RanIsShown, Entries
  <2> QED BY <2>1, <2>2, <2>3 DEF HistoryLegal
<1> QED BY ChInit, <1>1, <1>2, PTL DEF Spec

-----------------------------------------------------------------------------
(* A consultation: what the cut leaves                                     *)

\* The first h entries of a chat as its system entry, and its entries from p on.
CutOf(talk, h, p) ==
  [j \in 1..(h + Len(talk) + 1 - p) |-> IF j <= h THEN "system" ELSE talk[p + j - h - 1]]

LEMMA CutIs ==
  ASSUME NEW talk \in Seq(Kinds), NEW h \in {0, 1}, NEW p \in (h + 1)..(Len(talk) + 1)
  PROVE  /\ CutOf(talk, h, p) \in Seq(Kinds)
         /\ Len(CutOf(talk, h, p)) = h + Len(talk) + 1 - p
         /\ \A j \in 1..(h + Len(talk) + 1 - p) :
              CutOf(talk, h, p)[j] = IF j <= h THEN "system" ELSE talk[p + j - h - 1]
<1> DEFINE n == h + Len(talk) + 1 - p
           f == [j \in 1..n |-> IF j <= h THEN "system" ELSE talk[p + j - h - 1]]
<1>1. Len(talk) \in Nat /\ h \in Nat /\ p \in Nat /\ n \in Nat
  OBVIOUS
<1>2. \A j \in 1..n : ~(j <= h) => p + j - h - 1 \in 1..Len(talk)
  BY <1>1
<1>3. \A j \in 1..n : f[j] \in Kinds
  BY <1>2 DEF Kinds
<1>4. f \in Seq(Kinds) /\ Len(f) = n
  <2> HIDE DEF n
  <2> QED BY <1>1, <1>3
<1> QED BY <1>4 DEF CutOf

\* A cut is the system entry in front of a part of the body.
LEMMA CutJoins ==
  ASSUME NEW talk \in Seq(Kinds), NEW head, NEW h \in {0, 1}, h <= Len(talk),
         Len(head) = h, head \in Seq({"system"}),
         NEW body \in Seq(Kinds), Len(body) = Len(talk) - h,
         \A j \in 1..Len(body) : body[j] = talk[h + j],
         NEW i \in 1..(Len(talk) - h + 1)
  PROVE  head \o SubSeq(body, i, Len(body)) = CutOf(talk, h, h + i)
<1>1. Len(talk) \in Nat /\ h \in Nat /\ i \in Nat
  OBVIOUS
<1>2. body \in Seq(Kinds) /\ Len(body) = Len(talk) - h /\ \A j \in 1..Len(body) : body[j] = talk[h + j]
  BY <1>1
<1> DEFINE rest == SubSeq(body, i, Len(body))
           c == CutOf(talk, h, h + i)
<1>3. /\ rest \in Seq(Kinds) /\ Len(rest) = Len(talk) - h + 1 - i
      /\ \A j \in 1..Len(rest) : rest[j] = talk[h + i + j - 1]
  <2>1. rest \in Seq(Kinds) /\ Len(rest) = Len(body) + 1 - i /\ \A j \in 1..Len(rest) : rest[j] = body[i + j - 1]
    BY <1>1, <1>2, SMTT(30), ZenonT(30)
  <2> HIDE DEF rest
  <2>2. \A j \in 1..Len(rest) : i + j - 1 \in 1..Len(body) /\ h + (i + j - 1) = h + i + j - 1
    BY <1>1, <1>2, <2>1
  <2> QED BY <1>1, <1>2, <2>1, <2>2
<1>4. head \in Seq(Kinds) /\ Len(head) = h /\ \A j \in 1..h : head[j] = "system"
  <2>1. \A j \in 1..h : head[j] \in {"system"}
    BY <1>1
  <2>2. {"system"} \in SUBSET Kinds
    BY DEF Kinds
  <2>3. head \in Seq(Kinds)
    BY <2>2
  <2> QED BY <2>1, <2>3
<1> HIDE DEF rest
<1>5. /\ head \o rest \in Seq(Kinds) /\ Len(head \o rest) = h + Len(rest)
      /\ \A j \in 1..(h + Len(rest)) : (head \o rest)[j] = IF j <= h THEN head[j] ELSE rest[j - h]
  BY <1>3, <1>4, JoinIs, SMTT(30), ZenonT(30)
<1>6. /\ c \in Seq(Kinds) /\ Len(c) = Len(talk) + 1 - i
      /\ \A j \in 1..(Len(talk) + 1 - i) : c[j] = IF j <= h THEN "system" ELSE talk[i + j - 1]
  <2>0. PICK p : p = h + i
    OBVIOUS
  <2>1. p \in (h + 1)..(Len(talk) + 1) /\ h + Len(talk) + 1 - p = Len(talk) + 1 - i
    BY <1>1, <2>0
  <2>2. \A j \in 1..(Len(talk) + 1 - i) : p + j - h - 1 = i + j - 1
    BY <1>1, <2>0
  <2>3. /\ CutOf(talk, h, p) \in Seq(Kinds) /\ Len(CutOf(talk, h, p)) = h + Len(talk) + 1 - p
        /\ \A j \in 1..(h + Len(talk) + 1 - p) :
             CutOf(talk, h, p)[j] = IF j <= h THEN "system" ELSE talk[p + j - h - 1]
    BY <2>1, CutIs
  <2>4. c = CutOf(talk, h, p)
    BY <2>0
  <2> HIDE DEF c
  <2>5. \A j \in 1..(Len(talk) + 1 - i) : c[j] = IF j <= h THEN "system" ELSE talk[p + j - h - 1]
    BY <2>1, <2>3, <2>4
  <2> QED BY <2>1, <2>2, <2>3, <2>4, <2>5
<1> HIDE DEF c
<1>7. ASSUME NEW j \in 1..(Len(talk) + 1 - i) PROVE (head \o rest)[j] = c[j]
  <2>0. j \in 1..(h + Len(rest))
    BY <1>1, <1>3
  <2>1. CASE j <= h
    BY <1>1, <1>4, <1>5, <1>6, <2>0, <2>1
  <2>2. CASE ~(j <= h)
    <3>0. Len(rest) \in Nat /\ j \in Nat /\ 1 <= j /\ j <= h + Len(rest)
      BY <1>1, <1>3, <2>0
    <3>1. j - h \in 1..Len(rest) /\ h + i + (j - h) - 1 = i + j - 1
      BY <1>1, <2>2, <3>0
    <3>2. rest[j - h] = talk[i + j - 1]
      BY <1>3, <3>1
    <3> QED BY <1>5, <1>6, <2>0, <2>2, <3>2
  <2> QED BY <2>1, <2>2
<1>8. head \o rest = c
  <2>1. Len(head \o rest) = Len(c) /\ Len(c) = Len(talk) + 1 - i
    BY <1>1, <1>3, <1>5, <1>6
  <2>2. head \o rest \in Seq(Kinds) /\ c \in Seq(Kinds)
    BY <1>5, <1>6
  <2>3. \A j \in 1..Len(head \o rest) : (head \o rest)[j] = c[j]
    BY <1>7, <2>1
  <2> QED BY <2>1, <2>2, <2>3, SameSeq
<1> QED BY <1>8 DEF rest, c

LEMMA SizeType ==
  ASSUME NEW S, NEW s \in Seq(S)
  PROVE  Size(s) \in Nat
<1>1. Len(s) \in Nat /\ DOMAIN s = 1..Len(s)
  OBVIOUS
<1>2. IsFiniteSet({i \in DOMAIN s : s[i] = "result"})
  <2>1. IsFiniteSet(1..Len(s)) /\ {i \in DOMAIN s : s[i] = "result"} \in SUBSET (1..Len(s))
    BY <1>1, FS_Interval
  <2> QED BY <2>1, FS_Subset
<1> QED BY <1>1, <1>2, FS_CardinalityType DEF Size

\* The system entry counts for one.
LEMMA CutSize ==
  ASSUME NEW talk \in Seq(Kinds), NEW h \in {0, 1}, NEW p \in (h + 1)..Len(talk)
  PROVE  Size(CutOf(talk, h, p)) = Size(SubSeq(talk, p, Len(talk))) + h
<1> DEFINE rest == SubSeq(talk, p, Len(talk))
           c == CutOf(talk, h, p)
           A == {i \in DOMAIN rest : rest[i] = "result"}
           B == {i \in DOMAIN c : c[i] = "result"}
           f == [i \in A |-> i + h]
<1>1. Len(talk) \in Nat /\ h \in Nat /\ p \in Nat
  OBVIOUS
<1>2. /\ rest \in Seq(Kinds) /\ Len(rest) = Len(talk) + 1 - p /\ DOMAIN rest = 1..Len(rest)
      /\ \A j \in 1..Len(rest) : rest[j] = talk[p + j - 1]
  BY <1>1
<1>3. /\ c \in Seq(Kinds) /\ Len(c) = h + Len(rest) /\ DOMAIN c = 1..Len(c)
      /\ \A j \in 1..Len(c) : c[j] = IF j <= h THEN "system" ELSE rest[j - h]
  <2>1. p \in (h + 1)..(Len(talk) + 1) /\ h + Len(talk) + 1 - p = h + Len(rest)
    BY <1>1, <1>2
  <2>2. /\ c \in Seq(Kinds) /\ Len(c) = h + Len(rest)
        /\ \A j \in 1..(h + Len(rest)) : c[j] = IF j <= h THEN "system" ELSE talk[p + j - h - 1]
    BY <2>1, CutIs, ZenonT(60)
  <2>3. \A j \in 1..(h + Len(rest)) : ~(j <= h) => j - h \in 1..Len(rest) /\ p + j - h - 1 = p + (j - h) - 1
    BY <1>1, <1>2
  <2> HIDE DEF c, rest
  <2> QED BY <1>2, <2>2, <2>3
<1> HIDE DEF rest, c
<1>4. ASSUME NEW i \in A PROVE f[i] \in B
  <2>1. i \in 1..Len(rest) /\ rest[i] = "result"
    BY <1>2
  <2>2. i + h \in 1..Len(c) /\ ~(i + h <= h) /\ (i + h) - h = i
    BY <1>1, <1>2, <1>3, <2>1, SMTT(30), ZenonT(30)
  <2> QED BY <1>3, <2>1, <2>2
<1>5. ASSUME NEW k \in B PROVE k - h \in A /\ f[k - h] = k
  <2>1. k \in 1..Len(c) /\ c[k] = "result"
    BY <1>3
  <2>2. ~(k <= h) /\ rest[k - h] = "result"
    BY <1>3, <2>1
  <2>3. k - h \in 1..Len(rest) /\ (k - h) + h = k
    BY <1>1, <1>2, <1>3, <2>1, <2>2
  <2> QED BY <1>2, <2>2, <2>3
<1>6. f \in Bijection(A, B)
  <2>1. f \in [A -> B]
    BY <1>4
  <2>2. \A i, k \in A : f[i] = f[k] => i = k
    BY <1>1, <1>2
  <2>3. \A k \in B : \E i \in A : f[i] = k
    BY <1>5
  <2> QED BY <2>1, <2>2, <2>3 DEF Bijection, Injection, Surjection, IsInjective
<1>7. IsFiniteSet(A) /\ IsFiniteSet(B)
  <2>1. A \in SUBSET (1..Len(rest)) /\ B \in SUBSET (1..Len(c)) /\ Len(rest) \in Nat /\ Len(c) \in Nat
    BY <1>2, <1>3
  <2>2. IsFiniteSet(1..Len(rest)) /\ IsFiniteSet(1..Len(c))
    BY <2>1, FS_Interval
  <2> QED BY <2>1, <2>2, FS_Subset
<1>8. Cardinality(A) = Cardinality(B) /\ Cardinality(A) \in Nat
  <2>1. ExistsBijection(A, B)
    BY <1>6 DEF ExistsBijection
  <2> QED BY <1>7, <2>1, FS_Bijection, FS_CardinalityType
<1>9. Size(c) = Len(c) + Cardinality(B) /\ Size(rest) = Len(rest) + Cardinality(A)
  BY DEF Size
<1> HIDE DEF A, B
<1>10. Size(c) = Size(rest) + h
  BY <1>1, <1>2, <1>3, <1>8, <1>9
<1> QED BY <1>10 DEF rest, c

\* The longest part that fits and is clean.
Longest(talk, h, target, p) ==
  /\ p <= Len(talk) => talk[p] # "result"
  /\ \A q \in (h + 1)..Len(talk) :
       talk[q] # "result" /\ Size(SubSeq(talk, q, Len(talk))) + h <= target => p <= q

\* What a chat that does not fit is cut to.
LEMMA FittedIs ==
  ASSUME NEW talk \in Seq(Kinds), talk # <<>>, NEW target \in Nat, target # 0,
         NEW h \in {0, 1}, h = 1 <=> Head(talk) = "system", ~(Size(talk) <= target)
  PROVE  \E p \in (h + 1)..(Len(talk) + 1) :
           Fitted(talk, target) = Healed(CutOf(talk, h, p)) /\ Longest(talk, h, target, p)
<1> DEFINE head == IF Head(talk) = "system" THEN <<"system">> ELSE <<>>
           body == SubSeq(talk, Len(head) + 1, Len(talk))
           Rest(i) == SubSeq(body, i, Len(body))
           fits == {i \in DOMAIN body : Size(head \o Rest(i)) <= target}
           first == Min(fits \cup {Len(body) + 1})
           clean == {i \in first..(Len(body) + 1) : Clean(body, i)}
           k == Min(clean)
<1>1. Len(talk) \in Nat /\ Len(talk) >= 1 /\ h \in {0, 1} /\ h <= Len(talk) /\ h \in Nat
  OBVIOUS
<1>2. head = (IF h = 1 THEN <<"system">> ELSE <<>>) /\ Len(head) = h
  OBVIOUS
<1>3. Fitted(talk, target) = Healed(head \o Rest(k))
  BY DEF Fitted
<1>4. PICK b : b = body
  OBVIOUS
<1>5. b = SubSeq(talk, h + 1, Len(talk)) /\ b \in Seq(Kinds)
  BY <1>1, <1>2, <1>4
<1>6. /\ Len(b) = Len(talk) - h /\ \A j \in 1..Len(b) : b[j] = talk[h + j]
      /\ \A i \in 1..(Len(talk) - h + 1) : head \o SubSeq(b, i, Len(b)) = CutOf(talk, h, h + i)
  <2>1. Len(b) = Len(talk) - h /\ \A j \in 1..Len(b) : b[j] = talk[h + j]
    <3>1. PICK m : m = h + 1
      OBVIOUS
    <3>2. m \in 1..(Len(talk) + 1) /\ b = SubSeq(talk, m, Len(talk)) /\ Len(talk) + 1 - m = Len(talk) - h
      BY <1>1, <1>5, <3>1
    <3>3. \A j \in 1..(Len(talk) - h) : m + j - 1 = h + j
      BY <1>1, <3>1
    <3>4. Len(b) = Len(talk) + 1 - m /\ \A j \in 1..(Len(talk) + 1 - m) : b[j] = talk[m + j - 1]
      BY <3>2, EndIs
    <3> QED BY <3>2, <3>3, <3>4
  <2>2. PICK hd : hd = head
    OBVIOUS
  <2>3. Len(hd) = h /\ hd \in Seq({"system"})
    <3>1. \A x : <<x>> \in Seq({x}) /\ <<>> \in Seq({x})
      OBVIOUS
    <3>2. hd \in {<<"system">>, <<>>}
      BY <1>2, <2>2
    <3> HIDE DEF head
    <3> QED BY <1>2, <2>2, <3>1, <3>2
  <2> HIDE DEF head
  <2>4. ASSUME NEW i \in 1..(Len(talk) - h + 1)
        PROVE  hd \o SubSeq(b, i, Len(b)) = CutOf(talk, h, h + i)
    <3>1. b \in Seq(Kinds)
      BY <1>5
    <3>2. \A j \in 1..Len(b) : b[j] = talk[h + j]
      BY <2>1
    <3>3. Len(b) = Len(talk) - h /\ h <= Len(talk)
      BY <1>1, <2>1
    <3> HIDE DEF body, Rest, fits, first, clean, k
    <3>4. h \in {0, 1} /\ h <= Len(talk) /\ Len(hd) = h /\ hd \in Seq({"system"})
      BY <1>1, <2>3
    <3> QED BY <3>1, <3>2, <3>3, <3>4, CutJoins, ZenonT(60)
  <2> QED BY <2>1, <2>2, <2>4
<1>7. Rest(k) = SubSeq(b, k, Len(b)) /\ fits = {i \in DOMAIN b : Size(head \o SubSeq(b, i, Len(b))) <= target}
      /\ clean = {i \in first..(Len(b) + 1) : Clean(b, i)} /\ first = Min(fits \cup {Len(b) + 1})
  BY <1>4
<1>8. Len(b) \in Nat /\ DOMAIN b = 1..Len(b)
  <2>1. b \in Seq(Kinds)
    BY <1>5
  <2> QED BY <2>1
<1>80. Len(b) \in Nat
  BY <1>8
<1>9. ASSUME NEW i \in 1..Len(b), Size(SubSeq(talk, h + i, Len(talk))) + h <= target PROVE i \in fits
  <2>1. h + i \in (h + 1)..Len(talk) /\ i \in 1..(Len(talk) - h + 1)
    BY <1>1, <1>6
  <2>2. Size(CutOf(talk, h, h + i)) = Size(SubSeq(talk, h + i, Len(talk))) + h
    BY <1>1, <2>1, CutSize
  <2>3. head \o SubSeq(b, i, Len(b)) = CutOf(talk, h, h + i)
    BY <1>6, <2>1
  <2>4. Size(head \o SubSeq(b, i, Len(b))) <= target
    BY <1>9, <2>2, <2>3
  <2> HIDE DEF head, fits
  <2> QED BY <1>7, <1>8, <2>4
<1>10. fits \in SUBSET (1..Len(b))
  BY <1>7, <1>8
<1>100. \A i : i \in fits => i \in Nat /\ 1 <= i /\ i <= Len(b)
  BY <1>80, <1>10
<1> HIDE DEF head, body, fits, Rest
<1>11. first \in 1..(Len(b) + 1) /\ \A i \in fits : first <= i
  <2>1. fits \cup {Len(b) + 1} \in SUBSET Nat /\ fits \cup {Len(b) + 1} # {}
    BY <1>80, <1>100
  <2>2. first \in fits \cup {Len(b) + 1} /\ \A y \in fits \cup {Len(b) + 1} : first <= y
    BY <1>7, <2>1, MinIs
  <2> HIDE DEF first
  <2> QED BY <1>80, <1>100, <2>2
<1> HIDE DEF first
<1>12. k \in clean /\ \A i \in clean : k <= i
  <2>0. Len(b) + 1 \in first..(Len(b) + 1) /\ Len(b) + 1 > Len(b)
    BY <1>80, <1>11
  <2>1. Len(b) + 1 \in clean
    BY <1>7, <2>0 DEF Clean
  <2>2. clean \in SUBSET Nat
    <3>1. \A i \in first..(Len(b) + 1) : i \in Nat
      BY <1>80, <1>11
    <3> QED BY <1>7, <3>1
  <2> QED BY <2>1, <2>2, MinIs
<1>13. k \in 1..(Len(b) + 1) /\ Clean(b, k)
  BY <1>7, <1>8, <1>11, <1>12
<1> HIDE DEF clean, k
<1>14. PICK p : p = h + k
  OBVIOUS
<1>15. p \in (h + 1)..(Len(talk) + 1) /\ k \in 1..(Len(talk) - h + 1)
  BY <1>1, <1>6, <1>13, <1>14
<1>16. head \o Rest(k) = CutOf(talk, h, p)
  <2>1. head \o SubSeq(b, k, Len(b)) = CutOf(talk, h, h + k)
    BY <1>6, <1>15
  <2> QED BY <1>7, <1>14, <2>1
<1>17. p <= Len(talk) => talk[p] # "result"
  <2> SUFFICES ASSUME p <= Len(talk) PROVE talk[p] # "result"
    OBVIOUS
  <2>1. k \in 1..Len(b) /\ ~(k > Len(b))
    BY <1>1, <1>6, <1>13, <1>14
  <2>2. b[k] # "result" /\ b[k] = talk[h + k]
    BY <1>6, <1>13, <2>1 DEF Clean
  <2> QED BY <1>14, <2>2
<1>18. ASSUME NEW q \in (h + 1)..Len(talk), talk[q] # "result",
              Size(SubSeq(talk, q, Len(talk))) + h <= target
       PROVE  p <= q
  <2>1. PICK i : i = q - h
    OBVIOUS
  <2>2. i \in 1..Len(b) /\ h + i = q
    BY <1>1, <1>6, <2>1
  <2>3. i \in fits
    BY <1>9, <1>18, <2>2
  <2>4. b[i] # "result"
    BY <1>6, <1>18, <2>2
  <2>5. i \in clean
    BY <1>7, <1>8, <1>11, <2>2, <2>3, <2>4 DEF Clean
  <2> QED BY <1>1, <1>12, <1>13, <1>14, <2>1, <2>2, <2>5
<1>19. Longest(talk, h, target, p)
  BY <1>17, <1>18 DEF Longest
<1> QED BY <1>3, <1>15, <1>16, <1>19

\* A chat that keeps to the rule from end to end.
Lawful(talk) == talk \in Seq(Kinds) /\ \A i \in DOMAIN talk : Legal(talk, i)

LEMMA HealedIs ==
  ASSUME NEW talk, Lawful(talk)
  PROVE  Lawful(Healed(talk)) /\ ~EndsInCall(Healed(talk))
<1>1. talk \in Seq(Kinds) /\ Len(talk) \in Nat /\ DOMAIN talk = 1..Len(talk)
  BY DEF Lawful
<1>2. CASE ~EndsInCall(talk)
  BY <1>2 DEF Healed
<1>3. CASE EndsInCall(talk)
  <2> DEFINE c == Append(talk, "result")
  <2>1. talk # <<>> /\ talk[Len(talk)] = "call" /\ Len(talk) >= 1
    BY <1>1, <1>3 DEF EndsInCall, Last
  <2>2. "result" \in Kinds
    BY DEF Kinds
  <2>3. /\ c \in Seq(Kinds) /\ Len(c) = Len(talk) + 1 /\ DOMAIN c = 1..(Len(talk) + 1)
        /\ c[Len(talk) + 1] = "result" /\ \A i \in 1..Len(talk) : c[i] = talk[i]
    BY <1>1, <2>2
  <2> HIDE DEF c
  <2>4. ASSUME NEW i \in 1..(Len(talk) + 1) PROVE Legal(c, i)
    <3>1. CASE i = Len(talk) + 1
      <4>1. c[i] = "result" /\ i > 1 /\ i - 1 = Len(talk) /\ Len(talk) \in 1..Len(talk)
        BY <1>1, <2>1, <2>3, <3>1
      <4> QED BY <2>1, <2>3, <4>1 DEF Legal
    <3>2. CASE i # Len(talk) + 1
      <4>1. i \in 1..Len(talk) /\ (i > 1 => i - 1 \in 1..Len(talk))
        BY <1>1, <3>2
      <4>2. Legal(talk, i)
        BY <1>1, <4>1 DEF Lawful
      <4> QED BY <2>3, <4>1, <4>2 DEF Legal
    <3> QED BY <3>1, <3>2
  <2>5. Lawful(c)
    BY <2>3, <2>4 DEF Lawful
  <2>6. ~EndsInCall(c)
    BY <1>1, <2>3 DEF EndsInCall, Last
  <2> QED BY <1>3, <2>5, <2>6 DEF Healed, c
<1> QED BY <1>2, <1>3

\* A cut that does not start with a result is lawful.
LEMMA CutLawful ==
  ASSUME NEW talk, Lawful(talk), NEW h \in {0, 1}, NEW p \in (h + 1)..(Len(talk) + 1),
         p <= Len(talk) => talk[p] # "result"
  PROVE  Lawful(CutOf(talk, h, p))
<1> DEFINE c == CutOf(talk, h, p)
           n == h + Len(talk) + 1 - p
<1>1. talk \in Seq(Kinds) /\ Len(talk) \in Nat /\ DOMAIN talk = 1..Len(talk) /\ h \in Nat /\ p \in Nat
  BY DEF Lawful
<1>2. /\ c \in Seq(Kinds) /\ Len(c) = n /\ DOMAIN c = 1..n
      /\ \A j \in 1..n : c[j] = IF j <= h THEN "system" ELSE talk[p + j - h - 1]
  <2>1. c \in Seq(Kinds) /\ Len(c) = n /\ \A j \in 1..n : c[j] = IF j <= h THEN "system" ELSE talk[p + j - h - 1]
    BY <1>1, CutIs
  <2> HIDE DEF c, n
  <2> QED BY <2>1
<1> HIDE DEF c
<1>3. ASSUME NEW j \in 1..n PROVE Legal(c, j)
  <2>1. CASE j <= h
    <3>1. j = 1 /\ c[j] = "system"
      BY <1>1, <1>2, <2>1
    <3> QED BY <3>1 DEF Legal
  <2>2. CASE j = h + 1
    <3>1. c[j] = talk[p] /\ p <= Len(talk)
      BY <1>1, <1>2, <2>2
    <3>2. c[j] # "result"
      BY <3>1
    <3>3. j > 1 => c[j - 1] = "system"
      BY <1>1, <1>2, <2>2
    <3> QED BY <3>2, <3>3 DEF Legal
  <2>3. CASE j > h + 1
    <3>1. PICK i : i = p + j - h - 1
      OBVIOUS
    <3>2. i \in 1..Len(talk) /\ i - 1 \in 1..Len(talk) /\ i > 1 /\ j > 1 /\ c[j] = talk[i]
      BY <1>1, <1>2, <2>3, <3>1
    <3>3. c[j - 1] = talk[i - 1]
      <4>1. j - 1 \in 1..n /\ ~(j - 1 <= h) /\ p + (j - 1) - h - 1 = i - 1
        BY <1>1, <2>3, <3>1
      <4> QED BY <1>2, <4>1
    <3>4. Legal(talk, i)
      BY <1>1, <3>2 DEF Lawful
    <3> QED BY <3>2, <3>3, <3>4 DEF Legal
  <2> QED BY <1>1, <2>1, <2>2, <2>3
<1> QED BY <1>2, <1>3 DEF Lawful, c

\* A consultation sends a lawful chat that is answered.
LEMMA FittedLawful ==
  ASSUME NEW talk, Lawful(talk), NEW target \in Nat
  PROVE  Lawful(Fitted(talk, target)) /\ ~EndsInCall(Fitted(talk, target))
<1>1. CASE target = 0 \/ talk = <<>>
  <2>1. Fitted(talk, target) = <<>>
    BY <1>1 DEF Fitted
  <2>2. Lawful(<<>>) /\ ~EndsInCall(<<>>)
    BY DEF Lawful, EndsInCall
  <2> QED BY <2>1, <2>2
<1>2. CASE ~(target = 0 \/ talk = <<>>) /\ Size(talk) <= target
  <2>1. Fitted(talk, target) = Healed(talk)
    BY <1>2 DEF Fitted
  <2> QED BY <2>1, HealedIs
<1>3. CASE ~(target = 0 \/ talk = <<>>) /\ ~(Size(talk) <= target)
  <2>1. PICK h \in {0, 1} : h = 1 <=> Head(talk) = "system"
    OBVIOUS
  <2>2. talk \in Seq(Kinds) /\ h \in {0, 1}
    BY <2>1 DEF Lawful
  <2>3. PICK p \in (h + 1)..(Len(talk) + 1) :
          Fitted(talk, target) = Healed(CutOf(talk, h, p)) /\ Longest(talk, h, target, p)
    BY <1>3, <2>1, <2>2, FittedIs
  <2>4. Lawful(CutOf(talk, h, p))
    BY <2>2, <2>3, CutLawful DEF Longest
  <2> QED BY <2>3, <2>4, HealedIs
<1> QED BY <1>1, <1>2, <1>3

-----------------------------------------------------------------------------
(* A consultation: its steps                                               *)

\* What is sent is the cut until the spark, and lawful; it is answered when something is due to
\* go out, and ends in the calls that are refused.
CsInv ==
  /\ Lawful(csChat) /\ csTarget \in 0..CsWindow
  /\ Lawful(csWire) /\ csBlocks \in Seq(Kinds)
  /\ csAt \in {"fit", "spark", "sent", "refuse", "over", "none"} /\ csRound \in 0..CsRounds
  /\ csAt \in {"fit", "spark"} => csRound = 0
  /\ csAt = "sent" => csRound < CsRounds
  /\ csAt = "spark" => csWire = Fitted(csChat, csTarget) /\ csWire # <<>>
  /\ csAt \in {"spark", "sent"} => ~EndsInCall(csWire)
  /\ csAt = "refuse" => EndsInCall(csWire)

\* A lawful chat goes on with a result behind a call and with anything else behind
\* anything else.
LEMMA LawfulAppend ==
  ASSUME NEW talk, Lawful(talk), NEW kind \in Kinds, EndsInCall(talk) <=> kind = "result"
  PROVE  Lawful(Append(talk, kind)) /\ (EndsInCall(Append(talk, kind)) <=> kind = "call")
<1> DEFINE c == Append(talk, kind)
<1>1. talk \in Seq(Kinds) /\ Len(talk) \in Nat /\ DOMAIN talk = 1..Len(talk)
  BY DEF Lawful
<1>2. /\ c \in Seq(Kinds) /\ Len(c) = Len(talk) + 1 /\ DOMAIN c = 1..(Len(talk) + 1)
      /\ c[Len(talk) + 1] = kind /\ \A i \in 1..Len(talk) : c[i] = talk[i]
  BY <1>1
<1>3. EndsInCall(talk) <=> Len(talk) >= 1 /\ talk[Len(talk)] = "call"
  <2>1. talk # <<>> <=> Len(talk) >= 1
    BY <1>1
  <2> QED BY <2>1 DEF EndsInCall, Last
<1>4. EndsInCall(c) <=> kind = "call"
  <2>1. c # <<>>
    BY <1>1
  <2> HIDE DEF c
  <2> QED BY <1>2, <2>1 DEF EndsInCall, Last
<1> HIDE DEF c
<1>5. ASSUME NEW i \in 1..(Len(talk) + 1) PROVE Legal(c, i)
  <2>1. CASE i = Len(talk) + 1
    <3>1. i - 1 = Len(talk) /\ (i > 1 <=> Len(talk) >= 1) /\ (i > 1 => i - 1 \in 1..Len(talk)) /\ c[i] = kind
      BY <1>1, <1>2, <2>1
    <3>2. i > 1 => c[i - 1] = talk[Len(talk)]
      BY <1>2, <3>1
    <3> QED BY <1>3, <3>1, <3>2 DEF Legal
  <2>2. CASE i # Len(talk) + 1
    <3>1. i \in 1..Len(talk) /\ (i > 1 => i - 1 \in 1..Len(talk))
      BY <1>1, <2>2
    <3>2. Legal(talk, i)
      BY <1>1, <3>1 DEF Lawful
    <3> QED BY <1>2, <3>1, <3>2 DEF Legal
  <2> QED BY <2>1, <2>2
<1>6. Lawful(c)
  BY <1>2, <1>5 DEF Lawful
<1> QED BY <1>4, <1>6 DEF c

LEMMA CsFirst == CsInit => CsInv
<1> SUFFICES ASSUME CsInit PROVE CsInv
  OBVIOUS
<1>1. csChat \in Seq(Kinds)
  <2>1. CsLength \in Nat
    BY ConsultationAssumption
  <2>2. PICK m \in 0..CsLength : csChat \in [1..m -> Kinds]
    BY DEF CsInit, Snapshots, SeqOf
  <2> QED BY <2>1, <2>2
<1>2. Lawful(csChat)
  BY <1>1 DEF CsInit, Snapshots, Lawful
<1>3. Lawful(<<>>) /\ <<>> \in Seq(Kinds)
  BY DEF Lawful
<1>4. 0 \in 0..CsRounds
  BY ConsultationAssumption
<1> QED BY <1>2, <1>3, <1>4 DEF CsInit, CsInv

LEMMA CsStep == CsInv /\ [CsNext]_csVars => CsInv'
<1> SUFFICES ASSUME CsInv, [CsNext]_csVars PROVE CsInv'
  OBVIOUS
<1>0. CsWindow \in Nat /\ CsRounds \in Nat /\ CsRounds # 0 /\ csRound \in Nat /\ csRound <= CsRounds
  BY ConsultationAssumption DEF CsInv
<1>1. CASE CsFits
  <2>1. csTarget \in Nat
    BY <1>0 DEF CsInv
  <2>2. Lawful(csWire') /\ ~EndsInCall(csWire')
    <3>1. csWire' = Fitted(csChat, csTarget) /\ Lawful(csChat)
      BY <1>1 DEF CsFits, CsInv
    <3> QED BY <2>1, <3>1, FittedLawful
  <2> QED BY <1>0, <1>1, <2>2 DEF CsFits, CsInv
<1>2. CASE CsSparks
  <2>1. CASE EndsInCall(csWire)
    BY <1>2, <2>1 DEF CsSparks, CsInv
  <2>2. CASE ~EndsInCall(csWire)
    <3>1. "user" \in Kinds
      BY DEF Kinds
    <3>2. Lawful(csWire') /\ ~EndsInCall(csWire')
      <4>1. csWire' = Append(csWire, "user") /\ Lawful(csWire)
        BY <1>2, <2>2 DEF CsSparks, CsInv
      <4> QED BY <2>2, <3>1, <4>1, LawfulAppend
    <3> QED BY <1>0, <1>2, <2>2, <3>2 DEF CsSparks, CsInv
  <2> QED BY <2>1, <2>2
<1>3. CASE CsAnswers
  <2>1. PICK kind \in {"text", "call"} :
          /\ csWire' = Append(csWire, kind) /\ csBlocks' = Append(csBlocks, kind)
          /\ csAt' = IF kind = "call" THEN "refuse" ELSE "over"
    BY <1>3 DEF CsAnswers
  <2>2. kind \in Kinds
    BY DEF Kinds
  <2>3. Lawful(csWire') /\ (EndsInCall(csWire') <=> kind = "call")
    <3>1. Lawful(csWire) /\ ~EndsInCall(csWire)
      BY <1>3 DEF CsAnswers, CsInv
    <3> QED BY <2>1, <2>2, <3>1, LawfulAppend
  <2>4. csBlocks' \in Seq(Kinds)
    BY <2>1, <2>2 DEF CsInv
  <2>5. csRound' \in 0..CsRounds
    BY <1>0, <1>3 DEF CsAnswers, CsInv
  <2> QED BY <1>3, <2>1, <2>3, <2>4, <2>5 DEF CsAnswers, CsInv
<1>4. CASE CsRefuses
  <2>1. "result" \in Kinds
    BY DEF Kinds
  <2>2. csBlocks' \in Seq(Kinds)
    BY <1>4, <2>1 DEF CsRefuses, CsInv
  <2>3. CASE csRound < CsRounds
    <3>1. Lawful(csWire') /\ ~EndsInCall(csWire')
      <4>1. csWire' = Append(csWire, "result") /\ Lawful(csWire) /\ EndsInCall(csWire)
        BY <1>4, <2>3 DEF CsRefuses, CsInv
      <4> QED BY <2>1, <4>1, LawfulAppend
    <3> QED BY <1>4, <2>2, <2>3, <3>1 DEF CsRefuses, CsInv
  <2>4. CASE ~(csRound < CsRounds)
    BY <1>4, <2>2, <2>4 DEF CsRefuses, CsInv
  <2> QED BY <2>3, <2>4
<1>5. CASE CsNoAnswer
  BY <1>5 DEF CsNoAnswer, CsInv
<1>6. CASE UNCHANGED csVars
  BY <1>6 DEF csVars, CsInv
<1> QED BY <1>1, <1>2, <1>3, <1>4, <1>5, <1>6 DEF CsNext

LEMMA CsAlways == CsSpec => []CsInv
BY CsFirst, CsStep, PTL DEF CsSpec

\* The ends of two sequences agree.
LEMMA SuffixIs ==
  ASSUME NEW S, NEW s \in Seq(S), NEW t \in Seq(S), Len(s) <= Len(t),
         \A i \in 1..Len(s) : s[i] = t[Len(t) - Len(s) + i]
  PROVE  IsSuffix(s, t)
<1> DEFINE a == Reverse(s)
           b == Reverse(t)
<1>1. Len(s) \in Nat /\ Len(t) \in Nat
  OBVIOUS
<1>2. \A i \in 1..Len(s) : Len(s) - i + 1 \in 1..Len(s)
  BY <1>1
<1>3. \A i \in 1..Len(t) : Len(t) - i + 1 \in 1..Len(t)
  BY <1>1
<1>4. a \in Seq(S) /\ Len(a) = Len(s) /\ \A i \in 1..Len(s) : a[i] = s[Len(s) - i + 1]
  BY <1>1, <1>2 DEF Reverse
<1>5. b \in Seq(S) /\ Len(b) = Len(t) /\ \A i \in 1..Len(t) : b[i] = t[Len(t) - i + 1]
  BY <1>1, <1>3 DEF Reverse
<1> HIDE DEF a, b
<1>6. ASSUME NEW i \in 1..Len(s) PROVE a[i] = b[i]
  <2>1. Len(s) - i + 1 \in 1..Len(s) /\ Len(t) - Len(s) + (Len(s) - i + 1) = Len(t) - i + 1 /\ i \in 1..Len(t)
    BY <1>1
  <2>2. s[Len(s) - i + 1] = t[Len(t) - i + 1]
    BY <2>1
  <2> QED BY <1>4, <1>5, <2>1, <2>2
<1>7. SubSeq(a, 1, Len(a)) = SubSeq(b, 1, Len(a))
  <2>1. /\ SubSeq(a, 1, Len(a)) \in Seq(S) /\ Len(SubSeq(a, 1, Len(a))) = Len(s)
        /\ \A i \in 1..Len(s) : SubSeq(a, 1, Len(a))[i] = a[i]
    BY <1>1, <1>4
  <2>2. /\ SubSeq(b, 1, Len(a)) \in Seq(S) /\ Len(SubSeq(b, 1, Len(a))) = Len(s)
        /\ \A i \in 1..Len(s) : SubSeq(b, 1, Len(a))[i] = b[i]
    BY <1>1, <1>4, <1>5
  <2>3. \A i \in 1..Len(SubSeq(a, 1, Len(a))) : SubSeq(a, 1, Len(a))[i] = SubSeq(b, 1, Len(a))[i]
    BY <1>6, <2>1, <2>2
  <2> QED BY <2>1, <2>2, <2>3, SameSeq
<1> QED BY <1>4, <1>5, <1>7 DEF IsSuffix, IsPrefix, a, b

\* The longest clean end of a chat that does not fit is the end of what is sent.
LEMMA CutEnds ==
  ASSUME NEW talk \in Seq(Kinds), NEW h \in {0, 1}, NEW p \in (h + 1)..(Len(talk) + 1),
         NEW i \in (h + 1)..Len(talk), p <= i,
         NEW rest \in Seq(Kinds), Len(rest) = Len(talk) + 1 - i,
         \A j \in 1..Len(rest) : rest[j] = talk[i + j - 1]
  PROVE  \/ IsSuffix(rest, Healed(CutOf(talk, h, p)))
         \/ IsSuffix(Append(rest, "result"), Healed(CutOf(talk, h, p)))
<1> DEFINE c == CutOf(talk, h, p)
<1>1. Len(talk) \in Nat /\ h \in Nat /\ p \in Nat /\ i \in Nat /\ Len(rest) \in Nat
  OBVIOUS
<1>2. /\ c \in Seq(Kinds) /\ Len(c) = h + Len(talk) + 1 - p
      /\ \A j \in 1..(h + Len(talk) + 1 - p) : c[j] = IF j <= h THEN "system" ELSE talk[p + j - h - 1]
  BY CutIs
<1> HIDE DEF c
<1>3. Len(rest) <= Len(c) /\ Len(c) \in Nat
  BY <1>1, <1>2
<1>4. ASSUME NEW j \in 1..Len(rest) PROVE rest[j] = c[Len(c) - Len(rest) + j]
  <2>1. PICK m : m = Len(c) - Len(rest) + j
    OBVIOUS
  <2>2. m \in 1..(h + Len(talk) + 1 - p) /\ ~(m <= h) /\ p + m - h - 1 = i + j - 1
    BY <1>1, <1>2, <1>3, <2>1
  <2>3. c[m] = talk[i + j - 1] /\ rest[j] = talk[i + j - 1]
    BY <1>2, <2>2
  <2> QED BY <2>1, <2>3
<1>5. CASE ~EndsInCall(c)
  <2>1. IsSuffix(rest, c)
    BY <1>2, <1>3, <1>4, SuffixIs
  <2> QED BY <1>5, <2>1 DEF Healed, c
<1>6. CASE EndsInCall(c)
  <2>1. "result" \in Kinds
    BY DEF Kinds
  <2>2. PICK r : r = Append(rest, "result")
    OBVIOUS
  <2>3. PICK d : d = Append(c, "result")
    OBVIOUS
  <2>4. /\ r \in Seq(Kinds) /\ Len(r) = Len(rest) + 1 /\ r[Len(rest) + 1] = "result"
        /\ \A j \in 1..Len(rest) : r[j] = rest[j]
    <3>1. \A s \in Seq(Kinds) :
            /\ Append(s, "result") \in Seq(Kinds) /\ Len(Append(s, "result")) = Len(s) + 1
            /\ Append(s, "result")[Len(s) + 1] = "result"
            /\ \A j \in 1..Len(s) : Append(s, "result")[j] = s[j]
      BY <2>1, AppendIs
    <3> QED BY <2>2, <3>1
  <2>5. /\ d \in Seq(Kinds) /\ Len(d) = Len(c) + 1 /\ d[Len(c) + 1] = "result"
        /\ \A j \in 1..Len(c) : d[j] = c[j]
    <3>1. c \in Seq(Kinds)
      BY <1>2
    <3> QED BY <2>1, <2>3, <3>1, AppendIs
  <2>6. ASSUME NEW j \in 1..Len(r) PROVE r[j] = d[Len(d) - Len(r) + j]
    <3>1. CASE j = Len(rest) + 1
      <4>1. Len(d) - Len(r) + j = Len(c) + 1
        BY <1>1, <1>3, <2>4, <2>5, <3>1
      <4> QED BY <2>4, <2>5, <3>1, <4>1
    <3>2. CASE j # Len(rest) + 1
      <4>0. /\ Len(rest) \in Nat /\ Len(c) \in Nat /\ Len(rest) <= Len(c)
            /\ Len(d) = Len(c) + 1 /\ Len(r) = Len(rest) + 1
        BY <1>1, <1>3, <2>4, <2>5
      <4>10. j \in 1..Len(rest)
        BY <3>2, <4>0
      <4>1. j \in 1..Len(rest) /\ Len(d) - Len(r) + j = Len(c) - Len(rest) + j
            /\ Len(c) - Len(rest) + j \in 1..Len(c)
        BY <4>0, <4>10
      <4> QED BY <1>4, <2>4, <2>5, <4>1
    <3> QED BY <3>1, <3>2
  <2>7. IsSuffix(r, d)
    <3>1. Len(r) <= Len(d)
      BY <1>1, <1>3, <2>4, <2>5
    <3> QED BY <2>4, <2>5, <2>6, <3>1, SuffixIs
  <2>8. Healed(CutOf(talk, h, p)) = d
    BY <1>6, <2>3 DEF Healed, c
  <2> QED BY <2>2, <2>7, <2>8
<1> QED BY <1>5, <1>6

LEMMA CsLegal == CsInv => ConsultsLegally
<1> SUFFICES ASSUME CsInv PROVE ConsultsLegally
  OBVIOUS
<1>1. \A i \in DOMAIN csWire : Legal(csWire, i)
  BY DEF CsInv, Lawful
<1>2. csAt \in {"spark", "sent"} => ~EndsInCall(csWire)
  BY DEF CsInv
<1>3. ASSUME csAt = "spark", Size(csChat) > csTarget, NEW i \in DOMAIN csChat,
             NEW rest, rest = SubSeq(csChat, i, Len(csChat)), rest[1] # "result",
             Size(rest) + (IF csChat[1] = "system" THEN 1 ELSE 0) <= csTarget
      PROVE  IsSuffix(rest, csWire) \/ IsSuffix(Append(rest, "result"), csWire)
  <2>1. csChat \in Seq(Kinds) /\ Len(csChat) \in Nat /\ DOMAIN csChat = 1..Len(csChat)
        /\ csTarget \in Nat /\ Size(csChat) \in Nat
    <3>1. csChat \in Seq(Kinds) /\ csTarget \in Nat
      BY ConsultationAssumption DEF CsInv, Lawful
    <3>2. Size(csChat) \in Nat
      BY <3>1, SizeType
    <3> QED BY <3>1, <3>2
  <2>2. csWire = Fitted(csChat, csTarget) /\ csWire # <<>>
    BY <1>3 DEF CsInv
  <2>3. csTarget # 0 /\ csChat # <<>> /\ ~(Size(csChat) <= csTarget)
    BY <1>3, <2>1, <2>2 DEF Fitted
  <2>4. PICK h \in {0, 1} : h = 1 <=> Head(csChat) = "system"
    OBVIOUS
  <2>5. PICK p \in (h + 1)..(Len(csChat) + 1) :
          csWire = Healed(CutOf(csChat, h, p)) /\ Longest(csChat, h, csTarget, p)
    BY <2>1, <2>2, <2>3, <2>4, FittedIs
  <2>6. (IF csChat[1] = "system" THEN 1 ELSE 0) = h
    BY <2>1, <2>3, <2>4
  <2>7. rest \in Seq(Kinds) /\ Len(rest) = Len(csChat) + 1 - i /\ \A j \in 1..Len(rest) : rest[j] = csChat[i + j - 1]
    <3>1. i \in 1..(Len(csChat) + 1)
      BY <2>1
    <3> QED BY <1>3, <2>1, <3>1, EndIs
  <2>8. rest[1] = csChat[i] /\ Size(rest) \in Nat
    <3>1. 1 \in 1..Len(rest) /\ i + 1 - 1 = i
      BY <2>1, <2>7
    <3> QED BY <2>7, <3>1, SizeType
  <2>9. i \in (h + 1)..Len(csChat)
    <3>1. CASE i = 1
      <4>1. rest = csChat
        BY <1>3, <2>1, <3>1
      <4> QED BY <1>3, <2>1, <2>3, <2>4, <2>6, <4>1
    <3>2. CASE i # 1
      BY <2>1, <3>2
    <3> QED BY <3>1, <3>2
  <2>10. p <= i
    <3>1. Size(SubSeq(csChat, i, Len(csChat))) + h <= csTarget /\ csChat[i] # "result"
      BY <1>3, <2>6, <2>8
    <3> QED BY <2>5, <2>9, <3>1 DEF Longest
  <2> QED BY <2>1, <2>5, <2>7, <2>9, <2>10, CutEnds
<1>4. csAt = "spark" /\ Size(csChat) > csTarget =>
        \A i \in DOMAIN csChat :
          LET rest == SubSeq(csChat, i, Len(csChat))
          IN /\ rest[1] # "result"
             /\ Size(rest) + (IF csChat[1] = "system" THEN 1 ELSE 0) <= csTarget
             => IsSuffix(rest, csWire) \/ IsSuffix(Append(rest, "result"), csWire)
  BY <1>3
<1> QED BY <1>1, <1>2, <1>4 DEF ConsultsLegally

\* What a consultation sends is legal, and a cut keeps the longest end of the chat that could be,
\* for chats of any length and any window (intrinsics/soul/consultation.py).
THEOREM ConsultsAlways == CsSpec => []ConsultsLegally
BY CsAlways, CsLegal, PTL

\* Every value of a consultation is of its type.
LEMMA CsTyped == CsInv => CsTypeOK
BY DEF CsInv, CsTypeOK, Lawful

-----------------------------------------------------------------------------
(* The timed-call inbox: what queueing and splicing keep                   *)

TcItem  == [n : 1..TcItems, source : TcSources]
TcEntry == [n : 0..TcItems, source : TcSources \cup {"agent"}]

\* No number twice; 0 is a turn of the agent's own.
OnceEach(seq) == \A i, j \in DOMAIN seq : seq[i].n = seq[j].n /\ seq[i].n # 0 => i = j

\* One pair at most of a source that keeps one.
KeepsOne(seq) == \A s \in TcKeepsOne : \A i, j \in PlacesOf(seq, s) : i = j

QueueOK(queue) == queue \in Seq(TcItem) /\ OnceEach(queue) /\ KeepsOne(queue)

\* The pair a source has in the chat is the one tracked for it.
WireOK(wire, tracked) ==
  /\ wire \in Seq(TcEntry) /\ tracked \in [TcKeepsOne -> 0..TcItems] /\ OnceEach(wire)
  /\ \A i \in DOMAIN wire : wire[i].n = 0 <=> wire[i].source = "agent"
  /\ \A s \in TcKeepsOne : \A i \in PlacesOf(wire, s) : wire[i].n = tracked[s]

LEMMA WireKeepsOne ==
  ASSUME NEW wire, NEW tracked, WireOK(wire, tracked)
  PROVE  KeepsOne(wire)
<1> SUFFICES ASSUME NEW s \in TcKeepsOne, NEW i \in PlacesOf(wire, s), NEW j \in PlacesOf(wire, s)
             PROVE  i = j
  BY DEF KeepsOne
<1>1. i \in DOMAIN wire /\ j \in DOMAIN wire /\ wire[i].source = s
  BY DEF PlacesOf
<1>2. wire[i].n = tracked[s] /\ wire[j].n = tracked[s]
  BY DEF WireOK
<1>3. s # "agent"
  BY TimedCallAssumption
<1>4. wire[i].n # 0
  BY <1>1, <1>3 DEF WireOK
<1> QED BY <1>1, <1>2, <1>4 DEF WireOK, OnceEach

LEMMA FirstIs ==
  ASSUME NEW S, NEW seq \in Seq(S), NEW s, PlacesOf(seq, s) # {}
  PROVE  FirstOf(seq, s) \in DOMAIN seq /\ seq[FirstOf(seq, s)].source = s
<1>1. PlacesOf(seq, s) \in SUBSET Nat
  BY DEF PlacesOf
<1>2. \E i \in PlacesOf(seq, s) : \A j \in PlacesOf(seq, s) : i <= j
  BY <1>1, Least
<1>3. FirstOf(seq, s) \in PlacesOf(seq, s)
  BY <1>2 DEF FirstOf
<1> QED BY <1>3 DEF PlacesOf

\* One more is queued.
LEMMA QueuedKeeps ==
  ASSUME NEW queue, QueueOK(queue), NEW item \in TcItem, item.n \notin Numbers(queue)
  PROVE  QueueOK(Queued(queue, item)) /\ Numbers(Queued(queue, item)) \subseteq Numbers(queue) \cup {item.n}
<1> DEFINE new == Queued(queue, item)
<1>1. queue \in Seq(TcItem) /\ Len(queue) \in Nat /\ DOMAIN queue = 1..Len(queue)
  BY DEF QueueOK
<1>2. item.n # 0 /\ \A i \in DOMAIN queue : queue[i].n # 0 /\ queue[i].n # item.n
  <2>1. TcItems \in Nat
    BY TimedCallAssumption
  <2>2. \A e \in TcItem : e.n # 0
    BY <2>1 DEF TcItem
  <2>3. \A i \in DOMAIN queue : queue[i] \in TcItem
    BY <1>1
  <2> QED BY <2>2, <2>3 DEF Numbers
<1>3. CASE item.source \in TcKeepsOne /\ PlacesOf(queue, item.source) # {}
  <2>1. PICK f : f = FirstOf(queue, item.source)
    OBVIOUS
  <2>2. f \in DOMAIN queue /\ queue[f].source = item.source
    BY <1>1, <1>3, <2>1, FirstIs
  <2>3. new = [queue EXCEPT ![f] = item]
    BY <1>3, <2>1 DEF Queued
  <2>4. /\ new \in Seq(TcItem) /\ DOMAIN new = DOMAIN queue /\ new[f] = item
        /\ \A i \in DOMAIN queue : i # f => new[i] = queue[i]
    BY <1>1, <2>2, <2>3
  <2> HIDE DEF new
  <2>5. OnceEach(new)
    BY <1>2, <2>2, <2>4 DEF QueueOK, OnceEach
  <2>6. \A i \in DOMAIN queue : new[i].source = queue[i].source
    BY <2>2, <2>4
  <2>7. \A s \in TcKeepsOne : PlacesOf(new, s) = PlacesOf(queue, s)
    BY <2>4, <2>6 DEF PlacesOf
  <2>8. KeepsOne(new)
    BY <2>7 DEF QueueOK, KeepsOne
  <2>9. Numbers(new) \subseteq Numbers(queue) \cup {item.n}
    BY <2>4 DEF Numbers
  <2> QED BY <2>4, <2>5, <2>8, <2>9 DEF QueueOK, new
<1>4. CASE ~(item.source \in TcKeepsOne /\ PlacesOf(queue, item.source) # {})
  <2> DEFINE L == Len(queue)
  <2>1. new = Append(queue, item)
    BY <1>4 DEF Queued
  <2>2. /\ new \in Seq(TcItem) /\ DOMAIN new = 1..(L + 1) /\ new[L + 1] = item
        /\ \A i \in 1..L : new[i] = queue[i]
    BY <1>1, <2>1
  <2>3. \A i \in 1..(L + 1) : i = L + 1 \/ i \in 1..L
    BY <1>1
  <2> HIDE DEF new
  <2>4. OnceEach(new)
    <3> SUFFICES ASSUME NEW i \in 1..(L + 1), NEW j \in 1..(L + 1), new[i].n = new[j].n PROVE i = j
      BY <2>2 DEF OnceEach
    <3>1. CASE i \in 1..L /\ j \in 1..L
      BY <1>1, <1>2, <2>2, <3>1 DEF QueueOK, OnceEach
    <3>2. CASE ~(i \in 1..L /\ j \in 1..L)
      BY <1>1, <1>2, <2>2, <2>3, <3>2
    <3> QED BY <3>1, <3>2
  <2>5. KeepsOne(new)
    <3> SUFFICES ASSUME NEW s \in TcKeepsOne, NEW i \in 1..(L + 1), NEW j \in 1..(L + 1),
                        new[i].source = s, new[j].source = s
                 PROVE  i = j
      BY <2>2 DEF KeepsOne, PlacesOf
    <3>1. CASE i \in 1..L /\ j \in 1..L
      <4>1. i \in PlacesOf(queue, s) /\ j \in PlacesOf(queue, s)
        BY <1>1, <2>2, <3>1 DEF PlacesOf
      <4> QED BY <4>1 DEF QueueOK, KeepsOne
    <3>2. CASE i = L + 1 /\ j \in 1..L
      <4>1. item.source = s /\ j \in PlacesOf(queue, s)
        BY <1>1, <2>2, <3>2 DEF PlacesOf
      <4> QED BY <1>4, <4>1
    <3>3. CASE j = L + 1 /\ i \in 1..L
      <4>1. item.source = s /\ i \in PlacesOf(queue, s)
        BY <1>1, <2>2, <3>3 DEF PlacesOf
      <4> QED BY <1>4, <4>1
    <3> QED BY <2>3, <3>1, <3>2, <3>3
  <2>6. Numbers(new) \subseteq Numbers(queue) \cup {item.n}
    BY <1>1, <2>2, <2>3 DEF Numbers
  <2> QED BY <2>2, <2>4, <2>5, <2>6 DEF QueueOK, new
<1> QED BY <1>3, <1>4

\* A pair is taken out.
LEMMA RemovedIs ==
  ASSUME NEW wire \in Seq(TcEntry), NEW n
  PROVE  /\ Removed(wire, n) \in Seq(TcEntry)
         /\ \E h : /\ h \in [DOMAIN Removed(wire, n) -> DOMAIN wire]
                   /\ \A i \in DOMAIN Removed(wire, n) :
                        Removed(wire, n)[i] = wire[h[i]] /\ (wire[h[i]].n = 0 \/ wire[h[i]].n # n)
                   /\ \A i, j \in DOMAIN Removed(wire, n) : h[i] = h[j] => i = j
<1> DEFINE places == {i \in DOMAIN wire : wire[i].n = 0 \/ wire[i].n # n}
<1>1. Removed(wire, n) = AtPlaces(wire, places) /\ places \in SUBSET (DOMAIN wire)
  BY DEF Removed
<1>2. \A i \in places : i \in DOMAIN wire /\ (wire[i].n = 0 \/ wire[i].n # n)
  OBVIOUS
<1> HIDE DEF places
<1>3. Removed(wire, n) \in Seq(TcEntry)
  BY <1>1, AtPlacesIs
<1>4. PICK h : /\ h \in [DOMAIN Removed(wire, n) -> places]
               /\ \A i \in DOMAIN Removed(wire, n) : Removed(wire, n)[i] = wire[h[i]]
               /\ \A i, j \in DOMAIN Removed(wire, n) : h[i] = h[j] => i = j
  BY <1>1, AtPlacesApart
<1>5. \A i \in DOMAIN Removed(wire, n) : h[i] \in places
  BY <1>4
<1>6. h \in [DOMAIN Removed(wire, n) -> DOMAIN wire]
  BY <1>1, <1>4, <1>5
<1> QED BY <1>2, <1>3, <1>4, <1>5, <1>6

\* What was left of a chat: some of its entries, each once.
PartOf(rest, wire) ==
  /\ rest \in Seq(TcEntry)
  /\ \E h \in [DOMAIN rest -> DOMAIN wire] :
       /\ \A i \in DOMAIN rest : rest[i] = wire[h[i]]
       /\ \A i, j \in DOMAIN rest : h[i] = h[j] => i = j

\* The source that keeps one has none there.
Without(rest, source) == \A i \in DOMAIN rest : rest[i].source = source => source \notin TcKeepsOne

\* Tracking goes over to an item.
Tracks(next, tracked, item) ==
  /\ next \in [TcKeepsOne -> 0..TcItems]
  /\ \A s \in TcKeepsOne : next[s] = IF s = item.source THEN item.n ELSE tracked[s]

\* What is left when a pair was taken out, or not, goes on with an item.
LEMMA WireAppend ==
  ASSUME NEW wire, NEW tracked, WireOK(wire, tracked), NEW item \in TcItem,
         item.n \notin Numbers(wire), NEW rest, PartOf(rest, wire), Without(rest, item.source),
         NEW next, Tracks(next, tracked, item)
  PROVE  /\ WireOK(Append(rest, item), next)
         /\ Numbers(Append(rest, item)) \subseteq Numbers(wire) \cup {item.n}
<1> DEFINE new == Append(rest, item)
           L == Len(rest)
<1>0. PICK h \in [DOMAIN rest -> DOMAIN wire] :
        /\ \A i \in DOMAIN rest : rest[i] = wire[h[i]]
        /\ \A i, j \in DOMAIN rest : h[i] = h[j] => i = j
  BY DEF PartOf
<1>1. wire \in Seq(TcEntry) /\ rest \in Seq(TcEntry) /\ L \in Nat /\ DOMAIN rest = 1..L
  BY DEF WireOK, PartOf
<1>2. item \in TcEntry /\ item.n # 0 /\ item.source # "agent" /\ item.source \in TcSources
  <2>1. TcItems \in Nat /\ "agent" \notin TcSources
    BY TimedCallAssumption
  <2>2. \A e \in TcItem : e \in TcEntry /\ e.n # 0 /\ e.source # "agent" /\ e.source \in TcSources
    BY <2>1 DEF TcItem, TcEntry
  <2> QED BY <2>2
<1>3. /\ new \in Seq(TcEntry) /\ DOMAIN new = 1..(L + 1) /\ new[L + 1] = item
      /\ \A i \in 1..L : new[i] = rest[i]
  BY <1>1, <1>2
<1>4. \A i \in 1..(L + 1) : i = L + 1 \/ i \in 1..L
  BY <1>1
<1>5. \A i \in 1..L : h[i] \in DOMAIN wire /\ rest[i] = wire[h[i]]
  BY <1>0, <1>1
<1>6. \A i \in 1..L : rest[i].n # item.n
  BY <1>2, <1>5 DEF Numbers
<1> HIDE DEF new, L
<1>7. OnceEach(new)
  <2> SUFFICES ASSUME NEW i \in 1..(L + 1), NEW j \in 1..(L + 1), new[i].n = new[j].n, new[i].n # 0
               PROVE  i = j
    BY <1>3 DEF OnceEach
  <2>1. CASE i \in 1..L /\ j \in 1..L
    <3>1. new[i] = wire[h[i]] /\ new[j] = wire[h[j]] /\ h[i] \in DOMAIN wire /\ h[j] \in DOMAIN wire
      BY <1>3, <1>5, <2>1
    <3>2. h[i] = h[j]
      BY <3>1 DEF WireOK, OnceEach
    <3> QED BY <1>0, <1>1, <2>1, <3>2
  <2>2. CASE ~(i \in 1..L /\ j \in 1..L)
    BY <1>3, <1>4, <1>6, <2>2
  <2> QED BY <2>1, <2>2
<1>8. \A i \in DOMAIN new : new[i].n = 0 <=> new[i].source = "agent"
  BY <1>2, <1>3, <1>4, <1>5 DEF WireOK
<1>9. ASSUME NEW s \in TcKeepsOne, NEW i \in PlacesOf(new, s) PROVE new[i].n = next[s]
  <2>1. i \in 1..(L + 1) /\ new[i].source = s
    BY <1>3 DEF PlacesOf
  <2>2. CASE i = L + 1
    BY <1>3, <2>1, <2>2 DEF Tracks
  <2>3. CASE i \in 1..L
    <3>1. rest[i].source = s /\ i \in DOMAIN rest
      BY <1>1, <1>3, <2>1, <2>3
    <3>2. s # item.source
      BY <3>1 DEF Without
    <3>3. h[i] \in PlacesOf(wire, s)
      BY <1>5, <2>3, <3>1 DEF PlacesOf
    <3>4. wire[h[i]].n = tracked[s]
      BY <3>3 DEF WireOK
    <3> QED BY <1>3, <1>5, <2>3, <3>2, <3>4 DEF Tracks
  <2> QED BY <1>4, <2>1, <2>2, <2>3
<1>10. WireOK(new, next)
  BY <1>3, <1>7, <1>8, <1>9 DEF WireOK, Tracks
<1>11. Numbers(new) \subseteq Numbers(wire) \cup {item.n}
  BY <1>3, <1>4, <1>5 DEF Numbers
<1> QED BY <1>10, <1>11 DEF new

\* One more is spliced in.
LEMMA SplicedKeeps ==
  ASSUME NEW talk, WireOK(talk.wire, talk.tracked), NEW item \in TcItem,
         item.n \notin Numbers(talk.wire)
  PROVE  /\ WireOK(Spliced(talk, item).wire, Spliced(talk, item).tracked)
         /\ Numbers(Spliced(talk, item).wire) \subseteq Numbers(talk.wire) \cup {item.n}
<1>1. PICK wire : wire = talk.wire
  OBVIOUS
<1>2. PICK tracked : tracked = talk.tracked
  OBVIOUS
<1>3. WireOK(wire, tracked) /\ wire \in Seq(TcEntry) /\ tracked \in [TcKeepsOne -> 0..TcItems]
  BY <1>1, <1>2 DEF WireOK
<1>4. PICK next : next = [s \in TcKeepsOne |-> IF s = item.source THEN item.n ELSE tracked[s]]
  OBVIOUS
<1>5. Tracks(next, tracked, item)
  <2>1. item.n \in 0..TcItems
    <3>1. \A e \in TcItem : e.n \in 0..TcItems
      BY TimedCallAssumption DEF TcItem
    <3> QED BY <3>1
  <2> QED BY <1>3, <1>4, <2>1 DEF Tracks
<1>50. item.n \notin Numbers(wire)
  BY <1>1
<1>6. PICK rest : rest = IF item.source \in TcKeepsOne THEN Removed(wire, tracked[item.source]) ELSE wire
  OBVIOUS
<1>7. Spliced(talk, item).wire = Append(rest, item) /\ Spliced(talk, item).tracked = next
  BY <1>1, <1>2, <1>4, <1>6 DEF Spliced
<1>8. CASE item.source \in TcKeepsOne
  <2>1. PICK n : n = tracked[item.source]
    OBVIOUS
  <2>2. rest = Removed(wire, n)
    BY <1>6, <1>8, <2>1
  <2>3. rest \in Seq(TcEntry)
    BY <1>3, <2>2, RemovedIs
  <2>4. PICK h : /\ h \in [DOMAIN rest -> DOMAIN wire]
                 /\ \A i \in DOMAIN rest : rest[i] = wire[h[i]] /\ (wire[h[i]].n = 0 \/ wire[h[i]].n # n)
                 /\ \A i, j \in DOMAIN rest : h[i] = h[j] => i = j
    BY <1>3, <2>2, RemovedIs
  <2>5. ASSUME NEW i \in PlacesOf(rest, item.source) PROVE FALSE
    <3>1. i \in DOMAIN rest /\ rest[i].source = item.source
      BY DEF PlacesOf
    <3>2. h[i] \in PlacesOf(wire, item.source)
      BY <2>4, <3>1 DEF PlacesOf
    <3>3. wire[h[i]].n = n
      BY <1>3, <1>8, <2>1, <3>2 DEF WireOK
    <3>4. wire[h[i]].n = 0
      BY <2>4, <3>1, <3>3
    <3>5. wire[h[i]].source = "agent"
      BY <1>3, <2>4, <3>1, <3>4 DEF WireOK
    <3> QED BY <1>8, <2>4, <3>1, <3>5, TimedCallAssumption
  <2>6. Without(rest, item.source)
    BY <2>5 DEF Without, PlacesOf
  <2>7. PartOf(rest, wire)
    BY <2>3, <2>4 DEF PartOf
  <2>8. /\ WireOK(Append(rest, item), next)
        /\ Numbers(Append(rest, item)) \subseteq Numbers(wire) \cup {item.n}
    BY <1>3, <1>5, <1>50, <2>6, <2>7, WireAppend
  <2> QED BY <1>1, <1>7, <2>8
<1>9. CASE item.source \notin TcKeepsOne
  <2>1. rest = wire
    BY <1>6, <1>9
  <2>2. PICK h : h = [i \in DOMAIN wire |-> i]
    OBVIOUS
  <2>3. PartOf(rest, wire) /\ Without(rest, item.source)
    BY <1>3, <1>9, <2>1, <2>2 DEF PartOf, Without
  <2>4. /\ WireOK(Append(rest, item), next)
        /\ Numbers(Append(rest, item)) \subseteq Numbers(wire) \cup {item.n}
    BY <1>3, <1>5, <1>50, <2>3, WireAppend
  <2> QED BY <1>1, <1>7, <2>4
<1> QED BY <1>8, <1>9

\* Item by item, what becomes of a queue, and of a chat.
Queues(f, queue, items, n) == f = [i \in 0..n |-> IF i = 0 THEN queue ELSE Queued(f[i - 1], items[i])]
Splices(f, talk, items, n) == f = [i \in 0..n |-> IF i = 0 THEN talk ELSE Spliced(f[i - 1], items[i])]

\* There is such a function, so that AllQueued chooses it.
LEMMA QueuesExists ==
  ASSUME NEW queue, NEW items, NEW n \in Nat
  PROVE  \E f : Queues(f, queue, items, n)
<1> DEFINE Bad == {m \in Nat : ~\E f : Queues(f, queue, items, m)}
<1> SUFFICES ASSUME Bad # {} PROVE FALSE
  OBVIOUS
<1>1. PICK m \in Bad : \A k \in Bad : m <= k
  BY Least
<1>2. CASE m = 0
  <2> DEFINE f == [i \in 0..0 |-> queue]
  <2>1. Queues(f, queue, items, 0)
    BY DEF Queues
  <2> QED BY <1>1, <1>2, <2>1
<1>3. CASE m # 0
  <2>1. m - 1 \in Nat /\ m - 1 \notin Bad /\ m \in Nat
    BY <1>1, <1>3
  <2>2. PICK g : Queues(g, queue, items, m - 1)
    BY <2>1
  <2> DEFINE f == [i \in 0..m |-> IF i = m THEN Queued(g[m - 1], items[m]) ELSE g[i]]
             h == [i \in 0..m |-> IF i = 0 THEN queue ELSE Queued(f[i - 1], items[i])]
  <2>3. \A i \in 0..m - 1 : g[i] = IF i = 0 THEN queue ELSE Queued(g[i - 1], items[i])
    BY <2>2 DEF Queues
  <2>4. ASSUME NEW i \in 0..m PROVE f[i] = h[i]
    <3>1. CASE i = m
      <4>1. f[m - 1] = g[m - 1]
        BY <2>1
      <4> QED BY <1>3, <2>1, <3>1, <4>1
    <3>2. CASE i # m
      <4>1. i \in 0..m - 1 /\ f[i] = g[i]
        BY <2>1, <3>2
      <4>2. i # 0 => f[i - 1] = g[i - 1]
        BY <2>1, <4>1
      <4> QED BY <2>3, <4>1, <4>2
    <3> QED BY <3>1, <3>2
  <2>5. f = h
    BY <2>4
  <2>6. Queues(f, queue, items, m)
    BY <2>5 DEF Queues
  <2> QED BY <1>1, <2>6
<1> QED BY <1>2, <1>3

LEMMA SplicesExists ==
  ASSUME NEW talk, NEW items, NEW n \in Nat
  PROVE  \E f : Splices(f, talk, items, n)
<1> DEFINE Bad == {m \in Nat : ~\E f : Splices(f, talk, items, m)}
<1> SUFFICES ASSUME Bad # {} PROVE FALSE
  OBVIOUS
<1>1. PICK m \in Bad : \A k \in Bad : m <= k
  BY Least
<1>2. CASE m = 0
  <2> DEFINE f == [i \in 0..0 |-> talk]
  <2>1. Splices(f, talk, items, 0)
    BY DEF Splices
  <2> QED BY <1>1, <1>2, <2>1
<1>3. CASE m # 0
  <2>1. m - 1 \in Nat /\ m - 1 \notin Bad /\ m \in Nat
    BY <1>1, <1>3
  <2>2. PICK g : Splices(g, talk, items, m - 1)
    BY <2>1
  <2> DEFINE f == [i \in 0..m |-> IF i = m THEN Spliced(g[m - 1], items[m]) ELSE g[i]]
             h == [i \in 0..m |-> IF i = 0 THEN talk ELSE Spliced(f[i - 1], items[i])]
  <2>3. \A i \in 0..m - 1 : g[i] = IF i = 0 THEN talk ELSE Spliced(g[i - 1], items[i])
    BY <2>2 DEF Splices
  <2>4. ASSUME NEW i \in 0..m PROVE f[i] = h[i]
    <3>1. CASE i = m
      <4>1. f[m - 1] = g[m - 1]
        BY <2>1
      <4> QED BY <1>3, <2>1, <3>1, <4>1
    <3>2. CASE i # m
      <4>1. i \in 0..m - 1 /\ f[i] = g[i]
        BY <2>1, <3>2
      <4>2. i # 0 => f[i - 1] = g[i - 1]
        BY <2>1, <4>1
      <4> QED BY <2>3, <4>1, <4>2
    <3> QED BY <3>1, <3>2
  <2>5. f = h
    BY <2>4
  <2>6. Splices(f, talk, items, m)
    BY <2>5 DEF Splices
  <2> QED BY <1>1, <2>6
<1> QED BY <1>2, <1>3

\* Items whose numbers are new to a queue or a chat.
NewTo(items, numbers) == QueueOK(items) /\ Numbers(items) \cap numbers = {}

\* A queue goes on with new items.
LEMMA AllQueuedKeeps ==
  ASSUME NEW queue, QueueOK(queue), NEW items, NewTo(items, Numbers(queue))
  PROVE  /\ QueueOK(AllQueued(queue, items))
         /\ Numbers(AllQueued(queue, items)) \subseteq Numbers(queue) \cup Numbers(items)
<1> DEFINE F == CHOOSE f : Queues(f, queue, items, Len(items))
           upto(m) == {items[i].n : i \in 1..m}
           Fine(m) == QueueOK(F[m]) /\ Numbers(F[m]) \subseteq Numbers(queue) \cup upto(m)
           Bad == {m \in 0..Len(items) : ~Fine(m)}
<1>0. /\ Len(items) \in Nat /\ DOMAIN items = 1..Len(items)
      /\ \A i \in 1..Len(items) : items[i] \in TcItem /\ items[i].n # 0
  <2>1. TcItems \in Nat /\ items \in Seq(TcItem)
    BY TimedCallAssumption DEF NewTo, QueueOK
  <2>2. \A e \in TcItem : e.n # 0
    BY <2>1 DEF TcItem
  <2> QED BY <2>1, <2>2
<1>1. Queues(F, queue, items, Len(items))
  BY <1>0, QueuesExists
<1>2. AllQueued(queue, items) = F[Len(items)]
  BY DEF AllQueued, Queues
<1>3. \A i \in 0..Len(items) : F[i] = IF i = 0 THEN queue ELSE Queued(F[i - 1], items[i])
  <2> HIDE DEF F
  <2> QED BY <1>1 DEF Queues
<1> HIDE DEF F
<1>4. ASSUME Bad # {} PROVE FALSE
  <2>1. Bad \in SUBSET Nat
    OBVIOUS
  <2>2. PICK m \in Bad : \A k \in Bad : m <= k
    BY <1>4, <2>1, Least
  <2>3. m \in 0..Len(items) /\ ~Fine(m) /\ m \in Nat
    OBVIOUS
  <2>4. CASE m = 0
    <3>1. F[0] = queue
      BY <1>0, <1>3
    <3> QED BY <2>3, <2>4, <3>1
  <2>5. CASE m # 0
    <3>1. m \in 1..Len(items) /\ m - 1 \in 0..Len(items) /\ ~(m <= m - 1)
      BY <1>0, <2>3, <2>5
    <3>2. Fine(m - 1)
      BY <2>2, <3>1
    <3>3. F[m] = Queued(F[m - 1], items[m])
      BY <1>3, <2>3, <2>5
    <3>4. items[m].n \notin Numbers(queue)
      BY <1>0, <3>1 DEF NewTo, Numbers
    <3>5. items[m].n \notin upto(m - 1)
      <4>1. \A i \in 1..(m - 1) : i \in DOMAIN items /\ i # m
        BY <1>0, <2>3, <3>1
      <4>2. \A i \in 1..(m - 1) : items[i].n # items[m].n
        BY <1>0, <3>1, <4>1 DEF NewTo, QueueOK, OnceEach
      <4> QED BY <4>2
    <3>6. QueueOK(F[m]) /\ Numbers(F[m]) \subseteq Numbers(F[m - 1]) \cup {items[m].n}
      <4>1. items[m].n \notin Numbers(F[m - 1]) /\ QueueOK(F[m - 1])
        BY <3>2, <3>4, <3>5
      <4> QED BY <1>0, <3>1, <3>3, <4>1, QueuedKeeps
    <3>7. \A i \in 1..(m - 1) : i \in 1..m
      BY <2>3
    <3>8. m \in 1..m
      BY <2>3, <2>5
    <3>9. upto(m - 1) \subseteq upto(m) /\ items[m].n \in upto(m)
      BY <3>7, <3>8
    <3> HIDE DEF upto
    <3> QED BY <2>3, <3>2, <3>6, <3>9
  <2> QED BY <2>4, <2>5
<1>5. Fine(Len(items))
  <2> HIDE DEF Fine
  <2> QED BY <1>0, <1>4
<1>6. upto(Len(items)) \subseteq Numbers(items)
  BY <1>0 DEF Numbers
<1> HIDE DEF upto
<1> QED BY <1>2, <1>5, <1>6

\* A chat goes on with new items.
LEMMA AllSplicedKeeps ==
  ASSUME NEW talk, WireOK(talk.wire, talk.tracked), NEW items, NewTo(items, Numbers(talk.wire))
  PROVE  /\ WireOK(AllSpliced(talk, items).wire, AllSpliced(talk, items).tracked)
         /\ Numbers(AllSpliced(talk, items).wire) \subseteq Numbers(talk.wire) \cup Numbers(items)
<1> DEFINE F == CHOOSE f : Splices(f, talk, items, Len(items))
           upto(m) == {items[i].n : i \in 1..m}
           Fine(m) == /\ WireOK(F[m].wire, F[m].tracked)
                      /\ Numbers(F[m].wire) \subseteq Numbers(talk.wire) \cup upto(m)
           Bad == {m \in 0..Len(items) : ~Fine(m)}
<1>0. /\ Len(items) \in Nat /\ DOMAIN items = 1..Len(items)
      /\ \A i \in 1..Len(items) : items[i] \in TcItem /\ items[i].n # 0
  <2>1. TcItems \in Nat /\ items \in Seq(TcItem)
    BY TimedCallAssumption DEF NewTo, QueueOK
  <2>2. \A e \in TcItem : e.n # 0
    BY <2>1 DEF TcItem
  <2> QED BY <2>1, <2>2
<1>1. Splices(F, talk, items, Len(items))
  BY <1>0, SplicesExists
<1>2. AllSpliced(talk, items) = F[Len(items)]
  BY DEF AllSpliced, Splices
<1>3. \A i \in 0..Len(items) : F[i] = IF i = 0 THEN talk ELSE Spliced(F[i - 1], items[i])
  <2> HIDE DEF F
  <2> QED BY <1>1 DEF Splices
<1> HIDE DEF F
<1>4. ASSUME Bad # {} PROVE FALSE
  <2>1. Bad \in SUBSET Nat
    OBVIOUS
  <2>2. PICK m \in Bad : \A k \in Bad : m <= k
    BY <1>4, <2>1, Least
  <2>3. m \in 0..Len(items) /\ ~Fine(m) /\ m \in Nat
    OBVIOUS
  <2>4. CASE m = 0
    <3>1. F[0] = talk
      BY <1>0, <1>3
    <3> QED BY <2>3, <2>4, <3>1
  <2>5. CASE m # 0
    <3>1. m \in 1..Len(items) /\ m - 1 \in 0..Len(items) /\ ~(m <= m - 1)
      BY <1>0, <2>3, <2>5
    <3>2. Fine(m - 1)
      BY <2>2, <3>1
    <3>3. F[m] = Spliced(F[m - 1], items[m])
      BY <1>3, <2>3, <2>5
    <3>4. items[m].n \notin Numbers(talk.wire)
      BY <1>0, <3>1 DEF NewTo, Numbers
    <3>5. items[m].n \notin upto(m - 1)
      <4>1. \A i \in 1..(m - 1) : i \in DOMAIN items /\ i # m
        BY <1>0, <2>3, <3>1
      <4>2. \A i \in 1..(m - 1) : items[i].n # items[m].n
        BY <1>0, <3>1, <4>1 DEF NewTo, QueueOK, OnceEach
      <4> QED BY <4>2
    <3>6. /\ WireOK(F[m].wire, F[m].tracked)
          /\ Numbers(F[m].wire) \subseteq Numbers(F[m - 1].wire) \cup {items[m].n}
      <4>1. items[m].n \notin Numbers(F[m - 1].wire) /\ WireOK(F[m - 1].wire, F[m - 1].tracked)
        BY <3>2, <3>4, <3>5
      <4> QED BY <1>0, <3>1, <3>3, <4>1, SplicedKeeps
    <3>7. \A i \in 1..(m - 1) : i \in 1..m
      BY <2>3
    <3>8. m \in 1..m
      BY <2>3, <2>5
    <3>9. upto(m - 1) \subseteq upto(m) /\ items[m].n \in upto(m)
      BY <3>7, <3>8
    <3> HIDE DEF upto
    <3> QED BY <2>3, <3>2, <3>6, <3>9
  <2> QED BY <2>4, <2>5
<1>5. Fine(Len(items))
  <2> HIDE DEF Fine
  <2> QED BY <1>0, <1>4
<1>6. upto(Len(items)) \subseteq Numbers(items)
  BY <1>0 DEF Numbers
<1> HIDE DEF upto
<1> QED BY <1>2, <1>5, <1>6

-----------------------------------------------------------------------------
(* The timed-call inbox: its steps                                         *)

Disjoint(a, b) == Numbers(a) \cap Numbers(b) = {}

\* Every pair that was queued is in one place at most, under the number it got.
TcInv ==
  /\ tcItems \in 0..TcItems /\ tcFaults \in 0..TcFaults
  /\ tcAt \in {"idle", "woken", "sending"} /\ tcPending \in BOOLEAN
  /\ QueueOK(tcQueue) /\ QueueOK(tcTaken) /\ WireOK(tcWire, tcTracked)
  /\ Numbers(tcQueue) \cup Numbers(tcTaken) \cup Numbers(tcWire) \subseteq 0..tcItems
  /\ Disjoint(tcWire, tcQueue) /\ Disjoint(tcWire, tcTaken) /\ Disjoint(tcTaken, tcQueue)
  /\ tcAt = "idle" => tcTaken = <<>>

LEMMA EmptyQueue == QueueOK(<<>>) /\ Numbers(<<>>) = {} /\ \A a : Disjoint(a, <<>>) /\ Disjoint(<<>>, a)
<1>1. \A a : Numbers(<<>>) = {} /\ Numbers(<<>>) \cap Numbers(a) = {}
  BY DEF Numbers
<1>2. QueueOK(<<>>)
  BY DEF QueueOK, OnceEach, KeepsOne, PlacesOf
<1> QED BY <1>1, <1>2 DEF Disjoint

LEMMA EmptyWire ==
  ASSUME NEW tracked \in [TcKeepsOne -> {0}]
  PROVE  WireOK(<<>>, tracked)
<1>1. TcItems \in Nat
  BY TimedCallAssumption
<1>2. tracked \in [TcKeepsOne -> 0..TcItems]
  BY <1>1
<1> QED BY <1>2 DEF WireOK, OnceEach, PlacesOf

LEMMA TcFirst == TcInit => TcInv
<1> SUFFICES ASSUME TcInit PROVE TcInv
  OBVIOUS
<1>1. WireOK(tcWire, tcTracked)
  BY EmptyWire DEF TcInit
<1>2. 0 \in 0..TcItems /\ 0 \in 0..TcFaults
  BY TimedCallAssumption
<1> QED BY <1>1, <1>2, EmptyQueue DEF TcInit, TcInv

\* What is left of a queue when its first is taken.
LEMMA TailIsKept ==
  ASSUME NEW queue, QueueOK(queue), queue # <<>>
  PROVE  /\ Head(queue) \in TcItem /\ QueueOK(Tail(queue))
         /\ Numbers(Tail(queue)) \subseteq Numbers(queue)
         /\ Head(queue).n \in Numbers(queue) /\ Head(queue).n \notin Numbers(Tail(queue))
<1> DEFINE rest == Tail(queue)
<1>1. queue \in Seq(TcItem) /\ Len(queue) \in Nat /\ DOMAIN queue = 1..Len(queue) /\ Len(queue) >= 1
  BY DEF QueueOK
<1>2. /\ rest \in Seq(TcItem) /\ Len(rest) = Len(queue) - 1 /\ DOMAIN rest = 1..(Len(queue) - 1)
      /\ \A i \in 1..(Len(queue) - 1) : rest[i] = queue[i + 1]
      /\ Head(queue) = queue[1] /\ 1 \in DOMAIN queue /\ Head(queue) \in TcItem
  BY <1>1
<1>3. \A i \in 1..(Len(queue) - 1) : i + 1 \in DOMAIN queue /\ i + 1 # 1 /\ i \in Nat
  BY <1>1
<1> HIDE DEF rest
<1>4. OnceEach(rest)
  <2> SUFFICES ASSUME NEW i \in DOMAIN rest, NEW j \in DOMAIN rest, rest[i].n = rest[j].n, rest[i].n # 0
               PROVE  i = j
    BY DEF OnceEach
  <2>0. /\ i + 1 \in DOMAIN queue /\ j + 1 \in DOMAIN queue
        /\ queue[i + 1].n = queue[j + 1].n /\ queue[i + 1].n # 0
    BY <1>2, <1>3
  <2>1. i + 1 = j + 1
    BY <2>0 DEF QueueOK, OnceEach
  <2> QED BY <1>2, <1>3, <2>1
<1>5. KeepsOne(rest)
  <2> SUFFICES ASSUME NEW s \in TcKeepsOne, NEW i \in PlacesOf(rest, s), NEW j \in PlacesOf(rest, s)
               PROVE  i = j
    BY DEF KeepsOne
  <2>1. i \in DOMAIN rest /\ j \in DOMAIN rest /\ rest[i].source = s /\ rest[j].source = s
    BY DEF PlacesOf
  <2>2. i + 1 \in PlacesOf(queue, s) /\ j + 1 \in PlacesOf(queue, s)
    BY <1>2, <1>3, <2>1 DEF PlacesOf
  <2>3. i + 1 = j + 1
    BY <2>2 DEF QueueOK, KeepsOne
  <2> QED BY <1>2, <1>3, <2>1, <2>3
<1>6. Numbers(rest) \subseteq Numbers(queue)
  BY <1>2, <1>3 DEF Numbers
<1>7. queue[1].n # 0
  <2>1. TcItems \in Nat
    BY TimedCallAssumption
  <2>2. \A e \in TcItem : e.n # 0
    BY <2>1 DEF TcItem
  <2> QED BY <1>2, <2>2
<1>8. queue[1].n \in Numbers(queue)
  BY <1>2, <1>7 DEF Numbers
<1>9. ASSUME NEW i \in DOMAIN rest, rest[i].n = queue[1].n PROVE FALSE
  <2>1. i + 1 \in DOMAIN queue /\ queue[i + 1].n = queue[1].n /\ i + 1 # 1
    BY <1>2, <1>3, <1>9
  <2> QED BY <1>2, <1>7, <2>1 DEF QueueOK, OnceEach
<1>10. queue[1].n \notin Numbers(rest)
  BY <1>9 DEF Numbers
<1> QED BY <1>2, <1>4, <1>5, <1>6, <1>8, <1>10 DEF QueueOK, rest

LEMMA TcEnqueueStep ==
  ASSUME TcInv, NEW source \in TcSources, TcEnqueue(source)
  PROVE  TcInv'
<1>0. tcItems \in Nat /\ TcItems \in Nat /\ tcItems < TcItems /\ tcItems' = tcItems + 1
  BY TimedCallAssumption DEF TcInv, TcEnqueue
<1>1. PICK item : item = [n |-> tcItems + 1, source |-> source]
  OBVIOUS
<1>2. item \in TcItem /\ item.n = tcItems + 1
  BY <1>0, <1>1 DEF TcItem
<1>3. item.n \notin 0..tcItems
  BY <1>0, <1>2
<1>4. QueueOK(tcQueue') /\ Numbers(tcQueue') \subseteq Numbers(tcQueue) \cup {item.n}
  <2>1. tcQueue' = Queued(tcQueue, item)
    BY <1>1 DEF TcEnqueue
  <2>2. QueueOK(tcQueue) /\ item.n \notin Numbers(tcQueue)
    BY <1>3 DEF TcInv
  <2> QED BY <1>2, <2>1, <2>2, QueuedKeeps
<1>5. tcWire' = tcWire /\ tcTaken' = tcTaken /\ tcTracked' = tcTracked /\ tcAt' = tcAt
      /\ tcPending' = tcPending /\ tcFaults' = tcFaults
  BY DEF TcEnqueue, tcChat, tcLoop
<1>6. Numbers(tcQueue) \subseteq 0..tcItems /\ Numbers(tcTaken) \subseteq 0..tcItems /\ Numbers(tcWire) \subseteq 0..tcItems
  BY DEF TcInv
<1>7. 0..tcItems \subseteq 0..tcItems' /\ item.n \in 0..tcItems' /\ tcItems' \in 0..TcItems
  BY <1>0, <1>2
<1>8. Numbers(tcQueue') \cup Numbers(tcTaken') \cup Numbers(tcWire') \subseteq 0..tcItems'
  BY <1>4, <1>5, <1>6, <1>7
<1>9. Disjoint(tcWire', tcQueue') /\ Disjoint(tcTaken', tcQueue')
  BY <1>3, <1>4, <1>5, <1>6 DEF TcInv, Disjoint
<1> QED BY <1>4, <1>5, <1>7, <1>8, <1>9 DEF TcInv

LEMMA TcDrainStep ==
  ASSUME TcInv, TcDrain
  PROVE  TcInv'
<1>1. PICK talk : talk = [wire |-> tcWire, tracked |-> tcTracked]
  OBVIOUS
<1>2. talk.wire = tcWire /\ talk.tracked = tcTracked
  BY <1>1
<1>3. tcWire' = AllSpliced(talk, tcQueue).wire /\ tcTracked' = AllSpliced(talk, tcQueue).tracked
  BY <1>1 DEF TcDrain, Becomes, Chat
<1>4. WireOK(talk.wire, talk.tracked) /\ NewTo(tcQueue, Numbers(talk.wire))
  BY <1>2 DEF TcInv, NewTo, Disjoint
<1>5. WireOK(tcWire', tcTracked') /\ Numbers(tcWire') \subseteq Numbers(tcWire) \cup Numbers(tcQueue)
  <2>1. WireOK(AllSpliced(talk, tcQueue).wire, AllSpliced(talk, tcQueue).tracked)
        /\ Numbers(AllSpliced(talk, tcQueue).wire) \subseteq Numbers(talk.wire) \cup Numbers(tcQueue)
    BY <1>4, AllSplicedKeeps
  <2> QED BY <1>2, <1>3, <2>1
<1>6. tcTaken = <<>> /\ tcTaken' = <<>> /\ tcQueue' = <<>>
  BY DEF TcDrain, TcInv, tcLoop
<1>7. Disjoint(tcWire', tcQueue') /\ Disjoint(tcTaken', tcQueue') /\ Disjoint(tcWire', tcTaken')
      /\ QueueOK(tcQueue') /\ QueueOK(tcTaken') /\ Numbers(tcQueue') = {} /\ Numbers(tcTaken') = {}
  BY <1>6, EmptyQueue
<1>8. tcItems' = tcItems /\ tcFaults' = tcFaults /\ tcAt' = tcAt /\ tcPending' = tcPending
  BY DEF TcDrain, tcLoop
<1>9. Numbers(tcQueue') \cup Numbers(tcTaken') \cup Numbers(tcWire') \subseteq 0..tcItems'
  BY <1>5, <1>7, <1>8 DEF TcInv
<1> QED BY <1>5, <1>6, <1>7, <1>8, <1>9 DEF TcInv

LEMMA TcTurnStep ==
  ASSUME TcInv, TcTurn
  PROVE  TcInv'
<1>1. tcItems' = tcItems /\ tcFaults' = tcFaults /\ tcAt' = tcAt /\ tcTaken' = tcTaken /\ tcQueue' = tcQueue
      /\ tcTracked' = tcTracked /\ tcPending' \in BOOLEAN
  BY DEF TcTurn, tcLoop, TcInv
<1>2. WireOK(tcWire', tcTracked) /\ Numbers(tcWire') \subseteq Numbers(tcWire)
  <2>1. CASE tcWire' = tcWire
    BY <2>1 DEF TcInv
  <2>2. CASE tcWire' = Append(tcWire, OwnTurn)
    <3> DEFINE L == Len(tcWire)
    <3>1. OwnTurn \in TcEntry /\ OwnTurn.n = 0 /\ OwnTurn.source = "agent"
      <4>1. 0 \in 0..TcItems /\ "agent" \in TcSources \cup {"agent"}
        BY TimedCallAssumption
      <4> QED BY <4>1 DEF OwnTurn, TcEntry
    <3>2. tcWire \in Seq(TcEntry) /\ L \in Nat /\ DOMAIN tcWire = 1..L
      BY DEF TcInv, WireOK
    <3>3. /\ tcWire' \in Seq(TcEntry) /\ DOMAIN tcWire' = 1..(L + 1) /\ tcWire'[L + 1] = OwnTurn
          /\ \A i \in 1..L : tcWire'[i] = tcWire[i]
      BY <2>2, <3>1, <3>2
    <3>4. \A i \in 1..(L + 1) : i = L + 1 \/ i \in 1..L
      BY <3>2
    <3> HIDE DEF L
    <3>5. OnceEach(tcWire')
      BY <3>1, <3>2, <3>3, <3>4 DEF TcInv, WireOK, OnceEach
    <3>6. \A i \in DOMAIN tcWire' : tcWire'[i].n = 0 <=> tcWire'[i].source = "agent"
      BY <3>1, <3>2, <3>3, <3>4 DEF TcInv, WireOK
    <3>7. ASSUME NEW s \in TcKeepsOne, NEW i \in PlacesOf(tcWire', s) PROVE tcWire'[i].n = tcTracked[s]
      <4>1. i \in DOMAIN tcWire' /\ tcWire'[i].source = s
        BY DEF PlacesOf
      <4>2. s # "agent"
        BY TimedCallAssumption
      <4>3. i \in 1..L
        BY <3>1, <3>3, <3>4, <4>1, <4>2
      <4>4. i \in PlacesOf(tcWire, s)
        BY <3>2, <3>3, <4>1, <4>3 DEF PlacesOf
      <4> QED BY <3>3, <4>3, <4>4 DEF TcInv, WireOK
    <3>8. WireOK(tcWire', tcTracked)
      BY <3>3, <3>5, <3>6, <3>7 DEF TcInv, WireOK
    <3>9. Numbers(tcWire') \subseteq Numbers(tcWire)
      BY <3>1, <3>2, <3>3, <3>4 DEF Numbers
    <3> QED BY <3>8, <3>9
  <2> QED BY <2>1, <2>2 DEF TcTurn
<1>3. Disjoint(tcWire', tcQueue') /\ Disjoint(tcWire', tcTaken')
  BY <1>1, <1>2 DEF TcInv, Disjoint
<1> QED BY <1>1, <1>2, <1>3 DEF TcInv

LEMMA TcWakeStep ==
  ASSUME TcInv, TcWake
  PROVE  TcInv'
<1>1. tcTaken' = tcQueue /\ tcQueue' = <<>> /\ tcAt' = "woken"
      /\ UNCHANGED <<tcWire, tcPending, tcTracked, tcItems, tcFaults>>
  BY DEF TcWake, tcChat
<1> QED BY <1>1, EmptyQueue DEF TcInv

\* What was taken is queued again.
LEMMA TcRequeue ==
  ASSUME TcInv, tcQueue' = AllQueued(tcQueue, tcTaken), tcTaken' = <<>>, tcAt' = "idle",
         UNCHANGED <<tcWire, tcTracked, tcItems>>, tcPending' \in BOOLEAN, tcFaults' \in 0..TcFaults
  PROVE  TcInv'
<1>1. QueueOK(tcQueue) /\ NewTo(tcTaken, Numbers(tcQueue))
  BY DEF TcInv, NewTo, Disjoint
<1>2. QueueOK(tcQueue') /\ Numbers(tcQueue') \subseteq Numbers(tcQueue) \cup Numbers(tcTaken)
  BY <1>1, AllQueuedKeeps
<1>3. Disjoint(tcWire', tcQueue')
  BY <1>2 DEF TcInv, Disjoint
<1>4. Numbers(tcQueue') \cup Numbers(tcWire') \subseteq 0..tcItems'
  BY <1>2 DEF TcInv
<1> QED BY <1>2, <1>3, <1>4, EmptyQueue DEF TcInv

LEMMA TcSplicesStep ==
  ASSUME TcInv, TcSplices
  PROVE  TcInv'
<1>1. PICK talk : talk = [wire |-> tcWire, tracked |-> tcTracked]
  OBVIOUS
<1>2. talk.wire = tcWire /\ talk.tracked = tcTracked
  BY <1>1
<1>3. PICK item : item = Head(tcTaken)
  OBVIOUS
<1>4. /\ tcWire' = Spliced(talk, item).wire /\ tcTracked' = Spliced(talk, item).tracked
      /\ tcTaken' = Tail(tcTaken) /\ tcTaken # <<>> /\ tcAt' = "sending" /\ tcPending' = TRUE
      /\ UNCHANGED <<tcQueue, tcItems, tcFaults>>
  BY <1>1, <1>3 DEF TcSplices, Becomes, Chat
<1>5. /\ item \in TcItem /\ QueueOK(tcTaken') /\ Numbers(tcTaken') \subseteq Numbers(tcTaken)
      /\ item.n \in Numbers(tcTaken) /\ item.n \notin Numbers(tcTaken')
  <2>1. QueueOK(tcTaken)
    BY DEF TcInv
  <2> QED BY <1>3, <1>4, <2>1, TailIsKept
<1>6. WireOK(tcWire', tcTracked') /\ Numbers(tcWire') \subseteq Numbers(tcWire) \cup {item.n}
  <2>1. WireOK(talk.wire, talk.tracked) /\ item.n \notin Numbers(talk.wire)
    BY <1>2, <1>5 DEF TcInv, Disjoint
  <2>2. /\ WireOK(Spliced(talk, item).wire, Spliced(talk, item).tracked)
        /\ Numbers(Spliced(talk, item).wire) \subseteq Numbers(talk.wire) \cup {item.n}
    BY <1>5, <2>1, SplicedKeeps
  <2> QED BY <1>2, <1>4, <2>2
<1>7. Disjoint(tcWire', tcQueue') /\ Disjoint(tcWire', tcTaken') /\ Disjoint(tcTaken', tcQueue')
  BY <1>4, <1>5, <1>6 DEF TcInv, Disjoint
<1>8. Numbers(tcQueue') \cup Numbers(tcTaken') \cup Numbers(tcWire') \subseteq 0..tcItems'
  BY <1>4, <1>5, <1>6 DEF TcInv
<1> QED BY <1>4, <1>5, <1>6, <1>7, <1>8 DEF TcInv

LEMMA TcRestartsStep ==
  ASSUME TcInv, TcRestarts
  PROVE  TcInv'
<1>1. tcQueue' = <<>> /\ tcTaken' = <<>> /\ tcAt' = "idle" /\ tcPending' = FALSE
      /\ tcTracked' = [s \in TcKeepsOne |-> Rehydrated(tcWire, s)] /\ UNCHANGED <<tcWire, tcItems>>
  BY DEF TcRestarts
<1>2. tcFaults' \in 0..TcFaults
  BY TimedCallAssumption DEF TcRestarts, TcFault, TcInv
<1>3. tcWire \in Seq(TcEntry) /\ KeepsOne(tcWire)
  BY WireKeepsOne DEF TcInv, WireOK
<1>4. ASSUME NEW s \in TcKeepsOne
      PROVE  /\ Rehydrated(tcWire, s) \in 0..TcItems
             /\ \A i \in PlacesOf(tcWire, s) : tcWire[i].n = Rehydrated(tcWire, s)
  <2>1. CASE PlacesOf(tcWire, s) = {}
    BY <2>1, TimedCallAssumption DEF Rehydrated
  <2>2. CASE PlacesOf(tcWire, s) # {}
    <3>1. FirstOf(tcWire, s) \in DOMAIN tcWire /\ tcWire[FirstOf(tcWire, s)].source = s
      BY <1>3, <2>2, FirstIs
    <3>2. FirstOf(tcWire, s) \in PlacesOf(tcWire, s)
      BY <3>1 DEF PlacesOf
    <3>3. \A i \in PlacesOf(tcWire, s) : i = FirstOf(tcWire, s)
      BY <1>3, <3>2 DEF KeepsOne
    <3>4. Rehydrated(tcWire, s) = tcWire[FirstOf(tcWire, s)].n
      BY <2>2 DEF Rehydrated
    <3>5. tcWire[FirstOf(tcWire, s)] \in TcEntry
      BY <1>3, <3>1
    <3>6. tcWire[FirstOf(tcWire, s)].n \in 0..TcItems
      BY <3>5 DEF TcEntry
    <3> QED BY <3>3, <3>4, <3>6
  <2> QED BY <2>1, <2>2
<1>5. WireOK(tcWire', tcTracked')
  <2>1. tcTracked' \in [TcKeepsOne -> 0..TcItems]
    BY <1>1, <1>4
  <2>2. \A s \in TcKeepsOne : \A i \in PlacesOf(tcWire, s) : tcWire[i].n = tcTracked'[s]
    BY <1>1, <1>4
  <2> QED BY <1>1, <2>1, <2>2 DEF TcInv, WireOK
<1> QED BY <1>1, <1>2, <1>5, EmptyQueue DEF TcInv

LEMMA TcStep == TcInv /\ [TcNext]_tcVars => TcInv'
<1> SUFFICES ASSUME TcInv, [TcNext]_tcVars PROVE TcInv'
  OBVIOUS
<1>0. \A f : f = tcFaults + 1 /\ tcFaults < TcFaults => f \in 0..TcFaults
  BY TimedCallAssumption DEF TcInv
<1>1. CASE \E s \in TcSources : TcEnqueue(s)
  BY <1>1, TcEnqueueStep
<1>2. CASE TcDrain
  BY <1>2, TcDrainStep
<1>3. CASE TcTurn
  BY <1>3, TcTurnStep
<1>4. CASE TcWake
  BY <1>4, TcWakeStep
<1>5. CASE TcDefers
  <2>1. /\ tcQueue' = AllQueued(tcQueue, tcTaken) /\ tcTaken' = <<>> /\ tcAt' = "idle"
        /\ UNCHANGED <<tcWire, tcTracked, tcItems>> /\ tcPending' \in BOOLEAN /\ tcFaults' \in 0..TcFaults
    BY <1>5 DEF TcDefers, tcChat, TcInv
  <2> QED BY <2>1, TcRequeue
<1>6. CASE TcSplices
  BY <1>6, TcSplicesStep
<1>7. CASE TcSends
  <2>1. UNCHANGED <<tcQueue, tcWire, tcTracked, tcTaken, tcItems, tcFaults>> /\ tcPending' = FALSE
        /\ tcAt' = IF tcTaken = <<>> THEN "idle" ELSE "woken"
    BY <1>7 DEF TcSends
  <2> QED BY <2>1 DEF TcInv
<1>8. CASE TcSendFails
  <2>1. /\ tcQueue' = AllQueued(tcQueue, tcTaken) /\ tcTaken' = <<>> /\ tcAt' = "idle"
        /\ UNCHANGED <<tcWire, tcTracked, tcItems>> /\ tcPending' \in BOOLEAN /\ tcFaults' \in 0..TcFaults
    BY <1>0, <1>8 DEF TcSendFails, TcFault
  <2> QED BY <2>1, TcRequeue
<1>9. CASE TcMolts
  <2>1. /\ tcWire' = <<>> /\ tcPending' = FALSE /\ tcTracked' = [s \in TcKeepsOne |-> 0]
        /\ tcQueue' = <<>> /\ tcTaken' = tcTaken /\ tcAt' = tcAt /\ tcAt = "idle" /\ tcItems' = tcItems
        /\ tcFaults' \in 0..TcFaults
    BY <1>0, <1>9 DEF TcMolts, TcFault, tcLoop
  <2>2. WireOK(tcWire', tcTracked')
    <3>1. tcTracked' \in [TcKeepsOne -> {0}]
      BY <2>1
    <3> QED BY <2>1, <3>1, EmptyWire
  <2> QED BY <2>1, <2>2, EmptyQueue DEF TcInv
<1>10. CASE TcRestarts
  BY <1>10, TcRestartsStep
<1>11. CASE UNCHANGED tcVars
  BY <1>11 DEF tcVars, TcInv
<1> QED BY <1>1, <1>2, <1>3, <1>4, <1>5, <1>6, <1>7, <1>8, <1>9, <1>10, <1>11 DEF TcNext

LEMMA TcAlways == TcSpec => []TcInv
BY TcFirst, TcStep, PTL DEF TcSpec

LEMMA TcOnce == TcInv => OnePairEach
<1> SUFFICES ASSUME TcInv PROVE OnePairEach
  OBVIOUS
<1>1. KeepsOne(tcQueue) /\ KeepsOne(tcWire)
  BY WireKeepsOne DEF TcInv, QueueOK
<1>2. \A s \in TcKeepsOne, seq \in {tcWire, tcQueue} : \A i, j \in PlacesOf(seq, s) : i = j
  BY <1>1 DEF KeepsOne
<1>3. Numbers(tcWire) \cap (Numbers(tcQueue) \cup Numbers(tcTaken)) = {}
  BY DEF TcInv, Disjoint
<1> QED BY <1>2, <1>3 DEF OnePairEach

\* A source that keeps one pair has at most one in the chat and one in the queue, and no pair is
\* both in the chat and still to come, for any sources, items and failures (tc_inbox.py, turn.py).
THEOREM PairsAlways == TcSpec => []OnePairEach
BY TcAlways, TcOnce, PTL

\* Every value of the inbox is of its type.
LEMMA TcTyped == TcInv => TcTypeOK
BY DEF TcInv, TcTypeOK, QueueOK, WireOK, TcItem, TcEntry

-----------------------------------------------------------------------------
(* FileSearch: the answer                                                  *)

\* The matches of an entry that a walk in this backend looks for.
Wanted(e) == IF IsRust THEN MatchesOf(e) ELSE MatchesFiltered(e)

FsStates == [at : {"idle", "taken", "found", "over"}, entry : FsEntries \cup {""}]
FsPlaces == FsEntries \X (1..FsMaxHits)

FsTypes ==
  /\ fsTree \in [FsEntries -> EntryForms] /\ fsAsk \in Asks
  /\ fsBackend \in {"none", "python", "rust", "refused"} /\ fsLeft \in SUBSET FsEntries
  /\ fsAt \in [FsWorkers -> FsStates]
  /\ fsVisited \in Nat /\ fsCount \in Nat /\ fsHits \in SUBSET FsPlaces
  /\ fsReason \in {"none", "visited", "walltime", "max_results"}
  /\ fsAnswer \in [status : {"none", "ok", "error"}, truncated : BOOLEAN, hits : SUBSET FsPlaces]

\* A worker has the entry in its hands.
Holds(at, w, e) == at[w].at \in {"taken", "found"} /\ at[w].entry = e

\* Every entry that was handed out is with one worker or through.
Through(left, at, e) == e \in Walked \ left /\ \A w \in FsWorkers : ~Holds(at, w, e)

Apart(left, at) ==
  /\ left \in SUBSET Walked
  /\ \A w \in FsWorkers : \A e : Holds(at, w, e) => e \in Walked /\ e \notin left
  /\ \A v, w \in FsWorkers : \A e : Holds(at, v, e) /\ Holds(at, w, e) => v = w
  /\ ~IsRust => \A w \in FsWorkers : \A e : ~Holds(at, w, e)

\* What was collected is of entries that are through, all of it unless the walk was stopped.
FoundSoFar(left, at, hits, reason) ==
  /\ \A h \in hits : Through(left, at, h[1]) /\ h[2] <= Wanted(h[1])
  /\ reason = "none" => \A e \in FsEntries : Through(left, at, e) =>
                          \A i \in 1..Wanted(e) : <<e, i>> \in hits

\* The counter goes over the cap by what is refused, what was collected never.
Counted(count, hits, reason) ==
  /\ IsFiniteSet(hits) /\ Cardinality(hits) = IF count <= fsAsk.cap THEN count ELSE fsAsk.cap
  /\ reason = "max_results" => count >= fsAsk.cap
  /\ ~IsRust => count <= fsAsk.cap

\* The walk ends when nothing is left or when it was stopped.
EndsWell(left, at, reason) ==
  reason = "none" /\ (\A w \in FsWorkers : at[w].at = "over") => left = {}

FsGood(left, at, count, hits, reason) ==
  /\ Apart(left, at) /\ FoundSoFar(left, at, hits, reason) /\ Counted(count, hits, reason)
  /\ EndsWell(left, at, reason)

FsInv ==
  /\ FsTypes /\ SearchHonest
  /\ fsBackend \in {"python", "rust"} => FsGood(fsLeft, fsAt, fsCount, fsHits, fsReason)
  /\ fsBackend = "none" => /\ fsLeft = {} /\ fsHits = {} /\ fsCount = 0 /\ fsReason = "none"
                           /\ \A w \in FsWorkers : fsAt[w].at = "over"
                           /\ fsAnswer.status = "none"

\* How many matches an entry has.
LEMMA WantedIs ==
  ASSUME FsTypes, NEW e \in FsEntries
  PROVE  /\ Wanted(e) \in 0..FsMaxHits /\ MatchesOf(e) \in 0..FsMaxHits
         /\ ~IsRust /\ Wanted(e) > 0 => Passes(e) /\ Wanted(e) = MatchesOf(e)
         /\ ~IsRust /\ Passes(e) => Wanted(e) = MatchesOf(e)
         /\ IsRust => Wanted(e) = MatchesOf(e)
<1>1. FsMaxHits \in Nat /\ FsMaxHits >= 1
  BY FileSearchAssumption
<1>2. fsTree[e].hits \in 0..FsMaxHits
  BY DEF FsTypes, EntryForms
<1>3. MatchesOf(e) \in 0..FsMaxHits
  BY <1>1, <1>2 DEF MatchesOf
<1>4. CASE IsRust
  BY <1>3, <1>4 DEF Wanted
<1>5. CASE ~IsRust
  <2>1. Wanted(e) = IF Passes(e) THEN MatchesOf(e) ELSE 0
    BY <1>5 DEF Wanted, MatchesFiltered
  <2> QED BY <1>1, <1>3, <1>5, <2>1
<1> QED BY <1>4, <1>5

\* Lines of an entry that had none before add to the number.
LEMMA LinesAdd ==
  ASSUME NEW hits, IsFiniteSet(hits), NEW e, NEW n \in Nat, NEW more,
         \A h : h \in more <=> h \in hits \/ \E i \in 1..n : h = <<e, i>>, \A h \in hits : h[1] # e
  PROVE  IsFiniteSet(more) /\ Cardinality(more) = Cardinality(hits) + n
<1>1. PICK lines : lines = {<<e, i>> : i \in 1..n}
  OBVIOUS
<1>2. IsFiniteSet(lines) /\ Cardinality(lines) = n
  <2>1. IsFiniteSet(1..n) /\ Cardinality(1..n) = n
    <3>1. 1 \in Int /\ n \in Int
      OBVIOUS
    <3>2. IsFiniteSet(1..n) /\ Cardinality(1..n) = IF 1 > n THEN 0 ELSE n - 1 + 1
      BY <3>1, FS_Interval
    <3>3. (IF 1 > n THEN 0 ELSE n - 1 + 1) = n
      OBVIOUS
    <3> QED BY <3>2, <3>3
  <2>2. PICK f : f = [i \in 1..n |-> <<e, i>>]
    OBVIOUS
  <2>3. f \in Bijection(1..n, lines)
    <3>1. f \in [1..n -> lines]
      BY <1>1, <2>2
    <3>2. \A i, j \in 1..n : f[i] = f[j] => i = j
      BY <2>2
    <3>3. \A l \in lines : \E i \in 1..n : f[i] = l
      BY <1>1, <2>2
    <3> QED BY <3>1, <3>2, <3>3 DEF Bijection, Injection, Surjection, IsInjective
  <2>4. ExistsBijection(1..n, lines)
    BY <2>3 DEF ExistsBijection
  <2> QED BY <2>1, <2>4, FS_Bijection
<1>3. hits \cap lines = {}
  <2> SUFFICES ASSUME NEW h \in hits, h \in lines PROVE FALSE
    OBVIOUS
  <2>1. h[1] = e
    BY <1>1
  <2> QED BY <2>1
<1>4. more = hits \cup lines
  BY <1>1
<1>5. Cardinality(hits \cap lines) = 0
  BY <1>3, FS_EmptySet
<1>6. Cardinality(hits) \in Nat
  BY FS_CardinalityType
<1>7. /\ IsFiniteSet(hits \cup lines)
      /\ Cardinality(hits \cup lines) = Cardinality(hits) + Cardinality(lines) - Cardinality(hits \cap lines)
  BY <1>2, FS_Union
<1>8. PICK a, b, c, d : a = Cardinality(hits) /\ b = Cardinality(lines) /\ c = Cardinality(hits \cap lines)
                        /\ d = Cardinality(hits \cup lines)
  OBVIOUS
<1>9. d = a + b - c /\ b = n /\ c = 0 /\ a \in Nat
  BY <1>2, <1>5, <1>6, <1>7, <1>8
<1>10. d = a + n
  BY <1>9
<1> QED BY <1>4, <1>7, <1>8, <1>10

\* What is wanted does not change while the call is the same.
LEMMA SameCall ==
  ASSUME UNCHANGED fsCall
  PROVE  /\ Walked' = Walked /\ IsRust' = IsRust /\ AllMatches' = AllMatches
         /\ \A e : Wanted(e)' = Wanted(e) /\ Passes(e)' = Passes(e)
<1>1. IsRust' = IsRust /\ Walked' = Walked /\ Readable' = Readable /\ Listed' = Listed
  BY DEF fsCall, IsRust, Walked, Readable, Listed
<1>2. \A e : MatchesOf(e)' = MatchesOf(e) /\ Passes(e)' = Passes(e)
  BY <1>1 DEF fsCall, MatchesOf, Passes
<1>3. \A e : Wanted(e)' = Wanted(e)
  BY <1>1, <1>2 DEF Wanted, MatchesFiltered
<1>4. AllMatches' = AllMatches
  BY <1>1, <1>2 DEF AllMatches
<1> QED BY <1>1, <1>2, <1>3, <1>4

LEMMA StaysGood ==
  ASSUME UNCHANGED fsCall, NEW left, NEW at, NEW count, NEW hits, NEW reason, FsGood(left, at, count, hits, reason)
  PROVE  FsGood(left, at, count, hits, reason)'
<1>1. Walked' = Walked /\ IsRust' = IsRust /\ fsAsk' = fsAsk /\ \A e : Wanted(e)' = Wanted(e)
  BY SameCall DEF fsCall
<1>2. \A e : Through(left, at, e)' = Through(left, at, e)
  BY <1>1 DEF Through
<1>3. Apart(left, at)'
  BY <1>1 DEF FsGood, Apart
<1>4. FoundSoFar(left, at, hits, reason)'
  BY <1>1, <1>2 DEF FsGood, FoundSoFar
<1>5. Counted(count, hits, reason)'
  BY <1>1 DEF FsGood, Counted
<1>6. EndsWell(left, at, reason)'
  BY DEF FsGood, EndsWell
<1> QED BY <1>3, <1>4, <1>5, <1>6 DEF FsGood

\* A worker with nothing in its hands stops or waits, of its own accord or not.
LEMMA IdlesOn ==
  ASSUME FsTypes, FsGood(fsLeft, fsAt, fsCount, fsHits, fsReason), NEW w \in FsWorkers,
         \A e : ~Holds(fsAt, w, e),
         NEW next \in FsStates, next.at \in {"idle", "over"},
         NEW reason, fsReason # "none" => reason # "none", reason = "max_results" => fsReason = "max_results",
         reason = "none" /\ next.at = "over" => fsLeft = {},
         NEW to, to = [fsAt EXCEPT ![w] = next]
  PROVE  FsGood(fsLeft, to, fsCount, fsHits, reason)
<1>1. /\ \A v \in FsWorkers : v # w => \A e : Holds(to, v, e) <=> Holds(fsAt, v, e)
      /\ \A e : ~Holds(to, w, e)
      /\ to[w] = next
  <2>1. fsAt \in [FsWorkers -> FsStates]
    BY DEF FsTypes
  <2>2. to[w] = next /\ \A v \in FsWorkers : v # w => to[v] = fsAt[v]
    BY <2>1
  <2> QED BY <2>2 DEF Holds
<1>2. \A v \in FsWorkers : \A e : Holds(to, v, e) <=> Holds(fsAt, v, e)
  BY <1>1
<1>3. \A e : Through(fsLeft, to, e) <=> Through(fsLeft, fsAt, e)
  BY <1>2 DEF Through
<1>4. Apart(fsLeft, to)
  BY <1>2 DEF FsGood, Apart
<1>5. FoundSoFar(fsLeft, to, fsHits, reason)
  BY <1>3 DEF FsGood, FoundSoFar
<1>6. Counted(fsCount, fsHits, reason)
  BY DEF FsGood, Counted
<1>7. EndsWell(fsLeft, to, reason)
  BY <1>1 DEF EndsWell
<1> QED BY <1>4, <1>5, <1>6, <1>7 DEF FsGood

\* An entry goes through a worker that held it, or handed out and searched at once, with its
\* matches all collected or the walk stopped.
LEMMA LetsGo ==
  ASSUME FsTypes, FsGood(fsLeft, fsAt, fsCount, fsHits, fsReason), NEW w \in FsWorkers, NEW e \in FsEntries,
         NEW left, \/ Holds(fsAt, w, e) /\ left = fsLeft
                   \/ e \in fsLeft /\ left = fsLeft \ {e} /\ \A x : ~Holds(fsAt, w, x),
         NEW next \in FsStates, next.at \in {"idle", "over"},
         NEW reason, fsReason # "none" => reason # "none",
         NEW n \in Nat, n <= Wanted(e), reason = "none" => n = Wanted(e) /\ next.at = "idle",
         NEW hits, \A h : h \in hits <=> h \in fsHits \/ \E i \in 1..n : h = <<e, i>>,
         NEW count, Counted(count, hits, reason),
         NEW to, to[w] = next, \A v \in FsWorkers : v # w => to[v] = fsAt[v]
  PROVE  FsGood(left, to, count, hits, reason)
<1>1. /\ \A v \in FsWorkers : v # w => \A x : Holds(to, v, x) <=> Holds(fsAt, v, x)
      /\ \A x : ~Holds(to, w, x)
      /\ to[w] = next
  BY DEF Holds
<1>2. Apart(fsLeft, fsAt) /\ FoundSoFar(fsLeft, fsAt, fsHits, fsReason)
  BY DEF FsGood
<1>3. \A x : Holds(fsAt, w, x) => x = e
  BY DEF Holds
<1>4. \A v \in FsWorkers : v # w => ~Holds(fsAt, v, e)
  BY <1>2 DEF Apart
<1>40. e \in Walked /\ e \notin left /\ left \in SUBSET fsLeft /\ \A x : x # e => (x \in left <=> x \in fsLeft)
  BY <1>2 DEF Apart
<1>5. \A x : Through(left, to, x) <=> Through(fsLeft, fsAt, x) \/ x = e
  <2>1. Through(left, to, e)
    BY <1>1, <1>4, <1>40 DEF Through
  <2>2. ASSUME NEW x, x # e PROVE Through(left, to, x) <=> Through(fsLeft, fsAt, x)
    BY <1>1, <1>3, <1>40, <2>2 DEF Through
  <2> QED BY <2>1, <2>2
<1>6. Apart(left, to)
  <2>1. \A v \in FsWorkers : \A x : Holds(to, v, x) => Holds(fsAt, v, x)
    BY <1>1
  <2> QED BY <1>2, <1>40, <2>1 DEF Apart
<1>7. FoundSoFar(left, to, hits, reason)
  <2>1. ASSUME NEW h \in hits PROVE Through(left, to, h[1]) /\ h[2] <= Wanted(h[1])
    <3>1. CASE h \in fsHits
      BY <1>2, <1>5, <3>1 DEF FoundSoFar
    <3>2. CASE \E i \in 1..n : h = <<e, i>>
      <4>1. PICK i \in 1..n : h = <<e, i>>
        BY <3>2
      <4>2. i <= Wanted(e)
        <5>1. Wanted(e) \in Nat
          BY WantedIs, FileSearchAssumption
        <5> QED BY <4>1, <5>1
      <4> QED BY <1>5, <4>1, <4>2
    <3> QED BY <3>1, <3>2
  <2>2. ASSUME reason = "none", NEW x \in FsEntries, Through(left, to, x), NEW i \in 1..Wanted(x)
        PROVE  <<x, i>> \in hits
    <3>1. CASE x = e
      BY <2>2, <3>1
    <3>2. CASE x # e
      <4>1. Through(fsLeft, fsAt, x) /\ fsReason = "none"
        BY <1>5, <2>2, <3>2
      <4>2. <<x, i>> \in fsHits
        BY <1>2, <2>2, <4>1 DEF FoundSoFar
      <4> QED BY <4>2
    <3> QED BY <3>1, <3>2
  <2> QED BY <2>1, <2>2 DEF FoundSoFar
<1>8. EndsWell(left, to, reason)
  BY <1>1 DEF EndsWell
<1> QED BY <1>6, <1>7, <1>8 DEF FsGood

\* A worker of the walk: what it takes with it and what it leaves.
WalkTypes(left, at, visited, count, hits, reason) ==
  /\ left \in SUBSET FsEntries /\ at \in [FsWorkers -> FsStates]
  /\ visited \in Nat /\ count \in Nat /\ hits \in SUBSET FsPlaces
  /\ reason \in {"none", "visited", "walltime", "max_results"}

\* What a step of a worker has to show.
LEMMA WorkDone ==
  ASSUME FsInv, UNCHANGED <<fsCall, fsAnswer>>, Searching,
         WalkTypes(fsLeft, fsAt, fsVisited, fsCount, fsHits, fsReason)',
         NEW left, NEW at, NEW count, NEW hits, NEW reason,
         left = fsLeft' /\ at = fsAt' /\ count = fsCount' /\ hits = fsHits' /\ reason = fsReason',
         FsGood(left, at, count, hits, reason)
  PROVE  FsInv'
<1>0. UNCHANGED fsCall /\ fsAnswer' = fsAnswer /\ fsAnswer.status = "none"
  BY DEF Searching
<1>1. FsGood(left, at, count, hits, reason)'
  BY <1>0, StaysGood
<1>2. FsTypes'
  BY DEF FsInv, FsTypes, WalkTypes, fsCall
<1>3. SearchHonest'
  BY <1>0 DEF SearchHonest
<1>4. fsBackend' = fsBackend /\ fsBackend # "none"
  BY DEF fsCall, Searching
<1>5. FsGood(fsLeft, fsAt, fsCount, fsHits, fsReason)'
  BY <1>1
<1> QED BY <1>2, <1>3, <1>4, <1>5 DEF FsInv

LEMMA WalkGoes ==
  ASSUME FsInv, Searching
  PROVE  /\ FsTypes /\ FsGood(fsLeft, fsAt, fsCount, fsHits, fsReason)
         /\ WalkTypes(fsLeft, fsAt, fsVisited, fsCount, fsHits, fsReason)
         /\ FsIdle \in FsStates /\ FsOver \in FsStates
         /\ fsAsk.cap \in Nat
<1>1. FsTypes /\ FsGood(fsLeft, fsAt, fsCount, fsHits, fsReason)
  BY DEF FsInv, Searching
<1>2. FsIdle \in FsStates /\ FsOver \in FsStates
  BY DEF FsIdle, FsOver, FsStates
<1>3. fsAsk.cap \in Nat
  BY <1>1 DEF FsTypes, Asks
<1> QED BY <1>1, <1>2, <1>3 DEF FsTypes, WalkTypes

\* A worker takes an entry, or is over.
LEMMA TakesGood ==
  ASSUME FsInv, NEW w \in FsWorkers, FsTakes(w)
  PROVE  FsInv'
<1>1. /\ Searching /\ IsRust /\ fsAt[w].at = "idle"
      /\ UNCHANGED <<fsCall, fsVisited, fsCount, fsHits, fsReason, fsAnswer>>
  BY DEF FsTakes
<1>2. /\ FsTypes /\ FsGood(fsLeft, fsAt, fsCount, fsHits, fsReason)
      /\ WalkTypes(fsLeft, fsAt, fsVisited, fsCount, fsHits, fsReason)
      /\ FsIdle \in FsStates /\ FsOver \in FsStates
  BY <1>1, WalkGoes
<1>3. \A x : ~Holds(fsAt, w, x)
  BY <1>1 DEF Holds
<1>4. fsAt \in [FsWorkers -> FsStates]
  BY <1>2 DEF FsTypes
<1>5. CASE fsLeft = {} \/ fsReason # "none"
  <2>1. fsAt' = [fsAt EXCEPT ![w] = FsOver] /\ fsLeft' = fsLeft
    BY <1>5 DEF FsTakes, FsMoves
  <2>2. PICK to : to = fsAt' /\ to = [fsAt EXCEPT ![w] = FsOver]
    BY <2>1
  <2>3. FsOver.at = "over"
    BY DEF FsOver
  <2>4. FsGood(fsLeft, to, fsCount, fsHits, fsReason)
    <3>1. FsOver.at \in {"idle", "over"} /\ (fsReason = "none" /\ FsOver.at = "over" => fsLeft = {})
      BY <1>5, <2>3
    <3> QED BY <1>2, <1>3, <2>2, <3>1, IdlesOn
  <2>5. WalkTypes(fsLeft, fsAt, fsVisited, fsCount, fsHits, fsReason)'
    BY <1>1, <1>2, <1>4, <2>1 DEF WalkTypes
  <2> QED BY <1>1, <2>1, <2>2, <2>4, <2>5, WorkDone
<1>6. CASE ~(fsLeft = {} \/ fsReason # "none")
  <2>1. PICK e \in fsLeft : /\ fsAt' = [fsAt EXCEPT ![w] = [at |-> "taken", entry |-> e]]
                            /\ fsLeft' = fsLeft \ {e}
    BY <1>6 DEF FsTakes, FsMoves
  <2>2. PICK to, left, next : to = fsAt' /\ left = fsLeft' /\ next = [at |-> "taken", entry |-> e]
    OBVIOUS
  <2>3. e \in FsEntries /\ next \in FsStates /\ next.at = "taken" /\ next.entry = e
    BY <1>2, <2>1, <2>2 DEF FsTypes, FsStates
  <2>4. to[w] = next /\ \A v \in FsWorkers : v # w => to[v] = fsAt[v]
    BY <1>4, <2>1, <2>2
  <2>5. /\ \A v \in FsWorkers : v # w => \A x : Holds(to, v, x) <=> Holds(fsAt, v, x)
        /\ \A x : Holds(to, w, x) <=> x = e
    BY <2>3, <2>4 DEF Holds
  <2>6. Apart(fsLeft, fsAt) /\ FoundSoFar(fsLeft, fsAt, fsHits, fsReason)
    BY <1>2 DEF FsGood
  <2>7. \A v \in FsWorkers : ~Holds(fsAt, v, e)
    BY <2>1, <2>6 DEF Apart
  <2>8. Apart(left, to)
    <3>1. left \in SUBSET Walked /\ e \in Walked /\ e \notin left
      BY <2>1, <2>2, <2>6 DEF Apart
    <3>20. left \in SUBSET fsLeft
      BY <2>1, <2>2
    <3>2. ASSUME NEW v \in FsWorkers, NEW x, Holds(to, v, x) PROVE x \in Walked /\ x \notin left
      <4>1. CASE v = w
        BY <2>5, <3>1, <3>2, <4>1
      <4>2. CASE v # w
        <5>1. Holds(fsAt, v, x)
          BY <2>5, <3>2, <4>2
        <5> QED BY <2>6, <3>20, <5>1 DEF Apart
      <4> QED BY <4>1, <4>2
    <3>3. ASSUME NEW u \in FsWorkers, NEW v \in FsWorkers, NEW x, Holds(to, u, x), Holds(to, v, x)
          PROVE  u = v
      <4>1. CASE x = e
        BY <2>5, <2>7, <3>3, <4>1
      <4>2. CASE x # e
        BY <2>5, <2>6, <3>3, <4>2 DEF Apart
      <4> QED BY <4>1, <4>2
    <3> QED BY <1>1, <3>1, <3>2, <3>3 DEF Apart
  <2>9. \A x : Through(left, to, x) <=> Through(fsLeft, fsAt, x)
    <3>1. ASSUME NEW x, Through(left, to, x) PROVE Through(fsLeft, fsAt, x)
      <4>1. x # e
        BY <2>5, <3>1 DEF Through
      <4> QED BY <1>3, <2>1, <2>2, <2>5, <3>1, <4>1 DEF Through
    <3>2. ASSUME NEW x, Through(fsLeft, fsAt, x) PROVE Through(left, to, x)
      <4>1. x # e
        BY <2>1, <3>2 DEF Through
      <4> QED BY <2>1, <2>2, <2>5, <3>2, <4>1 DEF Through
    <3> QED BY <3>1, <3>2
  <2>10. FoundSoFar(left, to, fsHits, fsReason)
    BY <2>6, <2>9 DEF FoundSoFar
  <2>11. Counted(fsCount, fsHits, fsReason)
    BY <1>2 DEF FsGood
  <2>12. EndsWell(left, to, fsReason)
    BY <2>3, <2>4 DEF EndsWell
  <2>13. FsGood(left, to, fsCount, fsHits, fsReason)
    BY <2>8, <2>10, <2>11, <2>12 DEF FsGood
  <2>14. to \in [FsWorkers -> FsStates]
    BY <1>4, <2>1, <2>2, <2>3
  <2>15. WalkTypes(fsLeft, fsAt, fsVisited, fsCount, fsHits, fsReason)'
    BY <1>1, <1>2, <2>1, <2>2, <2>14 DEF WalkTypes
  <2> QED BY <1>1, <2>2, <2>13, <2>15, WorkDone
<1> QED BY <1>5, <1>6

\* What the counter is when a worker stops, or leaves with nothing.
LEMMA StillCounted ==
  ASSUME Counted(fsCount, fsHits, fsReason), NEW reason, reason = "max_results" => fsReason = "max_results"
  PROVE  Counted(fsCount, fsHits, reason)
  BY DEF Counted

\* A worker that visits an entry takes it on, drops it with no match, or stops.
LEMMA VisitsGood ==
  ASSUME FsInv, NEW w \in FsWorkers, FsVisits(w)
  PROVE  FsInv'
<1>1. /\ Searching /\ fsAt[w].at = "taken" /\ fsVisited' = fsVisited + 1
      /\ UNCHANGED <<fsCall, fsLeft, fsCount, fsHits, fsAnswer>>
  BY DEF FsVisits
<1>2. /\ FsTypes /\ FsGood(fsLeft, fsAt, fsCount, fsHits, fsReason)
      /\ WalkTypes(fsLeft, fsAt, fsVisited, fsCount, fsHits, fsReason)
      /\ FsIdle \in FsStates /\ FsOver \in FsStates
  BY <1>1, WalkGoes
<1>3. PICK e : e = fsAt[w].entry
  OBVIOUS
<1>4. /\ Apart(fsLeft, fsAt) /\ Counted(fsCount, fsHits, fsReason) /\ fsAt \in [FsWorkers -> FsStates]
      /\ Walked \in SUBSET FsEntries
  BY <1>2 DEF FsGood, FsTypes, Walked
<1>5. Holds(fsAt, w, e)
  BY <1>1, <1>3 DEF Holds
<1>6. e \in FsEntries /\ IsRust
  BY <1>4, <1>5 DEF Apart
<1>7. Wanted(e) \in Nat /\ Wanted(e) = MatchesOf(e)
  BY <1>2, <1>6, WantedIs, FileSearchAssumption
<1>8. ASSUME NEW next \in FsStates, next.at \in {"idle", "over"}, fsAt' = [fsAt EXCEPT ![w] = next],
             fsReason # "none" => fsReason' # "none", fsReason' = "max_results" => fsReason = "max_results",
             fsReason' = "none" => Wanted(e) = 0 /\ next.at = "idle",
             fsReason' \in {"none", "visited", "walltime", "max_results"}
      PROVE  FsInv'
  <2>1. PICK to, reason : to = fsAt' /\ to = [fsAt EXCEPT ![w] = next] /\ reason = fsReason'
    BY <1>8
  <2>2. Counted(fsCount, fsHits, reason)
    BY <1>4, <1>8, <2>1, StillCounted
  <2>3. FsGood(fsLeft, to, fsCount, fsHits, reason)
    <3>1. \A h : h \in fsHits <=> h \in fsHits \/ \E i \in 1..0 : h = <<e, i>>
      OBVIOUS
    <3>10. to[w] = next /\ \A v \in FsWorkers : v # w => to[v] = fsAt[v]
      BY <1>4, <2>1
    <3>2. 0 \in Nat /\ 0 <= Wanted(e) /\ (reason = "none" => 0 = Wanted(e) /\ next.at = "idle")
      BY <1>7, <1>8, <2>1
    <3>3. fsReason # "none" => reason # "none"
      BY <1>8, <2>1
    <3> QED BY <1>2, <1>5, <1>6, <1>8, <2>2, <3>1, <3>10, <3>2, <3>3, LetsGo
  <2>4. WalkTypes(fsLeft, fsAt, fsVisited, fsCount, fsHits, fsReason)'
    BY <1>1, <1>2, <1>4, <1>8 DEF WalkTypes
  <2> QED BY <1>1, <2>1, <2>3, <2>4, WorkDone
<1>9. ASSUME NEW why \in {"visited", "walltime"}, Stopped(w, why) PROVE FsInv'
  <2>1. /\ fsAt' = [fsAt EXCEPT ![w] = FsOver] /\ FsOver.at = "over"
        /\ fsReason' = IF fsReason = "none" THEN why ELSE fsReason
    BY <1>9 DEF Stopped, FsMoves, FsOver
  <2>2. /\ fsReason # "none" => fsReason' # "none"
        /\ fsReason' = "max_results" => fsReason = "max_results"
        /\ fsReason' # "none" /\ fsReason' \in {"none", "visited", "walltime", "max_results"}
    BY <1>2, <2>1 DEF WalkTypes
  <2> QED BY <1>2, <1>8, <2>1, <2>2
<1>10. CASE MatchesOf(e) = 0 /\ fsAt' = [fsAt EXCEPT ![w] = FsIdle] /\ fsReason' = fsReason
  <2>1. FsIdle.at = "idle" /\ Wanted(e) = 0
    BY <1>7, <1>10 DEF FsIdle
  <2>2. fsReason \in {"none", "visited", "walltime", "max_results"}
    BY <1>2 DEF WalkTypes
  <2> QED BY <1>2, <1>8, <1>10, <2>1, <2>2
<1>11. CASE MatchesOf(e) # 0 /\ fsAt' = [fsAt EXCEPT ![w] = [fsAt[w] EXCEPT !.at = "found"]] /\ fsReason' = fsReason
  <2>1. PICK next : next = [fsAt[w] EXCEPT !.at = "found"]
    OBVIOUS
  <2>2. next = [at |-> "found", entry |-> e]
    BY <1>3, <1>4, <2>1 DEF FsStates
  <2>3. next \in FsStates /\ next.at = "found" /\ next.entry = e
    BY <1>6, <2>2 DEF FsStates
  <2>4. PICK to : to = fsAt' /\ to = [fsAt EXCEPT ![w] = next]
    BY <1>11, <2>1
  <2>5. to[w] = next /\ (\A v \in FsWorkers : v # w => to[v] = fsAt[v]) /\ to \in [FsWorkers -> FsStates]
    BY <1>4, <2>3, <2>4
  <2>6. \A v \in FsWorkers : \A x : Holds(to, v, x) <=> Holds(fsAt, v, x)
    <3>1. \A x : Holds(to, w, x) <=> Holds(fsAt, w, x)
      BY <1>1, <1>3, <2>3, <2>5 DEF Holds
    <3>2. \A v \in FsWorkers : v # w => \A x : Holds(to, v, x) <=> Holds(fsAt, v, x)
      BY <2>5 DEF Holds
    <3> QED BY <3>1, <3>2
  <2>7. \A x : Through(fsLeft, to, x) <=> Through(fsLeft, fsAt, x)
    BY <2>6 DEF Through
  <2>8. Apart(fsLeft, to) /\ FoundSoFar(fsLeft, to, fsHits, fsReason)
    BY <1>2, <1>4, <2>6, <2>7 DEF FsGood, Apart, FoundSoFar
  <2>9. EndsWell(fsLeft, to, fsReason)
    BY <2>3, <2>5 DEF EndsWell
  <2>10. FsGood(fsLeft, to, fsCount, fsHits, fsReason)
    BY <1>4, <2>8, <2>9 DEF FsGood
  <2>11. WalkTypes(fsLeft, fsAt, fsVisited, fsCount, fsHits, fsReason)'
    BY <1>1, <1>2, <1>11, <2>4, <2>5 DEF WalkTypes
  <2> QED BY <1>1, <1>11, <2>4, <2>10, <2>11, WorkDone
<1>12. \/ Stopped(w, "visited") \/ Stopped(w, "walltime")
       \/ /\ fsAt' = [fsAt EXCEPT ![w] = IF MatchesOf(e) = 0 THEN FsIdle ELSE [fsAt[w] EXCEPT !.at = "found"]]
          /\ fsReason' = fsReason
  BY <1>3 DEF FsVisits, FsMoves
<1> QED BY <1>9, <1>10, <1>11, <1>12

\* A worker collects what the counter lets in.
LEMMA CommitsGood ==
  ASSUME FsInv, NEW w \in FsWorkers, FsCommits(w)
  PROVE  FsInv'
<1>1. /\ Searching /\ fsAt[w].at = "found"
      /\ UNCHANGED <<fsCall, fsLeft, fsVisited, fsAnswer>>
  BY DEF FsCommits
<1>2. /\ FsTypes /\ FsGood(fsLeft, fsAt, fsCount, fsHits, fsReason)
      /\ WalkTypes(fsLeft, fsAt, fsVisited, fsCount, fsHits, fsReason)
      /\ FsIdle \in FsStates /\ FsOver \in FsStates /\ fsAsk.cap \in Nat
  BY <1>1, WalkGoes
<1>3. PICK e, n, in : e = fsAt[w].entry /\ n = MatchesOf(e) /\ in = Admitted(n)
  OBVIOUS
<1>4. /\ Apart(fsLeft, fsAt) /\ Counted(fsCount, fsHits, fsReason) /\ fsAt \in [FsWorkers -> FsStates]
      /\ Walked \in SUBSET FsEntries /\ FoundSoFar(fsLeft, fsAt, fsHits, fsReason)
  BY <1>2 DEF FsGood, FsTypes, Walked
<1>5. Holds(fsAt, w, e)
  BY <1>1, <1>3 DEF Holds
<1>6. e \in FsEntries /\ IsRust
  BY <1>4, <1>5 DEF Apart
<1>7. Wanted(e) \in 0..FsMaxHits /\ Wanted(e) = n /\ FsMaxHits \in Nat /\ n \in Nat /\ n <= FsMaxHits
  <2>1. FsMaxHits \in Nat
    BY FileSearchAssumption
  <2>2. Wanted(e) \in 0..FsMaxHits /\ Wanted(e) = n
    BY <1>2, <1>3, <1>6, WantedIs
  <2> QED BY <2>1, <2>2
<1>8. fsCount \in Nat
  BY <1>2 DEF WalkTypes
<1>9. in \in Nat /\ in <= n /\ (in = n \/ fsCount + n > fsAsk.cap)
      /\ (fsCount + n <= fsAsk.cap => in = n)
      /\ (fsCount + n > fsAsk.cap => in = IF fsCount >= fsAsk.cap THEN 0 ELSE fsAsk.cap - fsCount)
  BY <1>2, <1>3, <1>7, <1>8 DEF Admitted
<1>10. PICK hits, to, reason, count, next :
         /\ hits = fsHits' /\ hits = fsHits \cup {<<e, i>> : i \in 1..in}
         /\ to = fsAt' /\ to = [fsAt EXCEPT ![w] = next] /\ count = fsCount' /\ reason = fsReason'
         /\ \/ in = n /\ count = fsCount + n /\ next = FsIdle /\ reason = fsReason
            \/ /\ in # n /\ count = fsCount + in + 1 /\ next = FsOver
               /\ reason = IF fsReason = "none" THEN "max_results" ELSE fsReason
  <2>1. /\ fsHits' = fsHits \cup {<<e, i>> : i \in 1..in}
        /\ \/ in = n /\ fsCount' = fsCount + n /\ fsAt' = [fsAt EXCEPT ![w] = FsIdle] /\ fsReason' = fsReason
           \/ /\ in # n /\ fsCount' = fsCount + in + 1 /\ fsAt' = [fsAt EXCEPT ![w] = FsOver]
              /\ fsReason' = IF fsReason = "none" THEN "max_results" ELSE fsReason
    BY <1>3 DEF FsCommits, Gathered, Stopped, FsMoves
  <2> QED BY <2>1
<1>11. next \in FsStates /\ next.at \in {"idle", "over"} /\ (in = n => next.at = "idle")
  <2>1. CASE in = n
    <3>1. next = FsIdle
      BY <1>10, <2>1
    <3> QED BY <1>2, <2>1, <3>1 DEF FsIdle
  <2>2. CASE in # n
    <3>1. next = FsOver
      BY <1>10, <2>2
    <3> QED BY <1>2, <2>2, <3>1 DEF FsOver
  <2> QED BY <2>1, <2>2
<1>110. \A h : h \in hits <=> h \in fsHits \/ \E i \in 1..in : h = <<e, i>>
  BY <1>10
<1>111. to[w] = next /\ \A v \in FsWorkers : v # w => to[v] = fsAt[v]
  BY <1>4, <1>10
<1>12. \A h \in fsHits : h[1] # e
  BY <1>4, <1>5 DEF FoundSoFar, Through
<1>13. IsFiniteSet(hits) /\ Cardinality(hits) = Cardinality(fsHits) + in
  <2>1. IsFiniteSet(fsHits)
    BY <1>4 DEF Counted
  <2> QED BY <1>9, <1>110, <1>12, <2>1, LinesAdd
<1>14. Counted(count, hits, reason)
  <2>1. Cardinality(fsHits) = IF fsCount <= fsAsk.cap THEN fsCount ELSE fsAsk.cap
    BY <1>4 DEF Counted
  <2>2. PICK a, b, cap : a = Cardinality(fsHits) /\ b = Cardinality(hits) /\ cap = fsAsk.cap
    OBVIOUS
  <2>3. b = IF count <= cap THEN count ELSE cap
    BY <1>2, <1>7, <1>8, <1>9, <1>10, <1>13, <2>1, <2>2
  <2>4. reason = "max_results" => count >= cap
    BY <1>2, <1>4, <1>7, <1>8, <1>9, <1>10, <2>2 DEF Counted
  <2> QED BY <1>6, <1>13, <2>2, <2>3, <2>4 DEF Counted
<1>15. FsGood(fsLeft, to, count, hits, reason)
  <2>1. fsReason # "none" => reason # "none"
    BY <1>10
  <2>2. reason = "none" => in = Wanted(e) /\ next.at = "idle"
    BY <1>7, <1>10, <1>11
  <2>3. in <= Wanted(e)
    BY <1>7, <1>9
  <2>4. in \in Nat /\ in <= Wanted(e)
    BY <1>9, <2>3
  <2>5. e \in FsEntries
    BY <1>6
  <2>6. FsTypes /\ FsGood(fsLeft, fsAt, fsCount, fsHits, fsReason) /\ fsLeft = fsLeft
    BY <1>2
  <2>7. next \in FsStates /\ next.at \in {"idle", "over"}
    BY <1>11
  <2> QED BY <1>5, <1>110, <1>111, <1>14, <2>1, <2>2, <2>4, <2>5, <2>6, <2>7, LetsGo, Zenon
<1>16. WalkTypes(fsLeft, fsAt, fsVisited, fsCount, fsHits, fsReason)'
  <2>1. to \in [FsWorkers -> FsStates]
    BY <1>4, <1>10, <1>11
  <2>2. hits \in SUBSET FsPlaces
    <3>1. \A i \in 1..in : i \in 1..FsMaxHits
      BY <1>7, <1>9
    <3> QED BY <1>2, <1>6, <1>10, <3>1 DEF WalkTypes, FsPlaces
  <2>3. count \in Nat
    BY <1>7, <1>8, <1>9, <1>10
  <2>4. reason \in {"none", "visited", "walltime", "max_results"}
    BY <1>2, <1>10 DEF WalkTypes
  <2> QED BY <1>1, <1>2, <1>10, <2>1, <2>2, <2>3, <2>4 DEF WalkTypes
<1> QED BY <1>1, <1>10, <1>15, <1>16, WorkDone

\* The thread of the Python walk takes an entry, and what it holds of it while the cap allows, or stops.
LEMMA WalksGood ==
  ASSUME FsInv, NEW w \in FsWorkers, FsWalks(w)
  PROVE  FsInv'
<1>1. /\ Searching /\ ~IsRust /\ fsAt[w].at = "idle"
      /\ UNCHANGED <<fsCall, fsAnswer>>
  BY DEF FsWalks
<1>2. /\ FsTypes /\ FsGood(fsLeft, fsAt, fsCount, fsHits, fsReason)
      /\ WalkTypes(fsLeft, fsAt, fsVisited, fsCount, fsHits, fsReason)
      /\ FsIdle \in FsStates /\ FsOver \in FsStates /\ fsAsk.cap \in Nat
  BY <1>1, WalkGoes
<1>3. \A x : ~Holds(fsAt, w, x)
  BY <1>1 DEF Holds
<1>4. /\ Apart(fsLeft, fsAt) /\ Counted(fsCount, fsHits, fsReason) /\ fsAt \in [FsWorkers -> FsStates]
      /\ FoundSoFar(fsLeft, fsAt, fsHits, fsReason) /\ fsLeft \in SUBSET FsEntries
  BY <1>2 DEF FsGood, FsTypes
<1>5. fsCount \in Nat /\ fsVisited \in Nat /\ fsCount <= fsAsk.cap /\ Cardinality(fsHits) = fsCount
  BY <1>1, <1>2, <1>4 DEF WalkTypes, Counted
<1>6. CASE fsLeft = {}
  <2>1. fsAt' = [fsAt EXCEPT ![w] = FsOver] /\ UNCHANGED <<fsLeft, fsVisited, fsCount, fsHits, fsReason>>
    BY <1>6 DEF FsWalks, FsMoves
  <2>2. PICK to : to = fsAt' /\ to = [fsAt EXCEPT ![w] = FsOver]
    BY <2>1
  <2>3. FsOver.at \in {"idle", "over"}
    BY DEF FsOver
  <2>4. FsGood(fsLeft, to, fsCount, fsHits, fsReason)
    BY <1>2, <1>3, <1>6, <2>2, <2>3, IdlesOn
  <2>5. WalkTypes(fsLeft, fsAt, fsVisited, fsCount, fsHits, fsReason)'
    BY <1>2, <1>4, <2>1 DEF WalkTypes
  <2> QED BY <1>1, <2>1, <2>2, <2>4, <2>5, WorkDone
<1>7. CASE fsLeft # {}
  <2>1. PICK e \in fsLeft :
          /\ fsLeft' = fsLeft \ {e}
          /\ \/ Stopped(w, "walltime") /\ UNCHANGED <<fsVisited, fsCount, fsHits>>
             \/ /\ fsVisited' = fsVisited + 1
                /\ IF fsVisited' > fsAsk.visits THEN Stopped(w, "visited") /\ UNCHANGED <<fsCount, fsHits>>
                   ELSE LET n == MatchesFiltered(e)
                            in == IF fsCount + n <= fsAsk.cap THEN n ELSE fsAsk.cap - fsCount
                        IN /\ Gathered(e, in) /\ fsCount' = fsCount + in
                           /\ IF n > 0 /\ fsCount' = fsAsk.cap THEN Stopped(w, "max_results")
                              ELSE UNCHANGED <<fsAt, fsReason>>
    BY <1>7 DEF FsWalks
  <2>2. e \in FsEntries
    BY <1>4, <2>1
  <2>3. /\ Wanted(e) \in Nat /\ Wanted(e) = MatchesFiltered(e) /\ Wanted(e) <= FsMaxHits
        /\ FsMaxHits \in Nat
    <3>1. FsMaxHits \in Nat /\ Wanted(e) \in 0..FsMaxHits
      BY <1>2, <2>2, WantedIs, FileSearchAssumption
    <3>2. Wanted(e) = MatchesFiltered(e)
      BY <1>1 DEF Wanted
    <3> QED BY <3>1, <3>2
  <2>4. fsVisited' \in Nat
    BY <1>5, <2>1
  \* What is left to show of an entry taken with in of its matches.
  <2>5. ASSUME fsAt' \in [FsWorkers -> FsStates], fsAt'[w].at \in {"idle", "over"},
               \A v \in FsWorkers : v # w => fsAt'[v] = fsAt[v],
               fsReason # "none" => fsReason' # "none",
               fsReason' \in {"none", "visited", "walltime", "max_results"},
               NEW in \in Nat, in <= Wanted(e), fsReason' = "none" => in = Wanted(e) /\ fsAt'[w].at = "idle",
               \A h : h \in fsHits' <=> h \in fsHits \/ \E i \in 1..in : h = <<e, i>>,
               fsCount' = fsCount + in, fsCount' <= fsAsk.cap,
               fsReason' = "max_results" => fsCount' >= fsAsk.cap
        PROVE  FsInv'
    <3>1. PICK to, reason, hits, count, left, next :
            next = fsAt'[w] /\ to = fsAt' /\ reason = fsReason' /\ hits = fsHits' /\ count = fsCount' /\ left = fsLeft'
      OBVIOUS
    <3>2. /\ next \in FsStates /\ next.at \in {"idle", "over"} /\ to[w] = next
          /\ \A v \in FsWorkers : v # w => to[v] = fsAt[v]
      BY <2>5, <3>1
    <3>3. \A h : h \in hits <=> h \in fsHits \/ \E i \in 1..in : h = <<e, i>>
      BY <2>5, <3>1
    <3>4. IsFiniteSet(hits) /\ Cardinality(hits) = Cardinality(fsHits) + in
      <4>1. \A h \in fsHits : h[1] # e
        BY <1>4, <2>1 DEF FoundSoFar, Through
      <4>2. IsFiniteSet(fsHits)
        BY <1>4 DEF Counted
      <4>3. in \in Nat
        BY <2>5
      <4> QED BY <3>3, <4>1, <4>2, <4>3, LinesAdd
    <3>5. Counted(count, hits, reason)
      <4>1. Cardinality(hits) = count /\ count <= fsAsk.cap
        BY <1>5, <2>5, <3>1, <3>4
      <4> QED BY <2>5, <3>1, <3>4, <4>1 DEF Counted
    <3>6. FsGood(left, to, count, hits, reason)
      <4>1. e \in fsLeft /\ left = fsLeft \ {e} /\ \A x : ~Holds(fsAt, w, x)
        BY <1>3, <2>1, <3>1
      <4>2. (fsReason # "none" => reason # "none") /\ (reason = "none" => in = Wanted(e) /\ next.at = "idle")
        BY <2>5, <3>1
      <4> QED BY <1>2, <2>2, <2>5, <3>2, <3>3, <3>5, <4>1, <4>2, LetsGo
    <3>7. WalkTypes(fsLeft, fsAt, fsVisited, fsCount, fsHits, fsReason)'
      <4>1. fsHits' \in SUBSET FsPlaces
        <5>1. ASSUME NEW h \in fsHits' PROVE h \in FsPlaces
          <6>1. CASE h \in fsHits
            BY <1>2, <6>1 DEF WalkTypes
          <6>2. CASE \E i \in 1..in : h = <<e, i>>
            <7>1. PICK i \in 1..in : h = <<e, i>>
              BY <6>2
            <7>2. i \in 1..FsMaxHits
              BY <2>3, <2>5, <7>1
            <7> QED BY <2>2, <7>1, <7>2 DEF FsPlaces
          <6> QED BY <2>5, <6>1, <6>2
        <5> QED BY <5>1
      <4>2. fsLeft' \in SUBSET FsEntries /\ fsCount' \in Nat
        BY <1>4, <1>5, <2>1, <2>5
      <4> QED BY <2>4, <2>5, <4>1, <4>2 DEF WalkTypes
    <3> QED BY <1>1, <3>1, <3>6, <3>7, WorkDone
  <2>6. ASSUME NEW why \in {"visited", "walltime"}, Stopped(w, why), UNCHANGED <<fsCount, fsHits>> PROVE FsInv'
    <3>1. /\ fsAt' = [fsAt EXCEPT ![w] = FsOver] /\ FsOver.at = "over"
          /\ fsReason' = IF fsReason = "none" THEN why ELSE fsReason
      BY <2>6 DEF Stopped, FsMoves, FsOver
    <3>2. /\ fsReason # "none" => fsReason' # "none"
          /\ fsReason' # "none" /\ fsReason' \in {"none", "visited", "walltime", "max_results"}
          /\ fsReason' = "max_results" => fsReason = "max_results"
      BY <1>2, <2>6, <3>1 DEF WalkTypes
    <3>3. /\ \A h : h \in fsHits' <=> h \in fsHits \/ \E i \in 1..0 : h = <<e, i>>
          /\ 0 \in Nat /\ 0 <= Wanted(e) /\ fsCount' = fsCount + 0 /\ fsCount' <= fsAsk.cap
      BY <1>5, <2>3, <2>6
    <3>4. fsReason' = "max_results" => fsCount' >= fsAsk.cap
      BY <1>4, <2>6, <3>2 DEF Counted
    <3>5. /\ fsAt' \in [FsWorkers -> FsStates] /\ fsAt'[w].at = "over"
          /\ \A v \in FsWorkers : v # w => fsAt'[v] = fsAt[v]
      BY <1>2, <1>4, <3>1
    <3> QED BY <2>5, <3>2, <3>3, <3>4, <3>5
  <2>7. ASSUME NEW in, in = IF fsCount + Wanted(e) <= fsAsk.cap THEN Wanted(e) ELSE fsAsk.cap - fsCount,
               fsHits' = fsHits \cup {<<e, i>> : i \in 1..in}, fsCount' = fsCount + in,
               IF Wanted(e) > 0 /\ fsCount' = fsAsk.cap THEN Stopped(w, "max_results")
               ELSE UNCHANGED <<fsAt, fsReason>>
        PROVE  FsInv'
    <3>1. /\ in \in Nat /\ in <= Wanted(e) /\ fsCount' <= fsAsk.cap
          /\ in # Wanted(e) => Wanted(e) > 0 /\ fsCount' = fsAsk.cap
      BY <1>2, <1>5, <2>3, <2>7
    <3>2. \A h : h \in fsHits' <=> h \in fsHits \/ \E i \in 1..in : h = <<e, i>>
      BY <2>7
    <3>3. fsReason \in {"none", "visited", "walltime", "max_results"}
      BY <1>2 DEF WalkTypes
    <3>4. fsReason = "max_results" => fsCount' >= fsAsk.cap
      BY <1>2, <1>4, <1>5, <2>7, <3>1 DEF Counted
    <3>5. CASE Wanted(e) > 0 /\ fsCount' = fsAsk.cap
      <4>1. /\ fsAt' = [fsAt EXCEPT ![w] = FsOver] /\ FsOver.at = "over"
            /\ fsReason' = IF fsReason = "none" THEN "max_results" ELSE fsReason
        BY <2>7, <3>5 DEF Stopped, FsMoves, FsOver
      <4>2. /\ fsReason # "none" => fsReason' # "none"
            /\ fsReason' # "none" /\ fsReason' \in {"none", "visited", "walltime", "max_results"}
        BY <3>3, <4>1
      <4>3. fsCount' >= fsAsk.cap
        BY <1>2, <3>5
      <4>4. /\ fsAt' \in [FsWorkers -> FsStates] /\ fsAt'[w].at = "over"
            /\ \A v \in FsWorkers : v # w => fsAt'[v] = fsAt[v]
        BY <1>2, <1>4, <4>1
      <4> QED BY <2>5, <2>7, <3>1, <3>2, <4>2, <4>3, <4>4
    <3>6. CASE ~(Wanted(e) > 0 /\ fsCount' = fsAsk.cap)
      <4>1. fsAt' = fsAt /\ fsReason' = fsReason /\ in = Wanted(e)
        BY <2>7, <3>1, <3>6
      <4>2. /\ fsAt' \in [FsWorkers -> FsStates] /\ fsAt'[w].at = "idle"
            /\ \A v \in FsWorkers : v # w => fsAt'[v] = fsAt[v]
        BY <1>1, <1>4, <4>1
      <4> QED BY <2>5, <2>7, <3>1, <3>2, <3>3, <3>4, <4>1, <4>2
    <3> QED BY <3>5, <3>6
  <2>8. PICK in : in = IF fsCount + Wanted(e) <= fsAsk.cap THEN Wanted(e) ELSE fsAsk.cap - fsCount
    OBVIOUS
  <2>9. \/ Stopped(w, "walltime") /\ UNCHANGED <<fsCount, fsHits>>
        \/ Stopped(w, "visited") /\ UNCHANGED <<fsCount, fsHits>>
        \/ /\ fsHits' = fsHits \cup {<<e, i>> : i \in 1..in} /\ fsCount' = fsCount + in
           /\ IF Wanted(e) > 0 /\ fsCount' = fsAsk.cap THEN Stopped(w, "max_results")
              ELSE UNCHANGED <<fsAt, fsReason>>
    BY <2>1, <2>3, <2>8 DEF Gathered
  <2> QED BY <2>6, <2>7, <2>8, <2>9
<1> QED BY <1>6, <1>7

\* A search begins with nothing handed out, and a thread to hand it to.
LEMMA BeginsGood ==
  ASSUME FsInv, FsBegin
  PROVE  FsInv'
<1>1. /\ fsBackend = "none" /\ fsBackend' = BackendFor(fsAsk.select, fsAsk.binary)
      /\ UNCHANGED <<fsTree, fsAsk, fsVisited, fsCount, fsHits, fsReason>>
  BY DEF FsBegin
<1>2. /\ FsTypes /\ fsHits = {} /\ fsCount = 0 /\ fsReason = "none" /\ fsLeft = {}
      /\ \A w \in FsWorkers : fsAt[w].at = "over"
      /\ fsAnswer.status = "none"
  BY <1>1 DEF FsInv
<1>3. fsBackend' \in {"python", "rust", "refused"}
  <2>1. fsAsk.select \in {"auto", "rust", "python"} /\ fsAsk.binary \in BOOLEAN
    BY <1>2 DEF FsTypes, Asks
  <2> QED BY <1>1, <2>1 DEF BackendFor
<1>4. Walked' = Walked /\ Walked \in SUBSET FsEntries
  BY <1>1 DEF Walked
<1>5. FsIdle \in FsStates /\ FsOver \in FsStates /\ FsIdle.at = "idle" /\ FsOver.at = "over"
  BY DEF FsIdle, FsOver, FsStates
<1>6. CASE fsBackend' = "refused"
  <2>1. fsAnswer' = [Waiting EXCEPT !.status = "error"] /\ UNCHANGED <<fsLeft, fsAt>>
    BY <1>6 DEF FsBegin
  <2>2. fsAnswer' = [status |-> "error", hits |-> {}, truncated |-> FALSE]
    BY <2>1 DEF Waiting
  <2>3. fsAnswer' \in [status : {"none", "ok", "error"}, truncated : BOOLEAN, hits : SUBSET FsPlaces]
        /\ fsAnswer'.status = "error"
    BY <2>2
  <2>4. FsTypes'
    BY <1>1, <1>2, <1>3, <2>1, <2>3 DEF FsTypes
  <2> QED BY <1>6, <2>3, <2>4 DEF FsInv, SearchHonest
<1>7. CASE fsBackend' \in {"python", "rust"}
  <2>1. PICK threads : /\ threads = IF fsBackend' = "rust" THEN FsWorkers ELSE {CHOOSE w \in FsWorkers : TRUE}
                       /\ fsAt' = [w \in FsWorkers |-> IF w \in threads THEN FsIdle ELSE FsOver]
                       /\ fsLeft' = Walked /\ fsAnswer' = fsAnswer
    BY <1>4, <1>7 DEF FsBegin
  <2>2. PICK t \in FsWorkers : t \in threads
    <3>1. FsWorkers # {}
      BY FileSearchAssumption
    <3>2. (CHOOSE w \in FsWorkers : TRUE) \in FsWorkers
      BY <3>1
    <3> QED BY <2>1, <3>1, <3>2
  <2>3. \A w \in FsWorkers : fsAt'[w] = FsIdle \/ fsAt'[w] = FsOver
    BY <2>1
  <2>4. fsAt'[t].at = "idle"
    BY <1>5, <2>1, <2>2
  <2>5. \A w \in FsWorkers : \A x : ~Holds(fsAt, w, x)'
    BY <1>5, <2>3 DEF Holds
  <2>6. Apart(fsLeft, fsAt)'
    BY <1>4, <2>1, <2>5 DEF Apart
  <2>7. \A x : ~Through(fsLeft, fsAt, x)'
    BY <1>4, <2>1 DEF Through
  <2>8. FoundSoFar(fsLeft, fsAt, fsHits, fsReason)'
    BY <1>1, <1>2, <2>7 DEF FoundSoFar
  <2>9. Counted(fsCount, fsHits, fsReason)'
    <3>1. IsFiniteSet(fsHits') /\ Cardinality(fsHits') = 0
      BY <1>1, <1>2, FS_EmptySet
    <3>2. fsAsk'.cap \in Nat
      BY <1>1, <1>2 DEF FsTypes, Asks
    <3> QED BY <1>1, <1>2, <3>1, <3>2 DEF Counted
  <2>10. EndsWell(fsLeft, fsAt, fsReason)'
    BY <2>2, <2>4 DEF EndsWell
  <2>11. FsTypes'
    <3>1. fsAt' \in [FsWorkers -> FsStates]
      BY <1>5, <2>1
    <3>2. fsLeft' \in SUBSET FsEntries
      BY <1>4, <2>1
    <3> QED BY <1>1, <1>2, <1>3, <2>1, <3>1, <3>2 DEF FsTypes
  <2>12. SearchHonest'
    BY <1>2, <2>1 DEF SearchHonest
  <2> QED BY <1>7, <2>6, <2>8, <2>9, <2>10, <2>11, <2>12 DEF FsInv, FsGood
<1> QED BY <1>3, <1>6, <1>7

\* What is delivered at the end of a walk.
LEMMA DeliveredIsHonest ==
  ASSUME FsInv, Searching, \A w \in FsWorkers : fsAt[w].at = "over"
  PROVE  /\ Delivered \subseteq AllMatches /\ Delivered \subseteq FsPlaces
         /\ Cardinality(Delivered) <= fsAsk.cap
         /\ fsReason = "none" => Delivered = AllMatches
         /\ fsReason = "max_results" => Cardinality(fsHits) = fsAsk.cap
<1>1. /\ FsTypes /\ FsGood(fsLeft, fsAt, fsCount, fsHits, fsReason) /\ fsAsk.cap \in Nat
      /\ WalkTypes(fsLeft, fsAt, fsVisited, fsCount, fsHits, fsReason)
  BY WalkGoes
<1>2. /\ FoundSoFar(fsLeft, fsAt, fsHits, fsReason) /\ Counted(fsCount, fsHits, fsReason)
      /\ EndsWell(fsLeft, fsAt, fsReason)
  BY <1>1 DEF FsGood
<1>3. fsHits \in SUBSET FsPlaces /\ fsCount \in Nat /\ FsMaxHits \in Nat
  BY <1>1, FileSearchAssumption DEF WalkTypes
<1>4. Delivered \subseteq fsHits
  BY DEF Delivered
<1>5. \A h \in FsPlaces : h[1] \in FsEntries /\ h[2] \in Nat /\ 1 <= h[2] /\ h[2] <= FsMaxHits /\ h = <<h[1], h[2]>>
  BY <1>3 DEF FsPlaces
<1>6. ASSUME NEW h \in Delivered PROVE h \in AllMatches
  <2>1. h \in FsPlaces /\ h[1] \in Walked /\ h[2] <= Wanted(h[1]) /\ h[1] \in FsEntries
    BY <1>2, <1>3, <1>4, <1>5 DEF FoundSoFar, Through
  <2>2. /\ Wanted(h[1]) \in Nat
        /\ ~IsRust /\ Wanted(h[1]) > 0 => Passes(h[1]) /\ Wanted(h[1]) = MatchesOf(h[1])
        /\ IsRust => Wanted(h[1]) = MatchesOf(h[1])
    BY <1>1, <1>3, <2>1, WantedIs
  <2>3. Passes(h[1]) /\ Wanted(h[1]) = MatchesOf(h[1])
    <3>1. CASE IsRust
      BY <2>2, <3>1 DEF Delivered
    <3>2. CASE ~IsRust
      <4>1. Wanted(h[1]) > 0
        BY <1>5, <2>1, <2>2
      <4> QED BY <2>2, <3>2, <4>1
    <3> QED BY <3>1, <3>2
  <2>4. h \in Walked \X (1..FsMaxHits)
    BY <1>3, <1>5, <2>1 DEF FsPlaces
  <2> QED BY <2>1, <2>3, <2>4 DEF AllMatches
<1>7. Cardinality(Delivered) <= Cardinality(fsHits) /\ Cardinality(fsHits) <= fsAsk.cap
      /\ Cardinality(Delivered) \in Nat /\ Cardinality(fsHits) \in Nat
  <2>1. IsFiniteSet(fsHits)
    BY <1>2 DEF Counted
  <2>2. IsFiniteSet(Delivered) /\ Cardinality(Delivered) <= Cardinality(fsHits)
    BY <1>4, <2>1, FS_Subset
  <2>3. Cardinality(Delivered) \in Nat /\ Cardinality(fsHits) \in Nat
    BY <2>1, <2>2, FS_CardinalityType
  <2>4. Cardinality(fsHits) <= fsAsk.cap
    BY <1>1, <1>2, <1>3 DEF Counted
  <2> QED BY <2>2, <2>3, <2>4
<1>8. ASSUME fsReason = "none", NEW m \in AllMatches PROVE m \in Delivered
  <2>1. /\ m \in Walked \X (1..FsMaxHits) /\ Passes(m[1]) /\ m[2] <= MatchesOf(m[1])
    BY DEF AllMatches
  <2>2. m[1] \in Walked /\ m[1] \in FsEntries /\ m[2] \in Nat /\ 1 <= m[2] /\ m = <<m[1], m[2]>>
    BY <1>3, <2>1 DEF Walked
  <2>3. fsLeft = {}
    BY <1>2, <1>8 DEF EndsWell
  <2>4. Through(fsLeft, fsAt, m[1])
    BY <2>2, <2>3 DEF Through, Holds
  <2>5. Wanted(m[1]) = MatchesOf(m[1]) /\ Wanted(m[1]) \in Nat
    BY <1>1, <1>3, <2>1, <2>2, WantedIs
  <2>6. m[2] \in 1..Wanted(m[1])
    BY <2>1, <2>2, <2>5
  <2>7. <<m[1], m[2]>> \in fsHits
    BY <1>2, <1>8, <2>2, <2>4, <2>6 DEF FoundSoFar
  <2>8. m \in fsHits
    BY <2>2, <2>7
  <2> QED BY <2>1, <2>8 DEF Delivered
<1>9. fsReason = "max_results" => Cardinality(fsHits) = fsAsk.cap
  BY <1>1, <1>2, <1>3 DEF Counted
<1>10. Cardinality(Delivered) <= fsAsk.cap
  <2>1. PICK a, b, c : a = Cardinality(Delivered) /\ b = Cardinality(fsHits) /\ c = fsAsk.cap
    OBVIOUS
  <2> QED BY <1>1, <1>7, <2>1
<1> QED BY <1>3, <1>4, <1>6, <1>8, <1>9, <1>10

\* The tool answers: what the walk collected, or that it failed.
LEMMA AnswersGood ==
  ASSUME FsInv, FsAnswers \/ FsSidecarFails
  PROVE  FsInv'
<1>1. Searching /\ UNCHANGED fsCall /\ UNCHANGED fsWalk
  BY DEF FsAnswers, FsSidecarFails
<1>2. /\ FsTypes /\ FsGood(fsLeft, fsAt, fsCount, fsHits, fsReason)
  BY <1>1, WalkGoes
<1>3. UNCHANGED <<fsLeft, fsAt, fsVisited, fsCount, fsHits, fsReason, fsTree, fsAsk, fsBackend>>
  BY <1>1 DEF fsCall, fsWalk
<1>4. FsGood(fsLeft, fsAt, fsCount, fsHits, fsReason)'
  <2>1. PICK left, at, count, hits, reason :
          left = fsLeft /\ at = fsAt /\ count = fsCount /\ hits = fsHits /\ reason = fsReason
    OBVIOUS
  <2>2. FsGood(left, at, count, hits, reason)
    BY <1>2, <2>1
  <2>3. FsGood(left, at, count, hits, reason)'
    BY <1>1, <2>2, StaysGood
  <2> QED BY <1>3, <2>1, <2>3
<1>5. fsBackend' \in {"python", "rust"}
  BY <1>1, <1>3 DEF Searching
<1>6. CASE FsAnswers
  <2>1. \A w \in FsWorkers : fsAt[w].at = "over"
    BY <1>6 DEF FsAnswers
  <2>2. fsAnswer' = [status |-> "ok", hits |-> Delivered, truncated |-> MayBeMore]
    BY <1>6 DEF FsAnswers
  <2>3. /\ Delivered \subseteq AllMatches /\ Delivered \subseteq FsPlaces
        /\ Cardinality(Delivered) <= fsAsk.cap
        /\ fsReason = "none" => Delivered = AllMatches
        /\ fsReason = "max_results" => Cardinality(fsHits) = fsAsk.cap
    BY <1>1, <2>1, DeliveredIsHonest
  <2>4. fsAnswer'.hits = Delivered /\ (~fsAnswer'.truncated => fsReason = "none")
    BY <2>2 DEF MayBeMore
  <2>5. AllMatches' = AllMatches
    BY <1>1, SameCall
  <2>6. SearchHonest'
    BY <1>3, <2>3, <2>4, <2>5 DEF SearchHonest
  <2>7. MayBeMore \in BOOLEAN
    BY DEF MayBeMore
  <2>8. FsTypes'
    BY <1>2, <1>3, <2>2, <2>3, <2>7 DEF FsTypes
  <2> QED BY <1>4, <1>5, <2>6, <2>8 DEF FsInv
<1>7. CASE FsSidecarFails
  <2>1. fsAnswer' = [Waiting EXCEPT !.status = "error"]
    BY <1>7 DEF FsSidecarFails
  <2>2. fsAnswer' = [status |-> "error", hits |-> {}, truncated |-> FALSE]
    BY <2>1 DEF Waiting
  <2>3. fsAnswer' \in [status : {"none", "ok", "error"}, truncated : BOOLEAN, hits : SUBSET FsPlaces]
        /\ fsAnswer'.status = "error"
    BY <2>2
  <2>4. FsTypes'
    BY <1>2, <1>3, <2>3 DEF FsTypes
  <2> QED BY <1>4, <1>5, <2>3, <2>4 DEF FsInv, SearchHonest
<1> QED BY <1>6, <1>7

\* A step that leaves the call, the walk and the answer alone.
LEMMA RestsGood ==
  ASSUME FsInv, UNCHANGED <<fsCall, fsWalk, fsAnswer>>
  PROVE  FsInv'
<1>1. UNCHANGED <<fsLeft, fsAt, fsVisited, fsCount, fsHits, fsReason, fsTree, fsAsk, fsBackend, fsAnswer>>
  BY DEF fsCall, fsWalk
<1>2. AllMatches' = AllMatches
  BY SameCall
<1>3. FsTypes' /\ SearchHonest'
  BY <1>1, <1>2 DEF FsInv, FsTypes, SearchHonest
<1>4. ASSUME fsBackend \in {"python", "rust"} PROVE FsGood(fsLeft, fsAt, fsCount, fsHits, fsReason)'
  <2>1. PICK left, at, count, hits, reason :
          left = fsLeft /\ at = fsAt /\ count = fsCount /\ hits = fsHits /\ reason = fsReason
    OBVIOUS
  <2>2. FsGood(left, at, count, hits, reason)
    BY <1>4, <2>1 DEF FsInv
  <2>3. FsGood(left, at, count, hits, reason)'
    BY <2>2, StaysGood
  <2> QED BY <1>1, <2>1, <2>3
<1>5. fsBackend = "none" => (/\ fsLeft = {} /\ fsHits = {} /\ fsCount = 0 /\ fsReason = "none"
                             /\ \A w \in FsWorkers : fsAt[w].at = "over"
                             /\ fsAnswer.status = "none")'
  BY <1>1 DEF FsInv
<1> QED BY <1>1, <1>3, <1>4, <1>5 DEF FsInv

LEMMA FsAlways == FsSpec => []FsInv
<1>1. FsInit => FsInv
  <2> SUFFICES ASSUME FsInit PROVE FsInv
    OBVIOUS
  <2>1. fsAt \in [FsWorkers -> FsStates] /\ \A w \in FsWorkers : fsAt[w].at = "over"
    BY DEF FsInit, FsOver, FsStates
  <2>2. fsAnswer = [status |-> "none", hits |-> {}, truncated |-> FALSE]
    BY DEF FsInit, Waiting
  <2>3. fsAsk \in Asks
    <3>1. \A n \in 1..(FsMaxHits + 1) : n \in Nat
      BY FileSearchAssumption
    <3>2. Cardinality(FsEntries) \in Nat
      BY FileSearchAssumption, FS_CardinalityType
    <3>3. fsAsk \in [op : {"grep", "glob"}, cap : 1..(FsMaxHits + 1),
                     visits : {1, Cardinality(FsEntries)}, filter : BOOLEAN,
                     select : {"auto", "rust", "python"}, binary : BOOLEAN]
      BY DEF FsInit
    <3> QED BY <3>1, <3>2, <3>3 DEF Asks
  <2>4. fsTree \in [FsEntries -> EntryForms]
    BY FileSearchAssumption DEF FsInit
  <2>5. FsTypes
    BY <2>1, <2>2, <2>3, <2>4 DEF FsInit, FsTypes
  <2> QED BY <2>1, <2>2, <2>5 DEF FsInit, FsInv, SearchHonest
<1>2. FsInv /\ [FsNext \/ FrRead]_fsVars => FsInv'
  <2> SUFFICES ASSUME FsInv, [FsNext \/ FrRead]_fsVars PROVE FsInv'
    OBVIOUS
  <2>1. CASE FsBegin
    BY <2>1, BeginsGood
  <2>2. CASE \E w \in FsWorkers : FsWork(w)
    <3>1. PICK w \in FsWorkers : FsTakes(w) \/ FsVisits(w) \/ FsCommits(w) \/ FsWalks(w)
      BY <2>2 DEF FsWork
    <3> QED BY <3>1, TakesGood, VisitsGood, CommitsGood, WalksGood
  <2>3. CASE FsAnswers \/ FsSidecarFails
    BY <2>3, AnswersGood
  <2>4. CASE FrRead
    BY <2>4, RestsGood DEF FrRead
  <2>5. CASE UNCHANGED fsVars
    BY <2>5, RestsGood DEF fsVars
  <2> QED BY <2>1, <2>2, <2>3, <2>4, <2>5 DEF FsNext
<1> QED BY <1>1, <1>2, PTL DEF FsSpec

\* An answer says what it is, however the threads of the walk interleave, for every tree, number of
\* threads and cap: matches only, no more than the cap, all of them unless it says otherwise.
THEOREM SearchIsHonest == FsSpec => []SearchHonest
<1>1. FsInv => SearchHonest
  BY DEF FsInv
<1> QED BY <1>1, FsAlways, PTL

-----------------------------------------------------------------------------
(* read: pages of a file                                                   *)

\* How long the first lines are together, line by line.
Sums(f, lines, n) == f = [i \in 0..n |-> IF i = 0 THEN 0 ELSE f[i - 1] + lines[i]]

\* There is such a function, so that Fitting chooses it.
LEMMA SumsExists ==
  ASSUME NEW lines, NEW n \in Nat
  PROVE  \E f : Sums(f, lines, n)
<1> DEFINE Bad == {m \in Nat : ~\E f : Sums(f, lines, m)}
<1> SUFFICES ASSUME Bad # {} PROVE FALSE
  OBVIOUS
<1>1. PICK m \in Bad : \A k \in Bad : m <= k
  BY Least
<1>2. CASE m = 0
  <2> DEFINE f == [i \in 0..0 |-> 0]
  <2>1. Sums(f, lines, 0)
    BY DEF Sums
  <2> QED BY <1>1, <1>2, <2>1
<1>3. CASE m # 0
  <2>1. m - 1 \in Nat /\ m - 1 \notin Bad /\ m \in Nat
    BY <1>1, <1>3
  <2>2. PICK g : Sums(g, lines, m - 1)
    BY <2>1
  <2> DEFINE f == [i \in 0..m |-> IF i = m THEN g[m - 1] + lines[m] ELSE g[i]]
             h == [i \in 0..m |-> IF i = 0 THEN 0 ELSE f[i - 1] + lines[i]]
  <2>3. \A i \in 0..m - 1 : g[i] = IF i = 0 THEN 0 ELSE g[i - 1] + lines[i]
    BY <2>2 DEF Sums
  <2>4. ASSUME NEW i \in 0..m PROVE f[i] = h[i]
    <3>1. CASE i = m
      <4>1. f[m - 1] = g[m - 1]
        BY <2>1
      <4> QED BY <1>3, <2>1, <3>1, <4>1
    <3>2. CASE i # m
      <4>1. i \in 0..m - 1 /\ f[i] = g[i]
        BY <2>1, <3>2
      <4>2. i # 0 => f[i - 1] = g[i - 1]
        BY <2>1, <4>1
      <4> QED BY <2>3, <4>1, <4>2
    <3> QED BY <3>1, <3>2
  <2>5. f = h
    BY <2>4
  <2>6. Sums(f, lines, m)
    BY <2>5 DEF Sums
  <2> QED BY <1>1, <2>6
<1> QED BY <1>2, <1>3

\* What fits in a page: nothing does; and lines of which each fits alone, the first if it does.
LEMMA FittingIs ==
  ASSUME NEW lines \in Seq(Nat), NEW cap \in Nat, frAsk.cap = cap
  PROVE  /\ Fitting(lines) \in SUBSET (0..Len(lines)) /\ 0 \in Fitting(lines)
         /\ \A n \in Fitting(lines) : \A i \in 1..n : lines[i] <= cap
         /\ Len(lines) >= 1 /\ lines[1] <= cap => 1 \in Fitting(lines)
<1> DEFINE F == CHOOSE f : Sums(f, lines, Len(lines))
           Fine(m) == F[m] \in Nat /\ \A i \in 1..m : lines[i] <= F[m]
           Bad == {m \in 0..Len(lines) : ~Fine(m)}
<1>0. Len(lines) \in Nat /\ \A i \in 1..Len(lines) : lines[i] \in Nat
  OBVIOUS
<1>1. Sums(F, lines, Len(lines))
  BY <1>0, SumsExists
<1>2. Fitting(lines) = {n \in 0..Len(lines) : F[n] <= cap}
  BY DEF Fitting, Sums
<1>3. \A i \in 0..Len(lines) : F[i] = IF i = 0 THEN 0 ELSE F[i - 1] + lines[i]
  <2> HIDE DEF F
  <2> QED BY <1>1 DEF Sums
<1> HIDE DEF F
<1>30. F[0] = 0
  BY <1>0, <1>3
<1>4. ASSUME Bad # {} PROVE FALSE
  <2>1. Bad \in SUBSET Nat
    OBVIOUS
  <2>2. PICK m \in Bad : \A k \in Bad : m <= k
    BY <1>4, <2>1, Least
  <2>3. m \in 0..Len(lines) /\ ~Fine(m) /\ m \in Nat
    OBVIOUS
  <2>4. CASE m = 0
    BY <1>30, <2>3, <2>4
  <2>5. CASE m # 0
    <3>1. m \in 1..Len(lines) /\ m - 1 \in 0..Len(lines) /\ ~(m <= m - 1)
      BY <1>0, <2>3, <2>5
    <3>2. Fine(m - 1)
      BY <2>2, <3>1
    <3>3. F[m] = F[m - 1] + lines[m] /\ lines[m] \in Nat /\ F[m - 1] \in Nat
      BY <1>0, <1>3, <2>3, <2>5, <3>1, <3>2
    <3>4. ASSUME NEW i \in 1..m PROVE lines[i] <= F[m]
      <4>1. CASE i = m
        BY <3>3, <4>1
      <4>2. CASE i # m
        <5>1. i \in 1..(m - 1) /\ lines[i] \in Nat
          BY <1>0, <2>3, <3>1, <4>2
        <5>2. lines[i] <= F[m - 1]
          BY <3>2, <5>1
        <5> QED BY <3>3, <5>1, <5>2
      <4> QED BY <4>1, <4>2
    <3>5. Fine(m)
      BY <3>3, <3>4
    <3> QED BY <2>3, <3>5
  <2> QED BY <2>4, <2>5
<1>5. \A m \in 0..Len(lines) : Fine(m)
  BY <1>4
<1>6. ASSUME NEW n \in Fitting(lines), NEW i \in 1..n PROVE lines[i] <= cap
  <2>1. n \in 0..Len(lines) /\ F[n] <= cap
    BY <1>2
  <2>2. lines[i] <= F[n] /\ F[n] \in Nat
    BY <1>5, <2>1
  <2>3. i \in 1..Len(lines)
    BY <1>0, <2>1
  <2> QED BY <1>0, <2>1, <2>2, <2>3
<1>7. Len(lines) >= 1 /\ lines[1] <= cap => 1 \in Fitting(lines)
  <2> SUFFICES ASSUME Len(lines) >= 1, lines[1] <= cap PROVE 1 \in Fitting(lines)
    OBVIOUS
  <2>1. 1 \in 0..Len(lines) /\ 1 \in 1..Len(lines)
    BY <1>0
  <2>2. F[1] = F[0] + lines[1]
    BY <1>3, <2>1
  <2>3. F[1] <= cap
    BY <1>0, <1>30, <2>1, <2>2
  <2> QED BY <1>2, <2>1, <2>3
<1>8. 0 \in Fitting(lines) /\ Fitting(lines) \in SUBSET (0..Len(lines))
  BY <1>0, <1>2, <1>30
<1> QED BY <1>6, <1>7, <1>8

\* A set of numbers up to some number has a greatest.
LEMMA GreatestIs ==
  ASSUME NEW n \in Nat, NEW T \in SUBSET (0..n), T # {}
  PROVE  Greatest(T) \in T /\ \A m \in T : m <= Greatest(T)
<1> DEFINE U == {k \in Nat : \A m \in T : m <= k}
<1>0. \A m : m \in T => m \in Nat /\ m <= n
  OBVIOUS
<1>1. n \in U
  BY <1>0
<1>2. PICK k \in U : \A y \in U : k <= y
  BY <1>1, Least
<1>3. k \in Nat /\ \A m \in T : m <= k
  OBVIOUS
<1>4. k \in T
  <2> SUFFICES ASSUME k \notin T PROVE FALSE
    OBVIOUS
  <2>1. \A m \in T : m <= k - 1
    BY <1>0, <1>3
  <2>2. k - 1 \in Nat
    BY <1>0, <1>3, <2>1
  <2>3. k - 1 \in U
    BY <2>1, <2>2
  <2> QED BY <1>2, <1>3, <2>3
<1> QED BY <1>3, <1>4 DEF Greatest

\* A page of some lines: one at least, in part if it does not fit alone, else whole and each fits.
LEMMA PageIs ==
  ASSUME NEW lines \in Seq(Nat), lines # <<>>, NEW cap \in Nat, frAsk.cap = cap
  PROVE  /\ Page(lines).lines \in 1..Len(lines)
         /\ Page(lines).cut => Page(lines).lines = 1 /\ lines[1] > cap
         /\ ~Page(lines).cut => \A i \in 1..Page(lines).lines : lines[i] <= cap
<1>1. Len(lines) \in Nat /\ Len(lines) >= 1 /\ lines[1] \in Nat
  OBVIOUS
<1>2. /\ Fitting(lines) \in SUBSET (0..Len(lines)) /\ 0 \in Fitting(lines)
      /\ \A n \in Fitting(lines) : \A i \in 1..n : lines[i] <= cap
      /\ Len(lines) >= 1 /\ lines[1] <= cap => 1 \in Fitting(lines)
  BY FittingIs
<1>3. PICK g : g = Greatest(Fitting(lines))
  OBVIOUS
<1>4. g \in Fitting(lines) /\ \A m \in Fitting(lines) : m <= g
  <2>1. Fitting(lines) # {}
    BY <1>2
  <2> QED BY <1>1, <1>2, <1>3, <2>1, GreatestIs
<1>5. g \in 0..Len(lines)
  BY <1>2, <1>4
<1>6. Page(lines).lines = (IF g = 0 THEN 1 ELSE g) /\ (Page(lines).cut <=> g = 0)
  <2>1. PICK cut \in BOOLEAN : cut <=> g = 0
    OBVIOUS
  <2>2. cut = (lines # <<>> /\ g = 0)
    BY <2>1
  <2>3. Page(lines) = [lines |-> IF cut THEN 1 ELSE g, cut |-> cut]
    BY <1>3, <2>2 DEF Page
  <2>4. Page(lines).lines = (IF cut THEN 1 ELSE g) /\ Page(lines).cut = cut
    BY <2>3
  <2> QED BY <2>1, <2>4
<1>7. CASE g = 0
  <2>1. 1 \notin Fitting(lines)
    BY <1>4, <1>7
  <2> QED BY <1>1, <1>2, <1>6, <1>7, <2>1
<1>8. CASE g # 0
  <2>1. Page(lines).lines = g /\ ~Page(lines).cut /\ g \in 1..Len(lines)
    BY <1>1, <1>5, <1>6, <1>8
  <2> QED BY <1>2, <1>4, <2>1
<1> QED BY <1>7, <1>8

\* So many lines were shown: each once, in order; the next is the one after them; and those that
\* do not fit in a page are the ones that were cut.
FrInv ==
  /\ frFile \in Seq(1..FrChars) /\ Len(frFile) \in 1..FrLines
  /\ frAsk \in [limit : 1..FrLines, cap : 1..FrChars]
  /\ frShown \in Seq(1..FrLines) /\ Len(frShown) <= Len(frFile)
  /\ \A i \in 1..Len(frShown) : frShown[i] = i
  /\ frNext = IF Len(frShown) < Len(frFile) THEN Len(frShown) + 1 ELSE 0
  /\ frCut = {i \in 1..Len(frShown) : frFile[i] > frAsk.cap}

LEMMA FrFirst == FrInit => FrInv
<1> SUFFICES ASSUME FrInit PROVE FrInv
  OBVIOUS
<1>1. FrLines \in Nat /\ FrChars \in Nat
  BY FileSearchAssumption
<1>2. PICK n \in 1..FrLines : frFile \in [1..n -> 1..FrChars]
  BY DEF FrInit
<1>3. frFile \in Seq(1..FrChars) /\ Len(frFile) = n
  BY <1>1, <1>2
<1>4. frShown \in Seq(1..FrLines) /\ Len(frShown) = 0 /\ frNext = 1 /\ frCut = {}
  BY DEF FrInit
<1> QED BY <1>1, <1>3, <1>4 DEF FrInit, FrInv

LEMMA FrStep == FrInv /\ [FsNext \/ FrRead]_fsVars => FrInv'
<1> SUFFICES ASSUME FrInv, [FsNext \/ FrRead]_fsVars PROVE FrInv'
  OBVIOUS
<1>0. FrLines \in Nat /\ FrChars \in Nat
  BY FileSearchAssumption
<1>1. CASE FsNext \/ UNCHANGED fsVars
  <2>1. UNCHANGED frVars
    <3>1. CASE FsBegin
      BY <3>1 DEF FsBegin
    <3>2. CASE \E w \in FsWorkers : FsWork(w)
      BY <3>2 DEF FsWork, FsTakes, FsVisits, FsCommits, FsWalks
    <3>3. CASE FsAnswers \/ FsSidecarFails \/ UNCHANGED fsVars
      BY <3>3 DEF FsAnswers, FsSidecarFails, fsVars
    <3> QED BY <1>1, <3>1, <3>2, <3>3 DEF FsNext
  <2> QED BY <2>1 DEF frVars, FrInv
<1>2. CASE FrRead
  <2>1. PICK s : s = Len(frShown)
    OBVIOUS
  <2>2. PICK len : len = Len(frFile)
    OBVIOUS
  <2>3. s \in Nat /\ len \in Nat /\ s < len /\ frNext = s + 1 /\ len \in 1..FrLines
    BY <1>0, <1>2, <2>1, <2>2 DEF FrRead, FrInv
  <2>4. PICK limit : limit = frAsk.limit
    OBVIOUS
  <2>5. PICK cap : cap = frAsk.cap
    OBVIOUS
  <2>6. limit \in Nat /\ limit >= 1 /\ cap \in Nat
    <3>1. frAsk.limit \in 1..FrLines /\ frAsk.cap \in 1..FrChars
      BY DEF FrInv
    <3> QED BY <1>0, <2>4, <2>5, <3>1
  <2>7. PICK end : end = IF s + limit < len THEN s + limit ELSE len
    OBVIOUS
  <2>8. end \in Nat /\ end > s /\ end <= len
    BY <2>3, <2>6, <2>7
  <2>9. PICK window : window = SubSeq(frFile, s + 1, end)
    OBVIOUS
  <2>10. /\ window \in Seq(Nat) /\ Len(window) = end - s /\ window # <<>>
         /\ \A i \in 1..(end - s) : window[i] = frFile[s + i]
    <3>0. frFile \in Seq(1..FrChars)
      BY DEF FrInv
    <3>1. frFile \in Seq(Nat)
      <4>0. \A S : \A t \in Seq(S) : \A i \in 1..Len(t) : t[i] \in S
        OBVIOUS
      <4>1. \A i \in 1..Len(frFile) : frFile[i] \in 1..FrChars
        BY <3>0, <4>0
      <4>2. \A i \in 1..Len(frFile) : frFile[i] \in Nat
        BY <1>0, <4>1
      <4> QED BY <3>0, <4>2
    <3> QED BY <2>2, <2>3, <2>8, <2>9, <3>1, SMTT(30), ZenonT(30)
  <2>11. PICK page : page = Page(window)
    OBVIOUS
  <2>12. /\ page.lines \in 1..(end - s)
         /\ page.cut => page.lines = 1 /\ window[1] > cap
         /\ ~page.cut => \A i \in 1..page.lines : window[i] <= cap
    BY <2>5, <2>6, <2>10, <2>11, PageIs
  <2>13. PICK n : n = page.lines
    OBVIOUS
  <2>14. n \in Nat /\ n >= 1 /\ s + n <= len
    BY <2>3, <2>8, <2>12, <2>13
  <2>15. /\ frShown' = frShown \o [i \in 1..n |-> s + i]
         /\ frCut' = IF page.cut THEN frCut \cup {s + n} ELSE frCut
         /\ frNext' = IF s + n < len THEN s + n + 1 ELSE 0
         /\ frFile' = frFile /\ frAsk' = frAsk
    <3>1. frNext - 1 = s
      BY <2>3
    <3> QED BY <1>2, <2>2, <2>3, <2>4, <2>7, <2>9, <2>11, <2>13, <3>1 DEF FrRead
  <2>16. /\ frShown' \in Seq(1..FrLines) /\ Len(frShown') = s + n
         /\ \A i \in 1..(s + n) : frShown'[i] = i
    <3>1. PICK more : more = [i \in 1..n |-> s + i]
      OBVIOUS
    <3>2. more \in Seq(1..FrLines) /\ Len(more) = n /\ \A i \in 1..n : more[i] = s + i
      BY <1>0, <2>3, <2>14, <3>1
    <3>3. frShown' = frShown \o more /\ frShown \in Seq(1..FrLines)
      BY <2>15, <3>1 DEF FrInv
    <3>4. /\ frShown' \in Seq(1..FrLines) /\ Len(frShown') = s + n
          /\ \A i \in 1..(s + n) : frShown'[i] = IF i <= s THEN frShown[i] ELSE more[i - s]
      <4>1. /\ frShown \o more \in Seq(1..FrLines) /\ Len(frShown \o more) = Len(frShown) + Len(more)
            /\ \A i \in 1..(Len(frShown) + Len(more)) :
                 (frShown \o more)[i] = IF i <= Len(frShown) THEN frShown[i] ELSE more[i - Len(frShown)]
        BY <3>2, <3>3, JoinIs, Zenon
      <4>2. Len(frShown) = s /\ Len(more) = n
        BY <2>1, <3>2
      <4> QED BY <3>3, <4>1, <4>2, Zenon
    <3>5. ASSUME NEW i \in 1..(s + n) PROVE frShown'[i] = i
      <4>1. CASE i <= s
        BY <2>1, <2>3, <2>14, <3>4, <4>1 DEF FrInv
      <4>2. CASE ~(i <= s)
        <5>1. i - s \in 1..n /\ s + (i - s) = i
          BY <2>3, <2>14, <4>2
        <5> QED BY <3>2, <3>4, <4>2, <5>1
      <4> QED BY <4>1, <4>2
    <3> QED BY <3>4, <3>5
  <2>17. frCut' = {i \in 1..(s + n) : frFile[i] > cap}
    <3>1. frCut = {i \in 1..s : frFile[i] > cap}
      BY <2>1, <2>5 DEF FrInv
    <3>2. CASE page.cut
      <4>1. n = 1 /\ frFile[s + 1] > cap
        <5>1. 1 \in 1..(end - s)
          BY <2>3, <2>8
        <5> QED BY <2>10, <2>12, <2>13, <3>2, <5>1
      <4>2. \A i : i \in 1..(s + n) <=> i \in 1..s \/ i = s + 1
        BY <2>3, <4>1
      <4> QED BY <2>15, <3>1, <3>2, <4>1, <4>2
    <3>3. CASE ~page.cut
      <4>1. ASSUME NEW i \in (s + 1)..(s + n) PROVE ~(frFile[i] > cap)
        <5>1. i - s \in 1..n /\ i - s \in 1..(end - s) /\ s + (i - s) = i /\ i \in 1..len
          BY <2>3, <2>8, <2>12, <2>13, <2>14
        <5>2. window[i - s] = frFile[i] /\ window[i - s] <= cap
          BY <2>10, <2>12, <2>13, <3>3, <5>1
        <5>3. frFile[i] \in 1..FrChars
          <6>1. frFile \in Seq(1..FrChars)
            BY DEF FrInv
          <6>2. \A S : \A t \in Seq(S) : \A k \in 1..Len(t) : t[k] \in S
            OBVIOUS
          <6> QED BY <2>2, <5>1, <6>1, <6>2
        <5> QED BY <1>0, <2>6, <5>2, <5>3
      <4>2. \A i : i \in 1..(s + n) <=> i \in 1..s \/ i \in (s + 1)..(s + n)
        BY <2>3, <2>14
      <4> QED BY <2>15, <3>1, <3>3, <4>1, <4>2
    <3> QED BY <3>2, <3>3
  <2> QED BY <1>0, <2>2, <2>3, <2>5, <2>14, <2>15, <2>16, <2>17 DEF FrInv
<1> QED BY <1>1, <1>2

LEMMA FrAlways == FsSpec => []FrInv
BY FrFirst, FrStep, PTL DEF FsSpec

LEMMA FrCovers == FrInv => PagesCover
<1> SUFFICES ASSUME FrInv PROVE PagesCover
  OBVIOUS
<1>1. /\ DOMAIN frShown = 1..Len(frShown) /\ Len(frShown) \in Nat /\ Len(frFile) \in Nat
      /\ Len(frShown) <= Len(frFile)
  BY DEF FrInv
<1> QED BY <1>1 DEF FrInv, PagesCover

\* Following next_offset, the agent is shown each line of a file once and in order, and is told of
\* each it was shown in part, for files of any length and any cap (core/read, _apply_cap).
THEOREM PagesAlways == FsSpec => []PagesCover
BY FrAlways, FrCovers, PTL

\* Every value of a search and of the pages of a file is of its type.
LEMMA FsTyped == FsSpec => []FsTypeOK
<1>1. FsInv /\ FrInv => FsTypeOK
  <2> SUFFICES ASSUME FsInv, FrInv PROVE FsTypeOK
    OBVIOUS
  <2>1. FsTypes
    BY DEF FsInv
  <2>2. /\ frFile \in Seq(1..FrChars) /\ frShown \in Seq(1..FrLines) /\ Len(frFile) \in Nat
        /\ Len(frShown) \in Nat /\ Len(frShown) <= Len(frFile)
    BY DEF FrInv
  <2>3. frNext \in 0..Len(frFile)
    BY <2>2 DEF FrInv
  <2>4. frCut \subseteq 1..Len(frFile)
    BY <2>2 DEF FrInv
  <2> QED BY <2>1, <2>2, <2>3, <2>4 DEF FsTypes, FsStates, FsPlaces, FsTypeOK
<1> QED BY <1>1, FsAlways, FrAlways, PTL
=============================================================================
