---------------------------- MODULE SettingsProofs ----------------------------
(***************************************************************************)
(* Proofs about Settings and the cache it stands on, for any users,        *)
(* documents, questions and confirmations: what a step does to the cache   *)
(* is a step of TwoLevelCache, the levels agree, configurations are whole  *)
(* and a mode that was set holds.                                          *)
(***************************************************************************)
EXTENDS Settings, FiniteSetTheorems, TLAPS

Writers == Requests \X {"config", "mode"}
Entries == Users \cup Docs

SetConfigCache(r) ==
    \/ Cache!SetL2(<<r, "config">>, UserOf[r], {r})
    \/ Cache!SetL2Fails(<<r, "config">>, UserOf[r], {r})

SetModeCache(r, m) ==
    \/ Cache!SetL2(<<r, "mode">>, DocOf[r], m)
    \/ Cache!SetL2Fails(<<r, "mode">>, DocOf[r], m)

(* All a step can do to the cache. *)
CacheStep ==
    \/ UNCHANGED cacheVars
    \/ \E k \in Entries, v \in Configs \cup Modes \cup {Miss} : Cache!GetCache(k, v)
    \/ \E r \in Requests : SetConfigCache(r)
    \/ \E r \in Requests, m \in Modes : SetModeCache(r, m)
    \/ \E w \in Writers : Cache!SetL1(w)
    \/ \E k \in Entries : Cache!LoseL1(k) \/ Cache!LoseL2(k)
    \/ Cache!Restart

\* A read leaves all as it is, but for the record that Redis did not answer it.
LEMMA ReadsKeep ==
    ASSUME NEW k, NEW v, Cache!GetCache(k, v)
    PROVE  /\ UNCHANGED <<l1, l2, half>>
           /\ upset' = upset \/ upset' = upset \cup {<<k, "unread">>}
  BY DEF Cache!GetCache, Cache!cacheVars

ModesTyped == mode \in [Asks -> Modes]

LEMMA StepOfCache ==
    ASSUME ModesTyped, [Next]_settingsVars
    PROVE  CacheStep
  <1> USE DEF CacheStep, Requests, Writers, Modes
  <1>1. CASE UNCHANGED settingsVars
    BY <1>1 DEF settingsVars
  <1>2. ASSUME NEW a \in Asks,
               \/ AskQuestion(a) \/ UseGivenConfig(a) \/ UseCachedConfig(a) \/ NoConfig(a)
               \/ CachedMode(a) \/ ReadMode(a)
        PROVE  CacheStep
    <2>1. UserOf[a] \in Entries /\ DocOf[a] \in Entries
      BY SettingsAssumption DEF Entries
    <2>2. CASE AskQuestion(a) \/ UseGivenConfig(a)
      BY <2>2 DEF AskQuestion, UseGivenConfig
    <2>3. CASE UseCachedConfig(a)
      BY <2>1, <2>3 DEF UseCachedConfig
    <2>4. CASE NoConfig(a)
      BY <2>1, <2>4 DEF NoConfig
    <2>5. CASE CachedMode(a)
      BY <2>1, <2>5 DEF CachedMode
    <2>6. CASE ReadMode(a)
      BY <2>1, <2>6 DEF ReadMode
    <2> QED
      BY <1>2, <2>2, <2>3, <2>4, <2>5, <2>6
  <1>3. ASSUME NEW a \in Asks, SetConfig(a) PROVE SetConfigCache(a)
    BY <1>3 DEF SetConfig, SetConfigCache
  <1>4. ASSUME NEW a \in Asks, SetConfigEnds(a) PROVE CacheStep
    BY <1>4 DEF SetConfigEnds
  <1>5. ASSUME NEW a \in Asks, FillMode(a) PROVE SetModeCache(a, mode[a])
    BY <1>5 DEF FillMode, SetModeCache
  <1>6. ASSUME NEW a \in Asks, FillModeEnds(a) PROVE CacheStep
    <2>1. mode[a] \in Modes
      BY DEF ModesTyped
    <2> QED
      BY <1>6, <2>1 DEF FillModeEnds, SetModeCache
  <1>7. ASSUME NEW c \in Confirms, Confirm(c) PROVE UNCHANGED cacheVars
    BY <1>7 DEF Confirm
  <1>8. ASSUME NEW c \in Confirms, StoreConfig(c) PROVE CacheStep
    BY <1>8 DEF StoreConfig, SetConfigCache
  <1>9. ASSUME NEW c \in Confirms, SetRagMode(c) PROVE CacheStep
    BY <1>9 DEF SetRagMode, SetModeCache
  <1>10. ASSUME NEW c \in Confirms, SetRagModeEnds(c) PROVE CacheStep
    BY <1>10 DEF SetRagModeEnds
  <1>11. ASSUME NEW c \in Confirms, SetRagModeFails(c) PROVE CacheStep
    BY <1>11 DEF SetRagModeFails, SetModeCache
  <1>12. ASSUME NEW k \in Entries, Expire(k) PROVE CacheStep
    BY <1>12 DEF Expire
  <1>13. CASE Crash
    BY <1>13 DEF Crash
  <1>14. \A a \in Asks : FillMode(a) => CacheStep
    BY <1>5 DEF ModesTyped
  <1> QED
    BY <1>1, <1>2, <1>3, <1>4, <1>6, <1>7, <1>8, <1>9, <1>10, <1>11, <1>12, <1>13, <1>14
       DEF Next, Entries

-----------------------------------------------------------------------------
(* What the entries are: the cache's types, and that a configuration is     *)
(* written as one request has it.                                           *)
Whole == {{r} : r \in Requests}

EntriesTyped(level) ==
    /\ level \in [Entries -> Configs \cup Modes \cup {Miss}]
    /\ \A u \in Users : level[u] \in {Miss} \cup Whole
    /\ \A d \in Docs : level[d] \in {Miss} \cup Modes

HalfTyped ==
    /\ half \in [Writers -> [key : Entries, value : Configs \cup Modes] \cup {Miss}]
    /\ \A r \in Requests :
          /\ half[<<r, "config">>] \in {Miss} \cup [key : {UserOf[r]}, value : {{r}}]
          /\ half[<<r, "mode">>] \in {Miss} \cup [key : {DocOf[r]}, value : Modes]

CacheInv ==
    /\ EntriesTyped(l1) /\ EntriesTyped(l2)
    /\ HalfTyped
    /\ upset \subseteq Entries \X Cache!Upsets

LEMMA CacheInit == Init => CacheInv
  BY DEF Init, CacheInv, EntriesTyped, HalfTyped, Cache!CacheInit, Entries, Writers

LEMMA ConfigWritten ==
    ASSUME NEW level, EntriesTyped(level), NEW u \in Users, NEW v \in Whole \cup {Miss}
    PROVE  EntriesTyped([level EXCEPT ![u] = v])
  BY SettingsAssumption DEF EntriesTyped, Entries, Whole, Configs

LEMMA ModeWritten ==
    ASSUME NEW level, EntriesTyped(level), NEW d \in Docs, NEW v \in Modes \cup {Miss}
    PROVE  EntriesTyped([level EXCEPT ![d] = v])
  BY SettingsAssumption DEF EntriesTyped, Entries

LEMMA CacheKeeps ==
    ASSUME CacheInv, CacheStep
    PROVE  CacheInv'
  <1> USE SettingsAssumption DEF CacheInv
  <1>1. CASE UNCHANGED cacheVars
    BY <1>1 DEF cacheVars, EntriesTyped, HalfTyped
  <1>2. ASSUME NEW r \in Requests, SetConfigCache(r) PROVE CacheInv'
    <2>1. UserOf[r] \in Users /\ {r} \in Whole
      BY DEF Whole
    <2>2. EntriesTyped(l1)'
      BY <1>2 DEF SetConfigCache, Cache!SetL2, Cache!SetL2Fails, EntriesTyped
    <2>3. EntriesTyped(l2)'
      <3>1. EntriesTyped([l2 EXCEPT ![UserOf[r]] = {r}])
        BY <2>1, ConfigWritten
      <3> QED
        BY <1>2, <3>1 DEF SetConfigCache, Cache!SetL2, Cache!SetL2Fails, EntriesTyped
    <2>4. HalfTyped'
      <3>1. CASE half' = half
        BY <3>1 DEF HalfTyped
      <3>2. CASE half' = [half EXCEPT ![<<r, "config">>] = [key |-> UserOf[r], value |-> {r}]]
        BY <2>1, <3>2 DEF HalfTyped, Writers, Entries, Configs
      <3> QED
        BY <1>2, <3>1, <3>2 DEF SetConfigCache, Cache!SetL2, Cache!SetL2Fails
    <2>5. (upset \subseteq Entries \X Cache!Upsets)'
      BY <1>2, <2>1 DEF SetConfigCache, Cache!SetL2, Cache!SetL2Fails, Cache!Upsets, Entries
    <2> QED
      BY <2>2, <2>3, <2>4, <2>5
  <1>3. ASSUME NEW r \in Requests, NEW m \in Modes, SetModeCache(r, m) PROVE CacheInv'
    <2>1. DocOf[r] \in Docs
      OBVIOUS
    <2>2. EntriesTyped(l1)'
      BY <1>3 DEF SetModeCache, Cache!SetL2, Cache!SetL2Fails, EntriesTyped
    <2>3. EntriesTyped(l2)'
      <3>1. EntriesTyped([l2 EXCEPT ![DocOf[r]] = m])
        BY <2>1, ModeWritten
      <3> QED
        BY <1>3, <3>1 DEF SetModeCache, Cache!SetL2, Cache!SetL2Fails, EntriesTyped
    <2>4. HalfTyped'
      <3>1. CASE half' = half
        BY <3>1 DEF HalfTyped
      <3>2. CASE half' = [half EXCEPT ![<<r, "mode">>] = [key |-> DocOf[r], value |-> m]]
        BY <2>1, <3>2 DEF HalfTyped, Writers, Entries
      <3> QED
        BY <1>3, <3>1, <3>2 DEF SetModeCache, Cache!SetL2, Cache!SetL2Fails
    <2>5. (upset \subseteq Entries \X Cache!Upsets)'
      BY <1>3, <2>1 DEF SetModeCache, Cache!SetL2, Cache!SetL2Fails, Cache!Upsets, Entries
    <2> QED
      BY <2>2, <2>3, <2>4, <2>5
  <1>4. ASSUME NEW w \in Writers, Cache!SetL1(w) PROVE CacheInv'
    <2>1. PICK r \in Requests : w \in {<<r, "config">>, <<r, "mode">>}
      BY DEF Writers
    <2>2. EntriesTyped([l1 EXCEPT ![half[w].key] = half[w].value])
      <3>1. half[w] # Miss
        BY <1>4 DEF Cache!SetL1
      <3>2. CASE w = <<r, "config">>
        <4>1. half[w].key \in Users /\ half[w].value \in Whole
          BY <3>1, <3>2 DEF HalfTyped, Whole
        <4> QED
          BY <4>1, ConfigWritten
      <3>3. CASE w = <<r, "mode">>
        <4>1. half[w].key \in Docs /\ half[w].value \in Modes
          BY <3>1, <3>3 DEF HalfTyped
        <4> QED
          BY <4>1, ModeWritten
      <3> QED
        BY <2>1, <3>2, <3>3
    <2>3. HalfTyped'
      BY <1>4 DEF Cache!SetL1, HalfTyped, Writers
    <2> QED
      BY <1>4, <2>2, <2>3 DEF Cache!SetL1, EntriesTyped
  <1>5. ASSUME NEW k \in Entries, Cache!LoseL1(k) \/ Cache!LoseL2(k) PROVE CacheInv'
    <2>1. EntriesTyped([l1 EXCEPT ![k] = Miss]) /\ EntriesTyped([l2 EXCEPT ![k] = Miss])
      BY ConfigWritten, ModeWritten DEF Entries
    <2>2. CASE Cache!LoseL1(k)
      BY <2>1, <2>2 DEF Cache!LoseL1, EntriesTyped, HalfTyped
    <2>3. CASE Cache!LoseL2(k)
      <3>1. (upset \subseteq Entries \X Cache!Upsets)'
        BY <2>3 DEF Cache!LoseL2, Cache!Upsets
      <3>2. EntriesTyped(l1)' /\ EntriesTyped(l2)'
        BY <2>1, <2>3 DEF Cache!LoseL2, EntriesTyped
      <3>3. HalfTyped'
        BY <2>3 DEF Cache!LoseL2, HalfTyped
      <3> QED
        BY <3>1, <3>2, <3>3
    <2> QED
      BY <1>5, <2>2, <2>3
  <1>6. CASE Cache!Restart
    BY <1>6 DEF Cache!Restart, EntriesTyped, HalfTyped, Entries, Writers
  <1>7. ASSUME NEW k \in Entries, NEW v, Cache!GetCache(k, v) PROVE CacheInv'
    <2>1. (upset \subseteq Entries \X Cache!Upsets)'
      BY <1>7, ReadsKeep DEF Cache!Upsets
    <2> QED
      BY <1>7, <2>1, ReadsKeep DEF EntriesTyped, HalfTyped
  <1> QED
    BY <1>1, <1>2, <1>3, <1>4, <1>5, <1>6, <1>7 DEF CacheStep

-----------------------------------------------------------------------------
(* As long as no calls overlapped on a key and no answer was lost, at most  *)
(* one call is between the levels, and what it wrote is in L2 or lost.      *)
Undisturbed(k) == {<<k, "overlap">>, <<k, "unanswered">>} \cap upset = {}

Ordered ==
    \A k \in Entries : Undisturbed(k) =>
        /\ \A w, x \in Cache!InFlight(k) : w = x
        /\ \A w \in Cache!InFlight(k) : l2[k] \in {half[w].value, Miss}

LevelsInv == Ordered /\ LevelsAgree

LEMMA InitLevels == Init => LevelsInv
  BY DEF Init, LevelsInv, Ordered, LevelsAgree, Cache!LevelsAgree, Cache!CacheInit,
         Cache!InFlight, Writers, Entries

LEMMA LevelsAfterSetL2 ==
    ASSUME CacheInv, LevelsInv, NEW w \in Writers, NEW k \in Entries,
           NEW v \in Configs \cup Modes, Cache!SetL2(w, k, v)
    PROVE  LevelsInv'
  <1> USE DEF Undisturbed
  <1>1. /\ half[w] = Miss
        /\ l1' = l1
        /\ \A x \in Entries : x # k => l2'[x] = l2[x]
        /\ l2'[k] = v
    BY DEF Cache!SetL2, CacheInv, EntriesTyped
  <1>2. /\ half'[w] = [key |-> k, value |-> v]
        /\ \A x \in Writers \ {w} : half'[x] = half[x]
    BY DEF Cache!SetL2, CacheInv, HalfTyped
  <1>3. upset' = upset \cup (IF Cache!InFlight(k) = {} THEN {} ELSE {<<k, "overlap">>})
    BY DEF Cache!SetL2
  <1>4. ASSUME NEW x \in Entries, x # k
        PROVE  Cache!InFlight(x)' = Cache!InFlight(x) /\ (Undisturbed(x)' => Undisturbed(x))
    BY <1>1, <1>2, <1>3, <1>4 DEF Cache!InFlight, Writers
  <1>5. Undisturbed(k)' => Cache!InFlight(k)' = {w}
    <2>1. w \in Cache!InFlight(k)'
      <3>1. w \in Requests \X {"config", "mode"}
        BY DEF Writers
      <3>2. half'[w] # Miss /\ half'[w].key = k
        BY <1>2, SettingsAssumption DEF Entries
      <3> QED
        BY <3>1, <3>2 DEF Cache!InFlight
    <2>2. ASSUME NEW x \in Cache!InFlight(k)', x # w
          PROVE  x \in Cache!InFlight(k)
      BY <1>2, <2>2 DEF Cache!InFlight, Writers
    <2>3. Cache!InFlight(k) # {} => <<k, "overlap">> \in upset'
      BY <1>3
    <2>4. Undisturbed(k)' => Cache!InFlight(k) = {}
      BY <2>3
    <2>5. Cache!InFlight(k) = {} => Cache!InFlight(k)' = {w}
      BY <2>1, <2>2
    <2> QED
      BY <2>4, <2>5
  <1>6. Ordered'
    BY <1>1, <1>2, <1>4, <1>5 DEF LevelsInv, Ordered, Cache!InFlight, Writers
  <1>7. LevelsAgree'
    BY <1>1, <1>4, <1>5 DEF LevelsInv, LevelsAgree, Cache!LevelsAgree, Entries
  <1> QED
    BY <1>6, <1>7 DEF LevelsInv

LEMMA LevelsAfterSetL2Fails ==
    ASSUME CacheInv, LevelsInv, NEW w, NEW k \in Entries, NEW v, Cache!SetL2Fails(w, k, v)
    PROVE  LevelsInv'
  <1> USE DEF Undisturbed
  <1>1. l1' = l1 /\ half' = half
    BY DEF Cache!SetL2Fails
  <1>2. ASSUME NEW x \in Entries
        PROVE  Undisturbed(x)' => Undisturbed(x) /\ l2'[x] = l2[x]
    BY DEF Cache!SetL2Fails, CacheInv, EntriesTyped
  <1> QED
    BY <1>1, <1>2 DEF LevelsInv, Ordered, LevelsAgree, Cache!LevelsAgree, Cache!InFlight, Entries

LEMMA LevelsAfterSetL1 ==
    ASSUME CacheInv, LevelsInv, NEW w \in Writers, Cache!SetL1(w)
    PROVE  LevelsInv'
  <1> USE DEF Undisturbed
  <1> DEFINE k == half[w].key
  <1>1. half[w] # Miss /\ l2' = l2 /\ upset' = upset
    BY DEF Cache!SetL1
  <1>2. k \in Entries
    BY <1>1 DEF CacheInv, HalfTyped
  <1>3. l1'[k] = half[w].value /\ \A x \in Entries \ {k} : l1'[x] = l1[x]
    BY <1>2 DEF Cache!SetL1, CacheInv, EntriesTyped
  <1>4. half'[w] = Miss /\ \A x \in Writers \ {w} : half'[x] = half[x]
    BY DEF Cache!SetL1, CacheInv, HalfTyped
  <1>5. \A x \in Entries : Cache!InFlight(x)' = Cache!InFlight(x) \ {w}
    BY <1>4 DEF Cache!InFlight, Writers
  <1>6. w \in Cache!InFlight(k)
    BY <1>1 DEF Cache!InFlight, Writers
  <1>7. Ordered'
    BY <1>1, <1>4, <1>5 DEF LevelsInv, Ordered, Cache!InFlight, Writers
  <1>8. \A x \in Entries \ {k} : w \notin Cache!InFlight(x)
    BY DEF Cache!InFlight
  <1>9. LevelsAgree'
    BY <1>1, <1>2, <1>3, <1>5, <1>6, <1>8
       DEF LevelsInv, Ordered, LevelsAgree, Cache!LevelsAgree, Entries
  <1> QED
    BY <1>7, <1>9 DEF LevelsInv

LEMMA LevelsKept ==
    ASSUME CacheInv, LevelsInv, CacheStep
    PROVE  LevelsInv'
  <1> USE DEF Undisturbed
  <1>1. CASE UNCHANGED cacheVars
    BY <1>1 DEF cacheVars, LevelsInv, Ordered, LevelsAgree, Cache!LevelsAgree, Cache!InFlight
  <1>2. ASSUME NEW r \in Requests, SetConfigCache(r) PROVE LevelsInv'
    <2>1. UserOf[r] \in Entries /\ <<r, "config">> \in Writers /\ {r} \in Configs
      BY SettingsAssumption DEF Entries, Writers, Configs
    <2> QED
      BY <1>2, <2>1, LevelsAfterSetL2, LevelsAfterSetL2Fails DEF SetConfigCache
  <1>3. ASSUME NEW r \in Requests, NEW m \in Modes, SetModeCache(r, m) PROVE LevelsInv'
    <2>1. DocOf[r] \in Entries /\ <<r, "mode">> \in Writers
      BY SettingsAssumption DEF Entries, Writers
    <2> QED
      BY <1>3, <2>1, LevelsAfterSetL2, LevelsAfterSetL2Fails DEF SetModeCache
  <1>4. ASSUME NEW k \in Entries, Cache!LoseL1(k) \/ Cache!LoseL2(k) PROVE LevelsInv'
    <2>1. \A x \in Entries : l1'[x] \in {l1[x], Miss} /\ l2'[x] \in {l2[x], Miss}
      BY <1>4 DEF Cache!LoseL1, Cache!LoseL2, CacheInv, EntriesTyped
    <2>2. half' = half /\ upset \subseteq upset'
      BY <1>4 DEF Cache!LoseL1, Cache!LoseL2
    <2> QED
      BY <2>1, <2>2 DEF LevelsInv, Ordered, LevelsAgree, Cache!LevelsAgree, Cache!InFlight, Entries
  <1>5. CASE Cache!Restart
    <2>1. \A x \in Entries : Cache!InFlight(x)' = {} /\ l1'[x] = Miss
      BY <1>5 DEF Cache!Restart, Cache!InFlight, Entries
    <2> QED
      BY <2>1 DEF LevelsInv, Ordered, LevelsAgree, Cache!LevelsAgree, Entries
  <1>6. ASSUME NEW k \in Entries, NEW v, Cache!GetCache(k, v) PROVE LevelsInv'
    <2>1. UNCHANGED <<l1, l2, half>> /\ upset \subseteq upset'
      BY <1>6, ReadsKeep
    <2> QED
      BY <2>1 DEF LevelsInv, Ordered, LevelsAgree, Cache!LevelsAgree, Cache!InFlight, Entries
  <1> QED
    BY <1>1, <1>2, <1>3, <1>4, <1>5, <1>6, LevelsAfterSetL1 DEF CacheStep

-----------------------------------------------------------------------------
QuestionTyped ==
    /\ at \in [Asks -> {"idle", "config", "mode", "fill", "prompt", "failed"}]
    /\ giving \in [Asks -> {"all", "some", "nothing"}]
    /\ config \in [Asks -> Configs]
    /\ ModesTyped
    /\ setter \subseteq {a \in Asks : at[a] \in {"mode", "fill", "prompt"}}
    /\ confirmAt \in [Confirms -> {"idle", "config", "mode", "set", "failed"}]
    /\ raced \subseteq Docs

LEMMA QuestionKept ==
    ASSUME QuestionTyped, CacheInv, [Next]_settingsVars
    PROVE  QuestionTyped'
  <1> USE SettingsAssumption DEF QuestionTyped, ModesTyped
  <1>1. CASE UNCHANGED settingsVars
    BY <1>1 DEF settingsVars, question
  <1>2. ASSUME NEW a \in Asks, AskQuestion(a) PROVE QuestionTyped'
    BY <1>2 DEF AskQuestion, Goto
  <1>3. ASSUME NEW a \in Asks, UseGivenConfig(a) PROVE QuestionTyped'
    BY <1>3 DEF UseGivenConfig, Goto, Configs, Requests
  <1>4. ASSUME NEW a \in Asks, UseCachedConfig(a) PROVE QuestionTyped'
    <2>1. \A cfg \in Configs : Override(a, cfg) \in Configs
      BY DEF Override, Configs, Requests
    <2> QED
      BY <1>4, <2>1 DEF UseCachedConfig, Goto
  <1>5. ASSUME NEW a \in Asks, NoConfig(a) \/ FillMode(a) \/ FillModeEnds(a) PROVE QuestionTyped'
    BY <1>5 DEF NoConfig, FillMode, FillModeEnds, Goto, question
  <1>6. ASSUME NEW a \in Asks, SetConfig(a) \/ SetConfigEnds(a) PROVE QuestionTyped'
    BY <1>6 DEF SetConfig, SetConfigEnds, question
  <1>7. ASSUME NEW a \in Asks, CachedMode(a) \/ ReadMode(a) PROVE QuestionTyped'
    BY <1>7 DEF CachedMode, ReadMode, Goto, Modes
  <1>8. ASSUME NEW c \in Confirms, Confirm(c) \/ StoreConfig(c) PROVE QuestionTyped'
    BY <1>8 DEF Confirm, StoreConfig, question
  <1>9. ASSUME NEW c \in Confirms, SetRagMode(c) PROVE QuestionTyped'
    BY <1>9 DEF SetRagMode, question, Requests
  <1>10. ASSUME NEW c \in Confirms, SetRagModeEnds(c) \/ SetRagModeFails(c) PROVE QuestionTyped'
    BY <1>10 DEF SetRagModeEnds, SetRagModeFails, question
  <1>11. ASSUME NEW k \in Entries, Expire(k) PROVE QuestionTyped'
    BY <1>11 DEF Expire, question
  <1>12. CASE Crash
    BY <1>12 DEF Crash
  <1> QED
    BY <1>1, <1>2, <1>3, <1>4, <1>5, <1>6, <1>7, <1>8, <1>9, <1>10, <1>11, <1>12
       DEF Next, Entries

LEMMA CacheInvariant == Spec => [](QuestionTyped /\ CacheInv /\ LevelsInv)
  <1>1. Init => QuestionTyped
    BY DEF Init, QuestionTyped, ModesTyped, Modes, Configs
  <1>2. QuestionTyped /\ CacheInv /\ LevelsInv /\ [Next]_settingsVars
        => QuestionTyped' /\ CacheInv' /\ LevelsInv'
    <2> SUFFICES ASSUME QuestionTyped, CacheInv, LevelsInv, [Next]_settingsVars
                 PROVE  QuestionTyped' /\ CacheInv' /\ LevelsInv'
      OBVIOUS
    <2>1. CacheStep
      BY StepOfCache DEF QuestionTyped
    <2> QED
      BY <2>1, QuestionKept, CacheKeeps, LevelsKept
  <1> QED
    BY <1>1, <1>2, CacheInit, InitLevels, PTL DEF Spec

(* Every entry of the cache, every call between its levels and every step   *)
(* of a question or a confirmation is of its kind, whatever interleaves.    *)
THEOREM TypeCorrect == Spec => []TypeOK
  <1>1. ASSUME QuestionTyped, CacheInv PROVE TypeOK
    <2>1. Whole \subseteq Configs
      BY DEF Whole, Configs
    <2>2. /\ \A u \in Users : {l1[u], l2[u]} \subseteq {Miss} \cup Configs
          /\ \A d \in Docs : {l1[d], l2[d]} \subseteq {Miss} \cup Modes
      BY <1>1, <2>1 DEF CacheInv, EntriesTyped
    <2>3. \A r \in Requests :
              /\ half[<<r, "config">>] \in {Miss} \cup [key : {UserOf[r]}, value : Configs]
              /\ half[<<r, "mode">>] \in {Miss} \cup [key : {DocOf[r]}, value : Modes]
      <3>1. \A r \in Requests : {r} \in Configs
        BY DEF Configs
      <3> QED
        BY <1>1, <3>1 DEF CacheInv, HalfTyped
    <2>4. DOMAIN half = Requests \X {"config", "mode"}
      BY <1>1 DEF CacheInv, HalfTyped, Writers
    <2> QED
      BY <1>1, <2>2, <2>3, <2>4 DEF TypeOK, QuestionTyped, ModesTyped, CacheInv, Entries
  <1> QED
    BY <1>1, CacheInvariant, PTL

(* L1 and L2 agree on a key once no call is between them, unless two calls  *)
(* overlapped on it or an answer of Redis was lost.                         *)
THEOREM CacheAgrees == Spec => []LevelsAgree
  <1>1. LevelsInv => LevelsAgree
    BY DEF LevelsInv
  <1> QED
    BY <1>1, CacheInvariant, PTL

(* No configuration in the cache mixes the fields of two requests.          *)
THEOREM ConfigsWhole == Spec => []ConfigsAreWhole
  <1>1. \A cfg \in Whole : Cardinality(cfg) = 1
    BY FS_Singleton DEF Whole
  <1>2. CacheInv => ConfigsAreWhole
    BY <1>1 DEF CacheInv, EntriesTyped, ConfigsAreWhole
  <1> QED
    BY <1>2, CacheInvariant, PTL

-----------------------------------------------------------------------------
(* The mode of a document with a single confirmation, when nothing of what  *)
(* can lose it happened.                                                    *)
Calm(c) ==
    /\ \A b \in Confirms \ {c} : DocOf[b] # DocOf[c]
    /\ DocOf[c] \notin raced
    /\ upset \cap ({DocOf[c]} \X Cache!Upsets) = {}

Setting(c) == half[<<c, "mode">>] # Miss

(* From the moment the mode is in L2, no question can be about to fill in   *)
(* another, and L1 never holds another.                                     *)
ModeInv ==
    /\ \A a \in Asks : half[<<a, "mode">>] # Miss => at[a] = "fill"
    /\ \A c \in Confirms : Setting(c) =>
          confirmAt[c] = "mode" /\ half[<<c, "mode">>].value = "rag"
    /\ \A c \in Confirms : Calm(c) /\ (Setting(c) \/ confirmAt[c] = "set") =>
          /\ l2[DocOf[c]] = "rag"
          /\ \A a \in Asks : at[a] = "fill" => DocOf[a] # DocOf[c]
    /\ \A c \in Confirms : Calm(c) /\ confirmAt[c] = "set" =>
          l1[DocOf[c]] \in {"rag", Miss}

LEMMA InitMode == Init => ModeInv
  BY DEF Init, ModeInv, Cache!CacheInit, Setting, Requests

(* A step that touches no mode, of a question or of the cache, keeps it.    *)
LEMMA ModeUntouched ==
    ASSUME ModeInv,
           \A r \in Requests : half'[<<r, "mode">>] = half[<<r, "mode">>],
           \A c \in Confirms : l1'[DocOf[c]] \in {l1[DocOf[c]], Miss},
           \A c \in Confirms : Calm(c)' => Calm(c) /\ l2'[DocOf[c]] = l2[DocOf[c]],
           \A a \in Asks : at[a] = "fill" <=> at'[a] = "fill",
           \A c \in Confirms : confirmAt'[c] = "set" <=> confirmAt[c] = "set",
           \A c \in Confirms : Setting(c) => confirmAt'[c] = confirmAt[c]
    PROVE  ModeInv'
  BY DEF ModeInv, Setting, Requests

LEMMA ConfigTouchesNoMode ==
    ASSUME CacheInv, NEW r \in Requests, SetConfigCache(r) \/ Cache!SetL1(<<r, "config">>)
    PROVE  /\ \A q \in Requests : half'[<<q, "mode">>] = half[<<q, "mode">>]
           /\ \A d \in Docs : l1'[d] = l1[d] /\ l2'[d] = l2[d]
           /\ upset \subseteq upset'
  <1> USE SettingsAssumption DEF CacheInv
  <1>1. UserOf[r] \in Users
    OBVIOUS
  <1>2. CASE SetConfigCache(r)
    BY <1>1, <1>2
       DEF SetConfigCache, Cache!SetL2, Cache!SetL2Fails, EntriesTyped, HalfTyped, Writers, Entries
  <1>3. CASE Cache!SetL1(<<r, "config">>)
    <2>1. half[<<r, "config">>].key \in Users
      BY <1>1, <1>3 DEF Cache!SetL1, HalfTyped
    <2> QED
      BY <1>3, <2>1 DEF Cache!SetL1, EntriesTyped, HalfTyped, Writers, Entries
  <1> QED
    BY <1>2, <1>3

LEMMA ModeKept ==
    ASSUME QuestionTyped, CacheInv, ModeInv, [Next]_settingsVars
    PROVE  ModeInv'
  <1> USE SettingsAssumption DEF QuestionTyped, ModesTyped, Requests
  <1>1. CASE UNCHANGED settingsVars
    BY <1>1, ModeUntouched DEF settingsVars, cacheVars, question, Calm, Setting
  <1>2. ASSUME NEW a \in Asks,
               AskQuestion(a) \/ UseGivenConfig(a) \/ UseCachedConfig(a) \/ NoConfig(a)
        PROVE  ModeInv'
    <2>1. UNCHANGED <<l1, l2, half, confirmAt, raced>> /\ upset \subseteq upset'
      BY <1>2, ReadsKeep DEF AskQuestion, UseGivenConfig, UseCachedConfig, NoConfig, cacheVars
    <2>2. \A b \in Asks : at[b] = "fill" <=> at'[b] = "fill"
      BY <1>2 DEF AskQuestion, UseGivenConfig, UseCachedConfig, NoConfig, Goto
    <2> QED
      BY <2>1, <2>2, ModeUntouched DEF Calm, Setting
  <1>3. ASSUME NEW a \in Asks, SetConfig(a) \/ SetConfigEnds(a) PROVE ModeInv'
    <2>1. /\ SetConfigCache(a) \/ Cache!SetL1(<<a, "config">>)
          /\ at' = at /\ confirmAt' = confirmAt /\ raced' = raced
      BY <1>3 DEF SetConfig, SetConfigEnds, SetConfigCache, question
    <2> QED
      BY <2>1, ConfigTouchesNoMode, ModeUntouched DEF Calm
  <1>4. ASSUME NEW a \in Asks, CachedMode(a) PROVE ModeInv'
    <2>1. UNCHANGED <<l1, l2, half, confirmAt, raced>> /\ upset \subseteq upset'
      BY <1>4, ReadsKeep DEF CachedMode
    <2>2. \A b \in Asks : at[b] = "fill" <=> at'[b] = "fill"
      BY <1>4 DEF CachedMode, Goto
    <2> QED
      BY <2>1, <2>2, ModeUntouched DEF Calm, Setting
  <1>5. ASSUME NEW a \in Asks, ReadMode(a) PROVE ModeInv'
    <2>1. /\ UNCHANGED <<l1, l2, half, confirmAt, raced>>
          /\ upset \subseteq upset'
          /\ at[a] = "mode"
          /\ \A b \in Asks \ {a} : at'[b] = at[b]
      BY <1>5, ReadsKeep DEF ReadMode, Goto
    <2>2. l2[DocOf[a]] = Miss \/ <<DocOf[a], "unread">> \in upset'
      BY <1>5 DEF ReadMode, Cache!GetCache, Cache!Found
    <2>3. \A c \in Confirms : Calm(c)' => Calm(c) /\ <<DocOf[c], "unread">> \notin upset'
      BY <2>1 DEF Calm, Cache!Upsets
    <2>4. \A c \in Confirms : Calm(c)' /\ l2[DocOf[c]] = "rag" => DocOf[a] # DocOf[c]
      BY <2>2, <2>3 DEF Modes
    <2>5. \A b \in Asks : half'[<<b, "mode">>] # Miss => at'[b] = "fill"
      BY <2>1 DEF ModeInv
    <2>6. \A c \in Confirms : Calm(c)' /\ (Setting(c)' \/ confirmAt'[c] = "set") =>
              /\ l2'[DocOf[c]] = "rag"
              /\ \A b \in Asks : at'[b] = "fill" => DocOf[b] # DocOf[c]
      <3> SUFFICES ASSUME NEW c \in Confirms, Calm(c)', Setting(c)' \/ confirmAt'[c] = "set"
                   PROVE  /\ l2'[DocOf[c]] = "rag"
                          /\ \A b \in Asks : at'[b] = "fill" => DocOf[b] # DocOf[c]
        OBVIOUS
      <3>1. Calm(c) /\ (Setting(c) \/ confirmAt[c] = "set")
        BY <2>1, <2>3 DEF Setting
      <3>2. l2[DocOf[c]] = "rag" /\ \A b \in Asks : at[b] = "fill" => DocOf[b] # DocOf[c]
        BY <3>1 DEF ModeInv
      <3>3. DocOf[a] # DocOf[c]
        BY <2>4, <3>2
      <3> QED
        BY <2>1, <3>2, <3>3
    <2>7. \A c \in Confirms : Calm(c)' /\ confirmAt'[c] = "set" => l1'[DocOf[c]] \in {"rag", Miss}
      BY <2>1, <2>3 DEF ModeInv
    <2>8. \A c \in Confirms : Setting(c)' =>
              confirmAt'[c] = "mode" /\ half'[<<c, "mode">>].value = "rag"
      BY <2>1 DEF ModeInv, Setting
    <2> QED
      BY <2>5, <2>6, <2>7, <2>8 DEF ModeInv
  <1>6. ASSUME NEW a \in Asks, FillMode(a) PROVE ModeInv'
    <2>1. /\ UNCHANGED <<question, confirmAt, raced>>
          /\ at[a] = "fill"
          /\ l1' = l1
          /\ \A d \in Docs \ {DocOf[a]} : l2'[d] = l2[d]
          /\ upset \subseteq upset'
          /\ \A r \in Requests \ {a} : half'[<<r, "mode">>] = half[<<r, "mode">>]
      BY <1>6 DEF FillMode, Cache!SetL2, CacheInv, EntriesTyped, HalfTyped, Entries, Writers
    <2> QED
      BY <2>1 DEF ModeInv, Calm, Setting, question
  <1>7. ASSUME NEW a \in Asks, FillModeEnds(a) PROVE ModeInv'
    <2>1. /\ UNCHANGED <<confirmAt, raced>>
          /\ at[a] = "fill" /\ at'[a] = "prompt"
          /\ \A b \in Asks \ {a} : at'[b] = at[b]
          /\ upset \subseteq upset'
          /\ \A r \in Requests \ {a} : half'[<<r, "mode">>] = half[<<r, "mode">>]
          /\ half'[<<a, "mode">>] = Miss
      BY <1>7 DEF FillModeEnds, Goto, Cache!SetL1, Cache!SetL2Fails, CacheInv, HalfTyped, Writers
    <2>2. \A d \in Docs \ {DocOf[a]} : l1'[d] = l1[d] /\ l2'[d] = l2[d]
      <3>1. half[<<a, "mode">>] # Miss => half[<<a, "mode">>].key = DocOf[a]
        BY DEF CacheInv, HalfTyped
      <3> QED
        BY <1>7, <3>1
           DEF FillModeEnds, Cache!SetL1, Cache!SetL2Fails, CacheInv, EntriesTyped, Entries
    <2>3. ASSUME NEW c \in Confirms, Calm(c)', Setting(c)' \/ confirmAt'[c] = "set"
          PROVE  /\ Calm(c) /\ (Setting(c) \/ confirmAt[c] = "set")
                 /\ DocOf[a] # DocOf[c]
      <3>1. Calm(c) /\ (Setting(c) \/ confirmAt[c] = "set")
        BY <2>1, <2>3 DEF Calm, Setting
      <3> QED
        BY <2>1, <3>1 DEF ModeInv
    <2>4. \A c \in Confirms : DocOf[c] \in Docs /\ c # a
      OBVIOUS
    <2>5. \A b \in Asks : half'[<<b, "mode">>] # Miss => at'[b] = "fill"
      BY <2>1 DEF ModeInv
    <2>6. \A c \in Confirms : Setting(c)' =>
              confirmAt'[c] = "mode" /\ half'[<<c, "mode">>].value = "rag"
      BY <2>1, <2>4 DEF ModeInv, Setting
    <2>7. \A c \in Confirms : Calm(c)' /\ (Setting(c)' \/ confirmAt'[c] = "set") =>
              /\ l2'[DocOf[c]] = "rag"
              /\ \A b \in Asks : at'[b] = "fill" => DocOf[b] # DocOf[c]
      BY <2>1, <2>2, <2>3, <2>4 DEF ModeInv
    <2>8. \A c \in Confirms : Calm(c)' /\ confirmAt'[c] = "set" => l1'[DocOf[c]] \in {"rag", Miss}
      BY <2>1, <2>2, <2>3, <2>4 DEF ModeInv
    <2> QED
      BY <2>5, <2>6, <2>7, <2>8 DEF ModeInv
  <1>8. ASSUME NEW c \in Confirms, Confirm(c) PROVE ModeInv'
    <2>1. /\ UNCHANGED <<cacheVars, question, raced>>
          /\ confirmAt[c] = "idle" /\ confirmAt'[c] \in {"config", "mode"}
          /\ \A b \in Confirms \ {c} : confirmAt'[b] = confirmAt[b]
      BY <1>8 DEF Confirm
    <2> QED
      BY <2>1 DEF ModeInv, Calm, Setting, cacheVars, question
  <1>9. ASSUME NEW c \in Confirms, StoreConfig(c) PROVE ModeInv'
    <2>1. /\ SetConfigCache(c) \/ Cache!SetL1(<<c, "config">>)
          /\ at' = at /\ raced' = raced
          /\ confirmAt[c] = "config" /\ confirmAt'[c] \in {"config", "mode"}
          /\ \A b \in Confirms \ {c} : confirmAt'[b] = confirmAt[b]
      BY <1>9 DEF StoreConfig, SetConfigCache, question
    <2>2. Setting(c) => confirmAt[c] = "mode"
      BY DEF ModeInv
    <2> QED
      BY <2>1, <2>2, ConfigTouchesNoMode, ModeUntouched DEF Calm
  <1>10. ASSUME NEW c \in Confirms, SetRagMode(c) PROVE ModeInv'
    <2>1. /\ confirmAt[c] = "mode"
          /\ half[<<c, "mode">>] = Miss
          /\ half'[<<c, "mode">>] = [key |-> DocOf[c], value |-> "rag"]
          /\ \A r \in Requests \ {c} : half'[<<r, "mode">>] = half[<<r, "mode">>]
          /\ l1' = l1
          /\ l2'[DocOf[c]] = "rag"
          /\ \A d \in Docs \ {DocOf[c]} : l2'[d] = l2[d]
          /\ upset \subseteq upset'
          /\ raced \subseteq raced'
          /\ DocOf[c] \notin raced' => \A a \in Asks : at[a] = "fill" => DocOf[a] # DocOf[c]
          /\ UNCHANGED <<question, confirmAt>>
      BY <1>10 DEF SetRagMode, Cache!SetL2, CacheInv, EntriesTyped, HalfTyped, Entries, Writers
    <2>2. \A b \in Confirms \ {c} : Calm(b)' => DocOf[b] # DocOf[c] /\ Calm(b)
      BY <2>1 DEF Calm
    <2>3. \A b \in Confirms \ {c} : Setting(b)' <=> Setting(b)
      BY <2>1 DEF Setting
    <2>4. \A r \in Confirms : Setting(r)' => confirmAt'[r] = "mode" /\ half'[<<r, "mode">>].value = "rag"
      BY <2>1, <2>3 DEF ModeInv, Setting, question
    <2>5. \A a \in Asks : half'[<<a, "mode">>] # Miss => at'[a] = "fill"
      BY <2>1 DEF ModeInv, question
    <2>6. \A b \in Confirms : Calm(b)' /\ (Setting(b)' \/ confirmAt'[b] = "set") =>
              /\ l2'[DocOf[b]] = "rag"
              /\ \A a \in Asks : at'[a] = "fill" => DocOf[a] # DocOf[b]
      <3>1. ASSUME Calm(c)'
            PROVE  \A a \in Asks : at'[a] = "fill" => DocOf[a] # DocOf[c]
        BY <2>1, <3>1 DEF Calm, question
      <3>2. ASSUME NEW b \in Confirms \ {c}, Calm(b)', Setting(b)' \/ confirmAt'[b] = "set"
            PROVE  l2'[DocOf[b]] = "rag" /\ \A a \in Asks : at'[a] = "fill" => DocOf[a] # DocOf[b]
        BY <2>1, <2>2, <2>3, <3>2 DEF ModeInv, question
      <3> QED
        BY <2>1, <3>1, <3>2
    <2>7. \A b \in Confirms : Calm(b)' /\ confirmAt'[b] = "set" => l1'[DocOf[b]] \in {"rag", Miss}
      BY <2>1, <2>2 DEF ModeInv, question
    <2> QED
      BY <2>4, <2>5, <2>6, <2>7 DEF ModeInv
  <1>11. ASSUME NEW c \in Confirms, SetRagModeEnds(c) PROVE ModeInv'
    <2>1. /\ Setting(c)
          /\ half[<<c, "mode">>].key = DocOf[c]
          /\ half[<<c, "mode">>].value = "rag"
      BY <1>11 DEF SetRagModeEnds, Cache!SetL1, Setting, CacheInv, HalfTyped, ModeInv
    <2>2. /\ confirmAt[c] = "mode" /\ confirmAt'[c] = "set"
          /\ \A b \in Confirms \ {c} : confirmAt'[b] = confirmAt[b]
          /\ half'[<<c, "mode">>] = Miss
          /\ \A r \in Requests \ {c} : half'[<<r, "mode">>] = half[<<r, "mode">>]
          /\ UNCHANGED <<question, raced, l2, upset>>
          /\ \A d \in Docs : l1'[d] \in {l1[d], "rag"}
          /\ l1'[DocOf[c]] = "rag"
      BY <1>11, <2>1 DEF SetRagModeEnds, Cache!SetL1, CacheInv, EntriesTyped, HalfTyped, Entries, Writers
    <2>3. \A b \in Confirms : Calm(b)' <=> Calm(b)
      BY <2>2 DEF Calm
    <2> QED
      BY <2>1, <2>2, <2>3 DEF ModeInv, Setting, question
  <1>12. ASSUME NEW c \in Confirms, SetRagModeFails(c) PROVE ModeInv'
    <2>1. /\ confirmAt[c] = "mode" /\ confirmAt'[c] = "failed"
          /\ \A b \in Confirms \ {c} : confirmAt'[b] = confirmAt[b]
          /\ ~ Setting(c)
          /\ UNCHANGED <<question, raced, half, l1>>
          /\ upset \subseteq upset'
          /\ \A d \in Docs \ {DocOf[c]} : l2'[d] = l2[d]
      BY <1>12 DEF SetRagModeFails, Cache!SetL2Fails, CacheInv, EntriesTyped, Entries, cacheVars, Setting
    <2>2. \A b \in Confirms : Calm(b)' => Calm(b)
      BY <2>1 DEF Calm
    <2>3. \A b \in Confirms \ {c} : Calm(b) => DocOf[b] # DocOf[c]
      BY DEF Calm
    <2> QED
      BY <2>1, <2>2, <2>3 DEF ModeInv, Setting, question
  <1>13. ASSUME NEW k \in Entries, Expire(k) PROVE ModeInv'
    <2>1. /\ UNCHANGED <<question, confirmAt, raced, half>>
          /\ upset \subseteq upset'
          /\ \A d \in Docs : l1'[d] \in {l1[d], Miss}
          /\ \A d \in Docs : l2'[d] = l2[d] \/ <<d, "lost">> \in upset'
      BY <1>13 DEF Expire, Cache!LoseL1, Cache!LoseL2, CacheInv, EntriesTyped, Entries
    <2>2. \A c \in Confirms : Calm(c)' => Calm(c) /\ l2'[DocOf[c]] = l2[DocOf[c]]
      <3>1. \A d : <<d, "lost">> \in {d} \X Cache!Upsets
        BY DEF Cache!Upsets
      <3>2. \A c \in Confirms : Calm(c)' => <<DocOf[c], "lost">> \notin upset'
        BY <3>1 DEF Calm
      <3>3. \A c \in Confirms : Calm(c)' => Calm(c)
        BY <2>1 DEF Calm
      <3> QED
        BY <2>1, <3>2, <3>3
    <2>3. \A c \in Confirms : l1'[DocOf[c]] \in {l1[DocOf[c]], Miss}
      BY <2>1
    <2> QED
      BY <2>1, <2>2, <2>3, ModeUntouched DEF question
  <1>14. CASE Crash
    <2>1. /\ UNCHANGED <<l2, upset, raced>>
          /\ \A d \in Docs : l1'[d] = Miss
          /\ \A r \in Requests : half'[<<r, "mode">>] = Miss
          /\ \A a \in Asks : at'[a] # "fill"
          /\ \A c \in Confirms : confirmAt'[c] = "set" => confirmAt[c] = "set"
      BY <1>14 DEF Crash, Cache!Restart
    <2> QED
      BY <2>1 DEF ModeInv, Calm, Setting
  <1> QED
    BY <1>1, <1>2, <1>3, <1>4, <1>5, <1>6, <1>7, <1>8, <1>9, <1>10, <1>11, <1>12, <1>13, <1>14
       DEF Next, Entries

(* Once the only confirmation of a document set its mode, questions find    *)
(* it, unless one was about to fill in the default, Redis lost the entry or *)
(* an answer or did not answer a question, or calls overlapped: whatever    *)
(* the number of questions.                                                 *)
THEOREM ModeIsKept == Spec => []ModeHolds
  <1>1. QuestionTyped /\ CacheInv /\ LevelsInv /\ ModeInv /\ [Next]_settingsVars => ModeInv'
    BY ModeKept
  <1>2. CacheInv /\ ModeInv => ModeHolds
    BY SettingsAssumption DEF ModeInv, Calm, ModeHolds, Cache!Found, Modes
  <1> QED
    BY <1>1, <1>2, InitMode, CacheInvariant, PTL DEF Spec

(* What questions and confirmations do to the cache are behaviours of the   *)
(* cache alone: each of their steps is a step of TwoLevelCache or none.     *)
THEOREM ImplementsCache == Spec => Cache!CacheSpec
  <1>1. Init => Cache!CacheInit
    BY DEF Init
  <1>2. ASSUME QuestionTyped, [Next]_settingsVars
        PROVE  [Cache!CacheNext]_(Cache!cacheVars)
    <2>1. CacheStep
      BY <1>2, StepOfCache DEF QuestionTyped
    <2>2. \A r \in Requests : UserOf[r] \in Users /\ DocOf[r] \in Docs /\ {r} \in Configs
      BY SettingsAssumption DEF Configs
    <2>3. ASSUME NEW r \in Requests, SetConfigCache(r) PROVE Cache!CacheNext
      BY <2>2, <2>3 DEF SetConfigCache, Cache!CacheNext
    <2>4. ASSUME NEW r \in Requests, NEW m \in Modes, SetModeCache(r, m) PROVE Cache!CacheNext
      BY <2>2, <2>4 DEF SetModeCache, Cache!CacheNext
    <2> QED
      BY <2>1, <2>3, <2>4
         DEF CacheStep, cacheVars, Cache!cacheVars, Cache!CacheNext, Writers, Entries
  <1> QED
    BY <1>1, <1>2, CacheInvariant, PTL DEF Spec, Cache!CacheSpec
=============================================================================
