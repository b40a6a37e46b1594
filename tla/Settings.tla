------------------------------- MODULE Settings -------------------------------
(***************************************************************************)
(* The LLM configuration of each user and the RAG mode of each document,   *)
(* which live in the two-level cache: what a confirmation of an upload     *)
(* writes, and what a question reads, overrides, fills in and writes back. *)
(* The rest of a question is module ChatService, the rest of a             *)
(* confirmation module DocumentStore.                                      *)
(***************************************************************************)
EXTENDS FiniteSets

CONSTANTS
    Docs,
    Users,
    Asks,      \* calls of AskQuestion
    Confirms,  \* calls of ConfirmUpload
    UserOf,    \* the user behind each call
    DocOf,     \* the document of each call
    Miss

Requests == Asks \cup Confirms

(* A configuration is the set of the requests its fields come from. *)
Configs == SUBSET Requests
Modes   == {"rag", "plain"}

ASSUME SettingsAssumption ==
    /\ UserOf \in [Requests -> Users]
    /\ DocOf \in [Requests -> Docs]
    /\ Asks \cap Confirms = {}
    /\ Docs \cap Users = {}
    /\ Miss \notin Modes
    /\ \A k \in Users \cup Docs :
          /\ \A cfg \in Configs : Miss # cfg /\ Miss # [key |-> k, value |-> cfg]
          /\ \A m \in Modes : Miss # [key |-> k, value |-> m]

VARIABLES
    l1, l2, half, upset,  \* the cache
    \* AskQuestion
    at,
    giving,   \* how much of a configuration the request brings
    config,   \* the configuration in use
    mode,     \* the RAG mode in use
    setter,   \* the questions whose configuration is about to be cached
    \* ConfirmUpload
    confirmAt,
    raced     \* documents whose mode was set while a question had found none

Cache == INSTANCE TwoLevelCache WITH
    Keys <- Users \cup Docs,
    Values <- Configs \cup Modes,
    Writers <- Requests \X {"config", "mode"}

cacheVars    == <<l1, l2, half, upset>>
question     == <<at, giving, config, mode, setter>>
settingsVars == <<cacheVars, question, confirmAt, raced>>

TypeOK ==
    /\ \A u \in Users : {l1[u], l2[u]} \subseteq {Miss} \cup Configs
    /\ \A d \in Docs : {l1[d], l2[d]} \subseteq {Miss} \cup Modes
    /\ DOMAIN half = Requests \X {"config", "mode"}
    /\ \A r \in Requests :
          /\ half[<<r, "config">>] \in {Miss} \cup [key : {UserOf[r]}, value : Configs]
          /\ half[<<r, "mode">>] \in {Miss} \cup [key : {DocOf[r]}, value : Modes]
    /\ upset \subseteq (Users \cup Docs) \X Cache!Upsets
    /\ at \in [Asks -> {"idle", "config", "mode", "fill", "prompt", "failed"}]
    /\ giving \in [Asks -> {"all", "some", "nothing"}]
    /\ config \in [Asks -> Configs]
    /\ mode \in [Asks -> Modes]
    /\ setter \subseteq {a \in Asks : at[a] \in {"mode", "fill", "prompt"}}
    /\ confirmAt \in [Confirms -> {"idle", "config", "mode", "set", "failed"}]
    /\ raced \subseteq Docs

Init ==
    /\ Cache!CacheInit
    /\ at = [a \in Asks |-> "idle"]
    /\ giving \in [Asks -> {"all", "some", "nothing"}]
    /\ config = [a \in Asks |-> {}]
    /\ mode = [a \in Asks |-> "plain"]
    /\ setter = {}
    /\ confirmAt = [c \in Confirms |-> "idle"]
    /\ raced = {}

Goto(a, pc) == at' = [at EXCEPT ![a] = pc]

-----------------------------------------------------------------------------
(* The configuration of a question: GetOrUseDefault *)

AskQuestion(a) ==
    /\ at[a] = "idle"
    /\ Goto(a, "config")
    /\ UNCHANGED <<cacheVars, giving, config, mode, setter, confirmAt, raced>>

(* A configuration given in full is used, and cached by a goroutine. *)
UseGivenConfig(a) ==
    /\ at[a] = "config" /\ giving[a] = "all"
    /\ config' = [config EXCEPT ![a] = {a}]
    /\ setter' = setter \cup {a}
    /\ Goto(a, "mode")
    /\ UNCHANGED <<cacheVars, giving, mode, confirmAt, raced>>

Override(a, cfg) == IF giving[a] = "some" THEN cfg \cup {a} ELSE cfg

\* Mutant: the fields given are written into the cached configuration.
UseCachedConfigShared(a) ==
    /\ at[a] = "config" /\ giving[a] # "all"
    /\ LET cfg == Cache!Found(UserOf[a])
       IN  /\ cfg # Miss
           /\ config' = [config EXCEPT ![a] = Override(a, cfg)]
           /\ l1' = [l1 EXCEPT ![UserOf[a]] = Override(a, cfg)]
           /\ Goto(a, "mode")
    /\ UNCHANGED <<l2, half, upset, giving, mode, setter, confirmAt, raced>>

(* Otherwise the cached one is copied, and the fields given replace those   *)
(* of the copy.                                                             *)
UseCachedConfig(a) ==
    /\ at[a] = "config" /\ giving[a] # "all"
    /\ \E cfg \in Configs :
          /\ Cache!GetCache(UserOf[a], cfg)
          /\ config' = [config EXCEPT ![a] = Override(a, cfg)]
    /\ Goto(a, "mode")
    /\ UNCHANGED <<giving, mode, setter, confirmAt, raced>>

\* Mutant: the goroutine is started before the request is looked at.
NoConfigCached(a) ==
    /\ at[a] = "config" /\ giving[a] # "all"
    /\ Cache!GetCache(UserOf[a], Miss)
    /\ setter' = setter \cup {a}
    /\ Goto(a, "failed")
    /\ UNCHANGED <<giving, config, mode, confirmAt, raced>>

NoConfig(a) ==
    /\ at[a] = "config" /\ giving[a] # "all"
    /\ Cache!GetCache(UserOf[a], Miss)
    /\ Goto(a, "failed")
    /\ UNCHANGED <<giving, config, mode, setter, confirmAt, raced>>

(* The goroutine: SetUserLLMConfig *)
SetConfig(a) ==
    /\ a \in setter
    /\ setter' = setter \ {a}
    /\ \/ Cache!SetL2(<<a, "config">>, UserOf[a], {a})
       \/ Cache!SetL2Fails(<<a, "config">>, UserOf[a], {a})
    /\ UNCHANGED <<at, giving, config, mode, confirmAt, raced>>

SetConfigEnds(a) ==
    /\ Cache!SetL1(<<a, "config">>)
    /\ UNCHANGED <<question, confirmAt, raced>>

-----------------------------------------------------------------------------
(* The mode of a question: GetRagMode *)

CachedMode(a) ==
    /\ at[a] = "mode"
    /\ \E m \in Modes :
          /\ Cache!GetCache(DocOf[a], m)
          /\ mode' = [mode EXCEPT ![a] = m]
    /\ Goto(a, "prompt")
    /\ UNCHANGED <<giving, config, setter, confirmAt, raced>>

(* The column of the row: nothing in the program writes another mode to it  *)
(* than its default.  An error of the database counts as plain.             *)
ReadMode(a) ==
    /\ at[a] = "mode"
    /\ Cache!GetCache(DocOf[a], Miss)
    /\ mode' = [mode EXCEPT ![a] = "plain"]
    /\ Goto(a, "fill") \/ Goto(a, "prompt")
    /\ UNCHANGED <<giving, config, setter, confirmAt, raced>>

FillMode(a) ==
    /\ at[a] = "fill"
    /\ Cache!SetL2(<<a, "mode">>, DocOf[a], mode[a])
    /\ UNCHANGED <<question, confirmAt, raced>>

FillModeEnds(a) ==
    /\ at[a] = "fill"
    /\ \/ Cache!SetL1(<<a, "mode">>)
       \/ Cache!SetL2Fails(<<a, "mode">>, DocOf[a], mode[a])
    /\ Goto(a, "prompt")
    /\ UNCHANGED <<giving, config, mode, setter, confirmAt, raced>>

-----------------------------------------------------------------------------
(* ConfirmUpload: the configuration, then the goroutine that sets the mode  *)

(* The request need not bring a configuration. *)
Confirm(c) ==
    /\ confirmAt[c] = "idle"
    /\ \/ confirmAt' = [confirmAt EXCEPT ![c] = "config"]
       \/ confirmAt' = [confirmAt EXCEPT ![c] = "mode"]
    /\ UNCHANGED <<cacheVars, question, raced>>

(* A failure is logged and the confirmation goes on. *)
StoreConfig(c) ==
    /\ confirmAt[c] = "config"
    /\ \/ /\ Cache!SetL2(<<c, "config">>, UserOf[c], {c})
          /\ UNCHANGED confirmAt
       \/ /\ Cache!SetL1(<<c, "config">>) \/ Cache!SetL2Fails(<<c, "config">>, UserOf[c], {c})
          /\ confirmAt' = [confirmAt EXCEPT ![c] = "mode"]
    /\ UNCHANGED <<question, raced>>

SetRagMode(c) ==
    /\ confirmAt[c] = "mode"
    /\ Cache!SetL2(<<c, "mode">>, DocOf[c], "rag")
    /\ raced' = IF \E a \in Asks : at[a] = "fill" /\ DocOf[a] = DocOf[c]
                THEN raced \cup {DocOf[c]} ELSE raced
    /\ UNCHANGED <<question, confirmAt>>

SetRagModeEnds(c) ==
    /\ confirmAt[c] = "mode"
    /\ Cache!SetL1(<<c, "mode">>)
    /\ confirmAt' = [confirmAt EXCEPT ![c] = "set"]
    /\ UNCHANGED <<question, raced>>

(* The row cannot be read or written, or the cache fails. *)
SetRagModeFails(c) ==
    /\ confirmAt[c] = "mode"
    /\ \/ Cache!SetL2Fails(<<c, "mode">>, DocOf[c], "rag")
       \/ half[<<c, "mode">>] = Miss /\ UNCHANGED cacheVars
    /\ confirmAt' = [confirmAt EXCEPT ![c] = "failed"]
    /\ UNCHANGED <<question, raced>>

-----------------------------------------------------------------------------
Expire(k) ==
    /\ Cache!LoseL1(k) \/ Cache!LoseL2(k)
    /\ UNCHANGED <<question, confirmAt, raced>>

(* The process dies with the calls in it and its goroutines. *)
Crash ==
    /\ Cache!Restart
    /\ at' = [a \in Asks |-> IF at[a] \in {"idle", "prompt"} THEN at[a] ELSE "failed"]
    /\ setter' = {}
    /\ confirmAt' = [c \in Confirms |->
          IF confirmAt[c] \in {"idle", "set"} THEN confirmAt[c] ELSE "failed"]
    /\ UNCHANGED <<giving, config, mode, raced>>

Next ==
    \/ \E a \in Asks :
          \/ AskQuestion(a) \/ UseGivenConfig(a) \/ UseCachedConfig(a) \/ NoConfig(a)
          \/ SetConfig(a) \/ SetConfigEnds(a)
          \/ CachedMode(a) \/ ReadMode(a) \/ FillMode(a) \/ FillModeEnds(a)
    \/ \E c \in Confirms :
          \/ Confirm(c) \/ StoreConfig(c)
          \/ SetRagMode(c) \/ SetRagModeEnds(c) \/ SetRagModeFails(c)
    \/ \E k \in Users \cup Docs : Expire(k)
    \/ Crash

Spec == Init /\ [][Next]_settingsVars

-----------------------------------------------------------------------------
(* Properties *)

(* The levels of the cache agree on what a user configured and a document's *)
(* mode, but for overlapping calls and lost answers of Redis.               *)
LevelsAgree == Cache!LevelsAgree

(* A configuration in the cache came whole from one request: the key of one *)
(* provider is never stored beside the model of another, though questions   *)
(* override fields of what they read from there.                            *)
ConfigsAreWhole ==
    \A u \in Users : \A cfg \in {l1[u], l2[u]} \ {Miss} : Cardinality(cfg) = 1

(* Once the only confirmation of a document has set its mode, questions     *)
(* find that mode, unless a question that had found none was about to fill  *)
(* in the default, calls overlapped, Redis lost an answer or the entry, or  *)
(* did not answer a question, which then read the default and may have put  *)
(* it over the mode.                                                        *)
ModeHolds ==
    \A c \in Confirms :
        /\ confirmAt[c] = "set"
        /\ \A b \in Confirms \ {c} : DocOf[b] # DocOf[c]
        /\ DocOf[c] \notin raced
        /\ upset \cap ({DocOf[c]} \X Cache!Upsets) = {}
        => Cache!Found(DocOf[c]) = "rag"
=============================================================================
