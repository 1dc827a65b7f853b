------------------------------ MODULE MCBrain ------------------------------
(***************************************************************************)
(* A session with a dozen texts.  The features are those the patterns find *)
(* in the sentences quoted; "file_write" is a registered tool of the       *)
(* domain package, "shell" one that wants approval and is not for          *)
(* autonomous use.                                                         *)
(***************************************************************************)
EXTENDS BrainProps

F(intent, cls, risks, ents) ==
  [intent |-> intent, cls |-> cls, risks |-> risks, ents |-> ents,
   block |-> FALSE, escal |-> FALSE, route |-> FALSE]
User(f) == [source |-> "user", seen |-> f, kept |-> f, size |-> "fits"]

MCSignals ==
  [create   |-> User(F("creation", "engineering", {}, FALSE)),          \* create a test module
   deploy   |-> User(F("deployment", "operations", {}, FALSE)),         \* deploy the service
   explain  |-> User(F("explanation", "general", {}, FALSE)),           \* explain how the cache works
   secret   |-> User(F("creation", "general", {"sensitive_data"}, FALSE)), \* create a new password
   purge    |-> User(F("deletion", "general", {}, FALSE)),              \* delete the old logs
   wipe     |-> User([F("general", "general", {"destructive_command"}, FALSE)
                        EXCEPT !.block = TRUE]),                         \* run rm -rf / now
   help     |-> User([F("general", "general", {}, FALSE) EXCEPT !.route = TRUE]),
   page     |-> [User(F("creation", "general", {"sensitive_data", "privilege_context"}, TRUE))
                   EXCEPT !.source = "web"],
   \* A long text asks for a mass deletion beyond what sanitising keeps of it.
   long     |-> [source |-> "user", size |-> "long",
                 seen |-> [F("creation", "general", {}, FALSE) EXCEPT !.escal = TRUE],
                 kept |-> F("creation", "general", {}, FALSE)],
   compare  |-> User(F("comparison", "general", {}, FALSE)),            \* compare the two caches
   vague    |-> User(F("general", "general", {}, FALSE)),
   \* diagnose failure: Unknown tool / Connection refused / Tool 'shell' ...
   mended   |-> User(F("general", "general", {}, TRUE)),
   \* diagnose failure: Tool 'file_write' exceeded timeout of 30s
   rewrite  |-> User(F("creation", "documentation", {}, TRUE))]

MCTexts == DOMAIN MCSignals

MCTools ==
  [file_write |-> [op |-> "write", needsApproval |-> FALSE, autonomous |-> TRUE],
   shell      |-> [op |-> "execute", needsApproval |-> TRUE, autonomous |-> FALSE]]

MCDiagnostic ==
  [unknown_tool |-> "mended", risk_mode |-> "rewrite", needs_approval |-> "mended",
   not_autonomous |-> "mended", bad_arguments |-> "rewrite", timeout |-> "rewrite",
   connection |-> "mended", unknown |-> "vague"]

MCConfig ==
  [allowed |-> {}, forbidden |-> {"delete"}, approval |-> {"execute"},
   rules |-> <<[domain |-> "engineering", op |-> "write", modes |-> {"audit"},
                effect |-> "deny"]>>]

MCTurnMetas == {[tool |-> "shell", confirmed |-> FALSE, dry |-> FALSE, bad |-> FALSE]}
MCTurnTexts == {"deploy", "wipe", "page", "purge"}
MCPlans == {<<"create", "explain">>, <<"compare", "secret">>, <<"help", "deploy", "explain">>,
            <<"long", "create">>}
MCRunMetas == {[tool |-> "file_write", confirmed |-> c, dry |-> FALSE, bad |-> FALSE] : c \in BOOLEAN}
=============================================================================
