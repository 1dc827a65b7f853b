------------------------------- MODULE Routing -------------------------------
(***************************************************************************)
(* orchestrator.py, from a challenge to the specialist it is sent to:       *)
(* _classify_artifact, triage and route as constant operators.             *)
(***************************************************************************)
EXTENDS Sequences

\* contracts.py Category.
Category == { "reverse", "crypto-attack", "web-exploit", "binary-pwn",
              "forensics", "stego", "jail-escape", "osint", "misc" }

\* An artifact is the magic its first bytes show and its file suffix.
Magic  == { "elf", "mz", "mach-o", "png", "jpeg", "gif", "wave", "pcap", "zip", "none" }
Suffix == { ".apk", ".pcap", ".pcapng", ".png", ".jpg", ".jpeg", ".gif", ".wav",
            ".mp3", ".py", ".txt", "" }

ClassifyArtifact(a) ==
    CASE a.magic = "mz"   -> "pe"
      [] a.magic = "wave" -> "wav"
      [] a.magic = "zip"  -> IF a.suffix = ".apk" THEN "apk" ELSE "zip"
      [] a.magic \notin {"mz", "wave", "zip", "none"} -> a.magic
      [] a.magic = "none" ->
           CASE a.suffix \in {".pcap", ".pcapng"} -> "pcap"
             [] a.suffix = ".png"  -> "png"
             [] a.suffix = ".jpg"  -> "jpg"
             [] a.suffix = ".jpeg" -> "jpeg"
             [] a.suffix = ".gif"  -> "gif"
             [] a.suffix = ".wav"  -> "wav"
             [] a.suffix = ".mp3"  -> "mp3"
             [] a.suffix = ".py"   -> "script"
             [] a.suffix = ".txt"  -> "text"
             [] OTHER              -> "unknown"

Executables == {"elf", "pe", "mach-o", "apk", "script"}
Captures    == {"pcap"}
Media       == {"png", "jpeg", "gif", "wav", "mp3"}

\* The first of the artifacts' types that lies in S, as a sequence of at most
\* one element.
FirstOf(types, S) ==
    LET hits == SelectSeq(types, LAMBDA t : t \in S)
    IN  SubSeq(hits, 1, IF hits = <<>> THEN 0 ELSE 1)

\* Triage's "type".  The first rule that applies wins: the hint; a kind of
\* artifact, in this order of kinds; then what remote and description say,
\* where text is "http", "crypto" or "none".
TriageType(w) ==
    LET types == [i \in DOMAIN w.artifacts |-> ClassifyArtifact(w.artifacts[i])]
        ranked == FirstOf(types, Executables) \o FirstOf(types, Captures)
                    \o FirstOf(types, Media)
    IN  IF w.hint # "none" THEN w.hint
        ELSE IF ranked # <<>> THEN Head(ranked)
        ELSE IF w.text # "none" THEN w.text
        ELSE "unknown"

\* route looks for its tokens anywhere in the type.  "pe" is a token, so
\* jpeg and jail-escape count as executables; triage never sets
\* memory_corruption, so executables go to reverse, never to binary-pwn.
MentionsExecutable(type) ==
    type \in (Executables \ {"script"}) \cup {"jpeg", "jail-escape"}

Route(w) ==
    LET type == TriageType(w) IN
    CASE MentionsExecutable(type)                -> "reverse"
      [] type = "pcap"                           -> "forensics"
      [] type \in Media \ {"jpeg"}               -> "stego"
      [] type = "http"                           -> "web-exploit"
      [] type \in {"crypto", "crypto-attack"}    -> "crypto-attack"
      [] OTHER -> IF w.hint # "none" THEN w.hint ELSE "misc"
=============================================================================
