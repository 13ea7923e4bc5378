------------------------------- MODULE AgentTurn ------------------------------
(***************************************************************************)
(* A task of the overseer that a language model works on: the loop of      *)
(* answer and tool call (lib/react_loop.py), the parsing of what the model *)
(* says (lib/overseer.py), the registry that runs the tools                *)
(* (lib/tool_registry.py) and the check behind an answer                   *)
(* (lib/post_response_verifier.py). A tool that takes too long is reported *)
(* as failed and runs on; an exception makes the overseer begin again.     *)
(***************************************************************************)
EXTENDS Integers, Sequences, FiniteSets

CONSTANTS
  Tool,                \* the registered tools the model may think of
  Disabled,            \* CORTEXAGENT_DISABLED_TOOLS
  NoName,              \* the name of a call that has none; no tool has it
  MaxSteps,            \* MAX_STEPS
  MaxRetries,          \* of retry_with_backoff: 3
  MaxStreak,           \* failures in a row before the model is told: 3
  MaxLate              \* bound on tools that outlive their time

-------------------------------------------------------------------------------
\* The registry. A name is registered once; the first to register it has it.

ScraperTools == {"patchright_scrape", "patchright_search", "patchright_deep", "searxng_engine_test",
                 "scraper_health"}
GreysearchTools == {"greysearch", "greysearch_health"}
ModelTools == {"query_llm", "spawn_subagent"}
KnowledgeTools == {"add_llm_provider", "web_search", "rag_query", "coding_practices", "parse_document"}
BankTools == {"kali_bank"}
IngestTools == {"ingest_domain"}
CommandTools == {"run_command"}
DownloadTools == {"download"}
BuiltIn == ScraperTools \cup GreysearchTools \cup ModelTools \cup KnowledgeTools \cup BankTools
           \cup IngestTools \cup CommandTools \cup DownloadTools

\* Those that were an MCP server's, and have its way to say what they are given.
MemoryTools == {"memory_read", "memory_write", "memory_search"}
ClearTools == {"memory_clear"}
AdapterTools == {"adapter_list", "adapter_search", "firecrawl_search", "firecrawl_scrape",
                 "slimtoken_minify", "slimtoken_maxify"}
SessionTools == {"session_broadcast", "session_check", "session_log"}
CveTools == {"cve_recent", "cve_lookup", "mitre_techniques_for_cve", "mitre_mitigations_coverage",
             "cve_poll_now"}
PostureTools == {"hardening_status", "nftables_list", "auditd_query", "sshd_config_dump",
                 "sysctl_current", "unbound_status", "capabilities_list", "lsm_stack"}
SiemTools == {"siem_recent", "siem_posture", "siem_push_recent", "soar_run_on_recent",
              "soar_run_posture", "soar_history"}
Described == MemoryTools \cup ClearTools \cup AdapterTools \cup SessionTools \cup CveTools
             \cup PostureTools \cup SiemTools
Skipped == {"soar_run_on_recent", "soar_run_posture", "firecrawl_search", "firecrawl_scrape"}
Converted == Described \ Skipped

\* Those of the browser, and any of the user's own and of the configured servers.
ChromeTools == {"chrome_status", "chrome_tabs", "chrome_navigate", "chrome_fetch", "chrome_click",
                "chrome_type", "chrome_evaluate", "chrome_snapshot", "chrome_fill_send",
                "chrome_health"}
SkillTools == {"skill_*"}
ServerTools == {"mcp_*"}
Registered == BuiltIn \cup Converted \cup ChromeTools \cup SkillTools \cup ServerTools

ASSUME ToolAssumption == Tool \subseteq Registered /\ Disabled \subseteq Tool

\* Tools that leave nothing behind another call could tell, and tools that have
\* done what they are for if they say so: what was asked of the others may have
\* been nothing (an empty text, a tier without a file, no new entry), and they
\* still succeed.
Answering ==
  ModelTools \cup KnowledgeTools \cup BankTools \cup PostureTools
  \cup {"memory_read", "memory_search", "session_check", "adapter_list", "adapter_search",
        "slimtoken_maxify", "cve_recent", "mitre_mitigations_coverage", "soar_history"}
Performing ==
  CommandTools \cup DownloadTools
  \cup {"memory_write", "session_broadcast", "session_log", "chrome_navigate", "chrome_fetch",
        "chrome_click", "chrome_type", "chrome_fill_send"}

\* How a call can end: one that fails may have acted, as its first half can
\* succeed and its last one fail.
Ends(t) ==
  {e \in [ok : BOOLEAN, acted : BOOLEAN] :
     (t \in Answering => ~e.acted) /\ (t \in Performing /\ e.ok => e.acted)}

-------------------------------------------------------------------------------
VARIABLES
  turn,                \* where the turn is
  attempt,             \* of retry_with_backoff
  step,                \* of this attempt
  calls,               \* the calls of the model's answer that are yet to be made
  streak,              \* _fail_streak
  verifier,            \* whether the verifier can be imported and does not raise
  content,             \* what the answer on its way to the user contains
  result,              \* what the task ends with
  requested,           \* how often the model asked for every tool
  runs,                \* how often every tool has run to its end
  acted,               \* how many of these left something behind
  late,                \* how many runs of it go on although they were reported
  told,                \* how often the model was told that the tool succeeded
  notes                \* observations, as the model reads them

course == <<turn, attempt, step, calls, streak, content, result>>
tools == <<requested, runs, acted, late, told, notes>>
talk == <<course, verifier, tools>>

NoCalls == [t \in Tool |-> 0]
Add(count, t) == [count EXCEPT ![t] = @ + 1]

TurnInit ==
  /\ turn = "new" /\ attempt = 0 /\ step = 0
  /\ calls = <<>> /\ streak = 0
  /\ verifier = TRUE
  /\ content = "nothing"
  /\ result = "none"
  /\ requested = NoCalls /\ runs = NoCalls /\ acted = NoCalls /\ late = NoCalls /\ told = NoCalls
  /\ notes = {}

End(outcome) == turn' = "over" /\ result' = outcome

\* The next call is of a tool that may run, and a run of a tool is over.
Called == turn = "act" /\ calls # <<>> /\ Head(calls) # NoName /\ Head(calls) \notin Disabled
RunEnds(t, end) == runs' = Add(runs, t) /\ acted' = IF end.acted THEN Add(acted, t) ELSE acted

\* _execute_task calls run_react, which has no use for an empty prompt.
Take ==
  /\ turn = "new"
  /\ \/ End("failed") /\ UNCHANGED <<step, verifier>>
     \/ /\ turn' \in {"direct", "ask"}           \* classify_mode
        /\ step' = 1 /\ verifier' \in BOOLEAN /\ UNCHANGED result
  /\ UNCHANGED <<attempt, calls, streak, content, tools>>

\* _publish, _save_state or the writing down of what a tool returned raises: the
\* whole turn is begun again, and given up after the last retry.
Raise ==
  /\ turn \in {"ask", "act"}
  /\ \/ UNCHANGED <<runs, acted>>
     \/ Called /\ \E end \in Ends(Head(calls)) : RunEnds(Head(calls), end)
  /\ IF attempt < MaxRetries
       THEN turn' = "ask" /\ attempt' = attempt + 1 /\ step' = 1 /\ UNCHANGED result
       ELSE End("failed") /\ UNCHANGED <<attempt, step>>
  /\ calls' = <<>> /\ streak' = 0
  /\ UNCHANGED <<content, verifier, requested, late, told, notes>>

-------------------------------------------------------------------------------
\* What the model says.

Content == {"clean", "unbalanced", "secret"}

\* A task without tools: no answer fails, an empty one is an answer.
AnswerDirect ==
  /\ turn = "direct"
  /\ \/ End("failed") /\ UNCHANGED content
     \/ turn' = "check" /\ content' \in Content \cup {"nothing"} /\ UNCHANGED result
  /\ UNCHANGED <<attempt, step, calls, streak, verifier, tools>>

\* The forms a call comes in. Of two the parsers make records without the
\* field "function" the loop reads the name from.
Form == {"native", "tagged", "action", "json"}
Wrapped == {"action", "json"}
NameIn(form, tool) == IF form \in Wrapped THEN tool ELSE NoName

\* Neither calls nor text, twice, or an exception: None.
Unavailable ==
  /\ turn = "ask"
  /\ End("failed")
  /\ UNCHANGED <<attempt, step, calls, streak, content, verifier, tools>>

AnswerText ==
  /\ turn = "ask"
  /\ content' \in Content /\ turn' = "check"
  /\ UNCHANGED <<attempt, step, calls, streak, result, verifier, tools>>

\* A list of calls; in the wrapped forms there is one.
AnswerCalls ==
  /\ turn = "ask"
  /\ \E form \in Form, wanted \in {<<t>> : t \in Tool} \cup (Tool \X Tool) :
       /\ form \in Wrapped => Len(wanted) = 1
       /\ calls' = [i \in DOMAIN wanted |-> NameIn(form, wanted[i])]
       /\ requested' = [t \in Tool |-> requested[t] + Cardinality({i \in DOMAIN wanted : wanted[i] = t})]
  /\ turn' = "act"
  /\ UNCHANGED <<attempt, step, streak, content, result, verifier, runs, acted, late, told, notes>>

-------------------------------------------------------------------------------
\* _execute_with_timeout, execute_tool and check_trust.

\* The mark of a tool's result. One that timed out or has no tool has none.
Trust(t) == CASE t = "run_command" -> "low"
              [] t \in {"spawn_subagent", "download", "ingest_domain"} -> "medium"
              [] OTHER -> "high"

Observe(name, said, trust) ==
  /\ notes' = notes \cup {[tool |-> name, said |-> said, trust |-> trust]}
  /\ streak' = IF said = "ok" THEN 0 ELSE IF streak + 1 >= MaxStreak THEN 0 ELSE streak + 1
  /\ calls' = Tail(calls)
  /\ UNCHANGED <<turn, attempt, step, content, result, verifier, requested>>

Unknown ==
  /\ turn = "act" /\ calls # <<>> /\ Head(calls) = NoName
  /\ Observe(NoName, "unknown", "high")
  /\ UNCHANGED <<runs, acted, late, told>>

\* The tool is disabled or lacks an argument: its handler is not called. What a
\* converted tool needs is written where execute_tool does not look for it.
Refused ==
  /\ turn = "act" /\ calls # <<>> /\ Head(calls) # NoName
  /\ Head(calls) \in Disabled \/ Head(calls) \notin Converted
  /\ Observe(Head(calls), "refused", "high")
  /\ UNCHANGED <<runs, acted, late, told>>

Ran ==
  /\ Called
  /\ \E end \in Ends(Head(calls)) :
       /\ RunEnds(Head(calls), end)
       /\ Observe(Head(calls), IF end.ok THEN "ok" ELSE "failed", Trust(Head(calls)))
       /\ told' = IF end.ok THEN Add(told, Head(calls)) ELSE told
  /\ UNCHANGED late

\* The handler leaves with what is no Exception: execute_tool has no part in the
\* report, which has no mark.
Left ==
  /\ Called
  /\ \E end \in Ends(Head(calls)) : ~end.ok /\ RunEnds(Head(calls), end)
  /\ Observe(Head(calls), "left", "high")
  /\ UNCHANGED <<late, told>>

TimedOut_AsDone ==                                       \* mutated form
  /\ Called
  /\ late[Head(calls)] < MaxLate
  /\ late' = Add(late, Head(calls)) /\ told' = Add(told, Head(calls))
  /\ Observe(Head(calls), "ok", Trust(Head(calls)))
  /\ UNCHANGED <<runs, acted>>

\* The thread is left alone.
TimedOut ==
  /\ Called
  /\ late[Head(calls)] < MaxLate
  /\ late' = Add(late, Head(calls))
  /\ Observe(Head(calls), "timeout", "high")
  /\ UNCHANGED <<runs, acted, told>>

LateEnd(t) ==
  /\ late[t] > 0
  /\ late' = [late EXCEPT ![t] = @ - 1]
  /\ \E end \in Ends(t) : RunEnds(t, end)
  /\ UNCHANGED <<course, verifier, requested, told, notes>>

\* The last step's observations are read by nobody, and the task counts as done.
NextStep ==
  /\ turn = "act" /\ calls = <<>>
  /\ IF step < MaxSteps THEN turn' = "ask" /\ step' = step + 1 /\ UNCHANGED <<content, result>>
     ELSE End("ok") /\ content' = "step limit" /\ UNCHANGED step
  /\ UNCHANGED <<attempt, calls, streak, verifier, tools>>

-------------------------------------------------------------------------------
\* _post_verify_gate: without a verifier the answer goes out, with a footer.
Gate ==
  /\ turn = "check"
  /\ IF verifier /\ content = "secret" THEN End("failed") /\ content' = "nothing"
     ELSE End("ok") /\ UNCHANGED content
  /\ UNCHANGED <<attempt, step, calls, streak, verifier, tools>>

TurnNext ==
  \/ Take \/ Raise \/ AnswerDirect \/ Unavailable \/ AnswerText \/ AnswerCalls
  \/ Unknown \/ Refused \/ Ran \/ Left \/ TimedOut \/ NextStep \/ Gate
  \/ \E t \in Tool : LateEnd(t)

TurnSpec == TurnInit /\ [][TurnNext]_talk

-------------------------------------------------------------------------------
TurnTypeOK ==
  /\ turn \in {"new", "direct", "ask", "act", "check", "over"}
  /\ attempt \in 0..MaxRetries /\ step \in 0..MaxSteps /\ streak \in 0..MaxStreak - 1
  /\ calls \in Seq(Tool \cup {NoName}) /\ verifier \in BOOLEAN
  /\ content \in Content \cup {"nothing", "step limit"} /\ result \in {"none", "ok", "failed"}
  /\ \A count \in {requested, runs, acted, late, told} : count \in [Tool -> Nat]

\* The model is told the truth about its calls, whatever runs late and however
\* often the turn is begun again. A tool runs at most as often as it was asked
\* for, and a disabled one never. One that was told to have succeeded has run, and
\* if it is one that performs something, has done so as often; one that only
\* answers leaves nothing behind. What run_command put out is marked as not to be
\* trusted, and what had an effect as that.
CallsReportedTruly ==
  /\ \A t \in Tool :
       /\ told[t] <= runs[t] /\ acted[t] <= runs[t] /\ runs[t] + late[t] <= requested[t]
       /\ t \in Disabled => runs[t] + late[t] = 0
       /\ t \in Performing => told[t] <= acted[t]
       /\ t \in Answering => acted[t] = 0
  /\ \A note \in notes : note.said \in {"ok", "failed"} => note.trust = Trust(note.tool)

\* lib/overseer.py:463-464: "Function-wrapped like native tool_calls - the react
\* loop reads call["function"]["name"]; bare dicts became no-ops." A call of a
\* registered tool is made under the tool's name.
CallsReachTheirTool == \A i \in DOMAIN calls : calls[i] # NoName
===============================================================================
