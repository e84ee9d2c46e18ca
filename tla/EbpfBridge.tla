----------------------------- MODULE EbpfBridge -----------------------------
(***************************************************************************)
(* The bridge to the packet filter (kelan/enforcement/ebpf_bridge.py) and  *)
(* the loader at the other end of its pipes (kelan-ebpf-loader, main.rs).  *)
(* The bridge writes one line for each command and awaits drain(), which   *)
(* asyncio holds up while too much is buffered.  The loader writes a line  *)
(* on its standard error for each command it reads; the bridge opens that  *)
(* pipe and never reads it, so in the end the loader blocks on it, its     *)
(* input fills, and the callers of the bridge wait for ever.               *)
(***************************************************************************)
EXTENDS Naturals, Sequences, FiniteSets

CONSTANTS
    Commands,  \* calls of permit and revoke
    HighMark,  \* commands the pipe and the transport hold before drain waits
    LowMark,   \* ... and at which it goes on, which is less
    ErrCap     \* lines that fit into the standard error nobody reads

VARIABLES
    proc,     \* the loader process
    loader,   \* what the loader is about to do
    input,    \* commands written and not yet read
    paused,   \* asyncio has paused the writers
    errLines, \* lines in the loader's standard error
    caller,   \* where each caller of the bridge is
    stopping  \* where stop() is

vars == <<proc, loader, input, paused, errLines, caller, stopping>>

TypeOK ==
    /\ proc \in {"none", "running", "gone"}
    /\ loader \in {"reading", "printing"}
    /\ input \in Seq(Commands)
    /\ paused \in BOOLEAN
    /\ errLines \in 0..ErrCap
    /\ caller \in [Commands -> {"idle", "draining", "done"}]
    /\ stopping \in {"no", "waiting", "stopped", "raised"}

\* start: the loader runs, or the binary is missing or cannot be started and
\* the bridge stays in software mode.
Init ==
    /\ proc \in {"none", "running"}
    /\ loader = "reading"
    /\ input = << >>
    /\ paused = FALSE
    /\ errLines = 0
    /\ caller = [c \in Commands |-> "idle"]
    /\ stopping = "no"

-----------------------------------------------------------------------------
(***************************************************************************)
(* The bridge.                                                             *)
(***************************************************************************)

\* _cmd in software mode, or with a broken pipe, whose exception is logged.
CmdIgnored(c) ==
    /\ caller[c] = "idle"
    /\ proc # "running"
    /\ caller' = [caller EXCEPT ![c] = "done"]
    /\ UNCHANGED <<proc, loader, input, paused, errLines, stopping>>

\* _cmd: write, then await drain().
Cmd(c) ==
    /\ caller[c] = "idle"
    /\ proc = "running"
    /\ input' = Append(input, c)
    /\ paused' = (paused \/ Len(input') > HighMark)
    /\ caller' = [caller EXCEPT ![c] = "draining"]
    /\ UNCHANGED <<proc, loader, errLines, stopping>>

\* drain returns, or raises because the loader is gone.
Drain(c) ==
    /\ caller[c] = "draining"
    /\ ~paused \/ proc = "gone"
    /\ caller' = [caller EXCEPT ![c] = "done"]
    /\ UNCHANGED <<proc, loader, input, paused, errLines, stopping>>

\* stop: terminate, then wait for the process.
Stop ==
    /\ proc = "running"
    /\ stopping = "no"
    /\ stopping' = "waiting"
    /\ proc' = "gone"
    /\ UNCHANGED <<loader, input, paused, errLines, caller>>

\* terminate raises ProcessLookupError if asyncio knows already that the loader
\* is gone.
StopRaises ==
    /\ proc = "gone"
    /\ stopping = "no"
    /\ stopping' \in {"raised", "stopped"}
    /\ UNCHANGED <<proc, loader, input, paused, errLines, caller>>

Waited ==
    /\ stopping = "waiting"
    /\ proc = "gone"
    /\ stopping' = "stopped"
    /\ UNCHANGED <<proc, loader, input, paused, errLines, caller>>

-----------------------------------------------------------------------------
(***************************************************************************)
(* The loader.                                                             *)
(***************************************************************************)
ReadM_NoResume ==
    /\ proc = "running"
    /\ loader = "reading"
    /\ input # << >>
    /\ input' = Tail(input)
    /\ loader' = "printing"
    /\ UNCHANGED <<proc, paused, errLines, caller, stopping>>

\* The next line; asyncio resumes the writers at the low mark.
Read ==
    /\ proc = "running"
    /\ loader = "reading"
    /\ input # << >>
    /\ input' = Tail(input)
    /\ paused' = (paused /\ Len(input') > LowMark)
    /\ loader' = "printing"
    /\ UNCHANGED <<proc, errLines, caller, stopping>>

ReportM_NeverBlocks ==
    /\ proc = "running"
    /\ loader = "printing"
    /\ errLines' = errLines + 1
    /\ loader' = "reading"
    /\ UNCHANGED <<proc, input, paused, caller, stopping>>

\* eprintln!: blocks while its pipe is full.
Report ==
    /\ proc = "running"
    /\ loader = "printing"
    /\ errLines < ErrCap
    /\ errLines' = errLines + 1
    /\ loader' = "reading"
    /\ UNCHANGED <<proc, input, paused, caller, stopping>>

\* The loader crashes; its callers find a broken pipe.
Crash ==
    /\ proc = "running"
    /\ proc' = "gone"
    /\ UNCHANGED <<loader, input, paused, errLines, caller, stopping>>

-----------------------------------------------------------------------------
Next ==
    \/ \E c \in Commands : CmdIgnored(c) \/ Cmd(c) \/ Drain(c)
    \/ Stop \/ StopRaises \/ Waited
    \/ Read \/ Report \/ Crash

Spec == Init /\ [][Next]_vars

\* The operating system runs the loader, the event loop runs its tasks.
FairSpec ==
    /\ Spec
    /\ WF_vars(Read) /\ WF_vars(Report) /\ WF_vars(Waited)
    /\ \A c \in Commands : WF_vars(Drain(c))

-----------------------------------------------------------------------------
Stuck == proc = "running" /\ loader = "printing" /\ errLines = ErrCap

\* Whoever awaits drain goes on, unless the loader is stuck for good.
DrainReturns == \A c \in Commands : caller[c] = "draining" ~> caller[c] = "done" \/ Stuck
=============================================================================
