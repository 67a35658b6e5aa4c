----------------------------- MODULE ClipExport -----------------------------
(***************************************************************************)
(* Exporting a clip (clip_export.rs, clip_export/encoding.rs): one job at  *)
(* a time behind the mutex of ClipExports, which changes of clips and the  *)
(* claim of a restart share; the passes of FFmpeg in a private directory,  *)
(* polled for cancellation, time and size; and the page's side of          *)
(* cancelling (app.js), whose requests meet the job whenever they arrive.  *)
(*                                                                         *)
(* Sizes are four: nothing, within the size asked for, within the          *)
(* temporary limit, beyond it.                                             *)
(***************************************************************************)
EXTENDS Integers, Sequences, FiniteSetsExt

CONSTANTS
    Clips,     \* file names
    None,
    MaxJobs    \* bound: exports the page starts

Jobs == 1..MaxJobs
Fits == 1
Temporary == 2
Sizes == 0..3

VARIABLES
    active,   \* ClipExports.0: the job that runs, or None
    restart,  \* ClipExports.1: a restart is claimed
    clips,    \* names in the replay folder
    job,      \* job[j]: the worker of job j and its ExportJob
    temp,     \* jobs whose private directory exists
    saved,    \* job -> size of the clip it saved, until it is answered
    ui,       \* the page: generation, exporting, cancellation state
    ipc,      \* commands on their way to the native side, in order
    app       \* "up", "exiting", "gone"

vars == <<active, restart, clips, job, temp, saved, ui, ipc, app>>

\* limited: a maximum size was asked for; pass: the pass that runs; size: the
\* output's length; child: FFmpeg runs; heard: cancelled before the last check.
Unborn == [at |-> "unborn", src |-> None, limited |-> FALSE, pass |-> "none",
           size |-> 0, child |-> FALSE, phase |-> "preparing", bytes |-> 0,
           progress |-> 0, cancelled |-> FALSE, heard |-> FALSE]

Init ==
    /\ active = None /\ restart = FALSE
    /\ clips = Clips
    /\ job = [j \in Jobs |-> Unborn]
    /\ temp = {} /\ saved = [j \in Jobs |-> 0]
    /\ ui = [gen |-> 0, exporting |-> FALSE, state |-> "idle", timer |-> 0]
    /\ ipc = <<>> /\ app = "up"

Live == app # "gone"
Outside == UNCHANGED <<clips, ui, ipc, app, restart>>

-----------------------------------------------------------------------------
(* The page.                                                               *)

\* runClipExport.
UiExport(c, limited) ==
    /\ app = "up" /\ ~ui.exporting /\ ui.gen < MaxJobs
    /\ ui' = [ui EXCEPT !.gen = @ + 1, !.exporting = TRUE, !.state = "idle"]
    /\ job' = [job EXCEPT ![ui.gen + 1] =
                [Unborn EXCEPT !.at = "sent", !.src = c, !.limited = limited]]
    /\ ipc' = Append(ipc, [cmd |-> "export", gen |-> ui.gen + 1])
    /\ UNCHANGED <<active, restart, clips, temp, saved, app>>

Timer == ui.exporting /\ ui.timer = ui.gen
UiCancel ==
    /\ Live /\ ui.exporting /\ ui.state = "idle"
    /\ ui' = [ui EXCEPT !.state = "pending"]
    /\ ipc' = Append(ipc, [cmd |-> "cancel", gen |-> ui.gen])
    /\ UNCHANGED <<active, restart, clips, job, temp, saved, app>>
UiTimer ==
    /\ Live /\ Timer
    /\ ui' = [ui EXCEPT !.timer = 0, !.state = "pending"]
    /\ ipc' = Append(ipc, [cmd |-> "cancel", gen |-> ui.timer])
    /\ UNCHANGED <<active, restart, clips, job, temp, saved, app>>

\* The asynchronous command is handed to the runtime, which polls it later.
ExportCommand ==
    /\ Live /\ ipc # <<>> /\ Head(ipc).cmd = "export"
    /\ ipc' = Tail(ipc)
    /\ job' = [job EXCEPT ![Head(ipc).gen].at = "asked"]
    /\ UNCHANGED <<active, restart, clips, temp, saved, ui, app>>

\* cancel_clip_export, and its answer to the page.
CancelCommand ==
    /\ Live /\ ipc # <<>> /\ Head(ipc).cmd = "cancel"
    /\ ipc' = Tail(ipc)
    /\ IF active = None THEN UNCHANGED job
       ELSE job' = [job EXCEPT ![active].cancelled = TRUE,
                               ![active].heard = @ \/ job[active].at \notin
                                    {"size", "save", "label", "finish"}]
    /\ ui' = IF Head(ipc).gen # ui.gen \/ ~ui.exporting THEN ui
             ELSE [ui EXCEPT !.state = "sent",
                             !.timer = IF active = None THEN ui.gen ELSE 0]
    /\ UNCHANGED <<active, restart, clips, temp, saved, app>>

-----------------------------------------------------------------------------
(* export_replay_clip and export_clip.                                     *)

Admitted == active = None /\ ~restart
Begin(j) ==
    /\ Live /\ job[j].at = "asked"
    /\ IF Admitted
       THEN active' = j /\ job' = [job EXCEPT ![j].at = "open"]
       ELSE UNCHANGED active /\ job' = [job EXCEPT ![j].at = "reply"]
    /\ UNCHANGED <<temp, saved>> /\ Outside

\* open_inventory_clip.
Open(j) ==
    /\ Live /\ job[j].at = "open"
    /\ job' = [job EXCEPT ![j].at =
                IF job[j].src \in clips THEN "probe" ELSE "finish"]
    /\ UNCHANGED <<active, temp, saved>> /\ Outside

Fail(j) ==
    /\ temp' = temp \ {j}
    /\ job' = [job EXCEPT ![j].at = "finish", ![j].child = FALSE]
    /\ UNCHANGED <<active, saved>> /\ Outside

\* encoding::probe of the source; cancellation, time and the tool end it.
Probe(j) ==
    /\ Live /\ job[j].at = "probe" /\ ~job[j].cancelled
    /\ temp' = temp \cup {j}
    /\ \E first \in IF job[j].limited THEN {"quality", "analyse"} ELSE {"plain"} :
        job' = [job EXCEPT ![j].at = "pass", ![j].pass = first]
    /\ UNCHANGED <<active, saved>> /\ Outside

\* A tool fails or ends late, a file cannot be created, the result is not what
\* was asked for, the bit rate is too small.
Trouble(j) ==
    /\ Live /\ job[j].at \in {"probe", "pass", "run", "check", "size"}
    /\ Fail(j)

Polled(j) == job[j].at \in {"probe", "pass", "run", "check"}
Cancelled(j) == Live /\ Polled(j) /\ job[j].cancelled /\ Fail(j)

\* Encoding::pass resets the output and what is reported of it.  A variant
\* that keeps reporting the attempt before.
Reset(r) ==
    [r EXCEPT !.at = "run", !.child = TRUE,
              !.size = IF r.pass = "analyse" THEN r.size ELSE 0,
              !.phase = IF r.pass = "analyse" THEN "analysing" ELSE "encoding",
              !.bytes = 0]
StartPass(r) == Reset(r)
Spawn(j) ==
    /\ Live /\ job[j].at = "pass" /\ ~job[j].cancelled
    /\ job' = [job EXCEPT ![j] = StartPass(job[j])]
    /\ UNCHANGED <<active, temp, saved>> /\ Outside

\* FFmpeg writes (external).
Write(j) ==
    /\ Live /\ job[j].child /\ job[j].pass # "analyse" /\ job[j].size < 3
    /\ job' = [job EXCEPT ![j].size = @ + 1]
    /\ UNCHANGED <<active, temp, saved>> /\ Outside

\* Progress in the units of base and span: each pass begins at its base.
Base(pass) == CASE pass \in {"plain", "quality", "analyse"} -> 0
                [] pass = "first" -> 350 [] pass = "second" -> 530 [] OTHER -> 710
Span(pass) == CASE pass = "plain" -> 950 [] pass = "quality" -> 200
                [] pass = "analyse" -> 350 [] OTHER -> 180
Progress(old, new) == Max({old, new})

\* One turn of Encoding::monitor: the size is reported and checked.
Monitor(j) ==
    /\ Live /\ job[j].at = "run" /\ ~job[j].cancelled
    /\ IF job[j].size > Temporary THEN Fail(j)
       ELSE /\ job' = [job EXCEPT
                ![j].bytes = IF job[j].phase = "encoding" THEN job[j].size ELSE @,
                ![j].progress = Progress(@, Base(job[j].pass))]
            /\ UNCHANGED <<active, temp, saved>> /\ Outside

\* Encoding::render: what follows a pass that succeeded.  The complete output
\* is measured, never cut.  A variant that accepts what the last pass wrote.
Enough(r) == ~r.limited \/ r.size <= Fits
Render(r) ==
    CASE r.pass = "plain" -> "done"
      [] r.pass = "analyse" -> "first"
      [] Enough(r) -> "done"
      [] r.pass = "quality" -> "analyse"
      [] r.pass = "first" -> "second"
      [] r.pass = "second" -> "third"
      [] OTHER -> "fail"
After(r) == Render(r)
PassEnds(j) ==
    /\ Live /\ job[j].at = "run" /\ job[j].child /\ ~job[j].cancelled
    /\ job[j].size <= Temporary
    /\ job[j].pass = "analyse" \/ job[j].size > 0
    /\ LET next == After(job[j])
       IN  IF next = "fail" THEN Fail(j)
           ELSE /\ job' = [job EXCEPT
                    ![j].child = FALSE,
                    ![j].bytes = IF job[j].pass = "analyse" THEN @ ELSE job[j].size,
                    ![j].progress = Progress(@, Base(job[j].pass) + Span(job[j].pass)),
                    ![j].pass = next,
                    ![j].phase = IF next = "done" THEN "checking" ELSE @,
                    ![j].at = IF next = "done" THEN "check" ELSE "pass"]
                /\ UNCHANGED <<active, temp, saved>> /\ Outside

\* The output is probed; the last look at the cancellation flag.
Check(j) ==
    /\ Live /\ job[j].at = "check" /\ ~(Polled(j) /\ job[j].cancelled)
    /\ job' = [job EXCEPT ![j].at = "size"]
    /\ UNCHANGED <<active, temp, saved>> /\ Outside

\* Its size, the store, the free space.
Size(j) ==
    /\ Live /\ job[j].at = "size"
    /\ job' = [job EXCEPT ![j].at = "save", ![j].phase = "saving"]
    /\ UNCHANGED <<active, temp, saved>> /\ Outside
Save(j) ==
    /\ Live /\ job[j].at = "save"
    /\ saved' = [saved EXCEPT ![j] = job[j].size]
    /\ job' = [job EXCEPT ![j].at = "label"]
    /\ UNCHANGED <<active, temp>> /\ Outside

\* The game's name, the last progress, and the directory goes.
Label(j) ==
    /\ Live /\ job[j].at = "label"
    /\ job' = [job EXCEPT ![j].at = "finish", ![j].progress = 1000]
    /\ temp' = temp \ {j}
    /\ UNCHANGED <<active, saved>> /\ Outside

\* ClipExports::finish.
Finish(j) ==
    /\ Live /\ job[j].at = "finish"
    /\ active' = IF active = j THEN None ELSE active
    /\ job' = [job EXCEPT ![j].at = "reply"]
    /\ UNCHANGED <<temp, saved>> /\ Outside

\* The answer reaches the page, which clears its timer.
Reply(j) ==
    /\ Live /\ job[j].at = "reply"
    /\ job' = [job EXCEPT ![j] = [Unborn EXCEPT !.at = "ended"]]
    /\ saved' = [saved EXCEPT ![j] = 0]
    /\ ui' = [ui EXCEPT !.exporting = FALSE]
    /\ UNCHANGED <<active, restart, clips, temp, ipc, app>>

-----------------------------------------------------------------------------
(* What shares the mutex, and what does not.                               *)

\* ClipExports::with_idle: renaming, trashing, restoring, another folder.
Idle == active = None /\ ~restart
Change(c) ==
    /\ app = "up" /\ Idle
    /\ clips' = IF c \in clips THEN clips \ {c} ELSE clips \cup {c}
    /\ UNCHANGED <<active, restart, job, temp, saved, ui, ipc, app>>

\* delete_replay_clip does not ask.
Delete(c) ==
    /\ app = "up" /\ c \in clips
    /\ clips' = clips \ {c}
    /\ UNCHANGED <<active, restart, job, temp, saved, ui, ipc, app>>

\* claim_restart, and cancel_restart when the exit is refused.
ClaimRestart ==
    /\ app = "up" /\ Idle /\ restart' = TRUE
    /\ UNCHANGED <<active, clips, job, temp, saved, ui, ipc, app>>
CancelRestart ==
    /\ app = "up" /\ restart /\ restart' = FALSE
    /\ UNCHANGED <<active, clips, job, temp, saved, ui, ipc, app>>

\* RunEvent::Exit: shutdown asks the job to stop, and the process ends.
Shutdown ==
    /\ app = "up" /\ app' = "exiting"
    /\ job' = IF active = None THEN job
              ELSE [job EXCEPT ![active].cancelled = TRUE]
    /\ UNCHANGED <<active, restart, clips, temp, saved, ui, ipc>>
Gone ==
    /\ app = "exiting" /\ app' = "gone"
    /\ UNCHANGED <<active, restart, clips, job, temp, saved, ui, ipc>>

Step(j) ==
    \/ Begin(j) \/ Open(j) \/ Probe(j) \/ Cancelled(j) \/ Spawn(j)
    \/ PassEnds(j) \/ Check(j) \/ Size(j) \/ Save(j) \/ Label(j) \/ Finish(j)
    \/ Reply(j)
Next ==
    \/ \E c \in Clips, limited \in BOOLEAN : UiExport(c, limited)
    \/ UiCancel \/ UiTimer \/ ExportCommand \/ CancelCommand
    \/ \E j \in Jobs : Step(j) \/ Trouble(j) \/ Write(j) \/ Monitor(j)
    \/ \E c \in Clips : Change(c) \/ Delete(c)
    \/ ClaimRestart \/ CancelRestart \/ Shutdown \/ Gone

\* The worker is a thread; a tool that hangs runs into EXPORT_TIMEOUT.
Fairness ==
    \A j \in Jobs : WF_vars(Step(j)) /\ WF_vars(job[j].at = "run" /\ Trouble(j))

Spec == Init /\ [][Next]_vars /\ Fairness

-----------------------------------------------------------------------------
(* Properties.                                                             *)

TypeOK ==
    /\ active \in Jobs \cup {None} /\ clips \subseteq Clips
    /\ \A j \in Jobs :
        /\ job[j].size \in Sizes /\ job[j].progress \in 0..1000
        /\ job[j].at \in {"open", "probe", "pass", "run", "check", "size",
                          "save", "label", "finish"} <=> active = j
    /\ app # "gone" => \A j \in temp : active = j

\* A claimed restart finds no export, and none begins behind it.
RestartIdle == restart => active = None

\* What is saved fits the size asked for, whichever pass wrote it.
SavedFits == \A j \in Jobs : saved[j] # 0 /\ job[j].limited => saved[j] <= Fits

\* "a retry never reports the previous attempt's bytes".
StatusHonest ==
    \A j \in Jobs : job[j].child => job[j].bytes <= job[j].size

\* A cancellation accepted while the job still polls saves nothing.
CancelHeard == \A j \in Jobs : job[j].heard => saved[j] = 0
=============================================================================
