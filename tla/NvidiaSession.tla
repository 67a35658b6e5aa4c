--------------------------- MODULE NvidiaSession ---------------------------
(***************************************************************************)
(* The NVIDIA adapter of the monitor (redunar-nvidia-nvml): it loads the   *)
(* driver's library, opens a session on one device, reads its sensors at   *)
(* every sample, and after the loss of the device tries again, at most     *)
(* MaxAttempts times over its life. One step is one call into the driver.  *)
(* The five sensors are represented by two: utilization, read with one     *)
(* call, and power, read from the recent samples or, without those, with   *)
(* the older call.                                                         *)
(***************************************************************************)
EXTENDS Integers

CONSTANT MaxAttempts \* the length of RECOVERY_DELAYS

None == "none"
NoRetry == -1
Sensors == {"name", "utilization", "power"}
Functions == Sensors \cup {"samples"}  \* what a library may export or lack

VARIABLES
    at,         \* the driver call that is next; idle between two samples
    target,     \* the device's address is known
    sampling,   \* the call in progress is a sample, not the opening
    spent,      \* time since it began
    symbols,    \* the optional functions of the loaded library
    driver,     \* what the driver holds: library loaded, successful inits
    session,    \* the adapter keeps a session
    stale,      \* the driver has said that the handle is lost
    status,     \* NvidiaSensors
    metrics,    \* the readings of the GpuSnapshot
    readiness,  \* NvidiaReadiness
    failure,    \* NvmlFailure
    attempts,   \* recovery_attempts
    retry,      \* time left to next_retry
    cleanup     \* cleanup_failure

vars == <<at, target, sampling, spent, symbols, driver, session, stale, status,
          metrics, readiness, failure, attempts, retry, cleanup>>

Greater(a, b) == IF a > b THEN a ELSE b
Unloaded == [loaded |-> FALSE, inits |-> 0]
NotSampled == [s \in Sensors |-> "NotSampled"]

(* with_loader: no device or two of them, a device without an address, or  *)
(* one to connect to.                                                      *)
Init ==
    /\ target \in BOOLEAN
    /\ IF target THEN at = "load" /\ readiness = "NoDevice" /\ failure = None
       ELSE /\ at = "idle"
            /\ \/ readiness \in {"NoDevice", "AmbiguousTopology"} /\ failure = None
               \/ readiness = "Unavailable" /\ failure = "identity"
    /\ sampling = FALSE /\ spent = 0 /\ symbols = {} /\ driver = Unloaded
    /\ session = FALSE /\ stale = FALSE /\ status = NotSampled /\ metrics = {}
    /\ attempts = 0 /\ retry = NoRetry /\ cleanup = FALSE

----------------------------------------------------------------------------
(* The delays of 5, 30 and 120 seconds are 1, 2 and 3. *)
Delay(n) == n + 1

Tick ==
    /\ retry > 0 \/ (at # "idle" /\ spent < MaxAttempts)
    /\ retry' = IF retry > 0 THEN retry - 1 ELSE retry
    /\ spent' = IF at # "idle" /\ spent < MaxAttempts THEN spent + 1 ELSE spent
    /\ UNCHANGED <<at, target, sampling, symbols, driver, session, stale, status,
                   metrics, readiness, failure, attempts, cleanup>>

CanRetry(f) == f \notin {"identity", "symbol", "unsupported"}

AttemptsLeft == attempts < MaxAttempts

(* "Values gathered before device loss cannot describe a valid sample."   *)
Voided == {}

(* fail: what was known of the sensors is void; the delay counts from the  *)
(* beginning of the call.                                                  *)
Fail(f) ==
    /\ status' = IF f # "lost" THEN NotSampled
                 ELSE [s \in Sensors |-> IF status[s] = "MissingSymbol" \/ (s \notin symbols)
                                         THEN "MissingSymbol" ELSE "Unavailable"]
    /\ failure' = f
    /\ retry' = IF CanRetry(f) /\ AttemptsLeft THEN Greater(Delay(attempts) - spent, 0) ELSE NoRetry
    /\ readiness' = IF ~CanRetry(f) THEN "Unavailable"
                    ELSE IF AttemptsLeft THEN "Recovering" ELSE "RecoveryExhausted"
    /\ metrics' = Voided /\ at' = "idle"

Cleaned(failed) == failed \/ cleanup

\* Variant of Release: the library goes first.
ReleaseLibrary ==
    /\ driver' = [driver EXCEPT !.loaded = FALSE]
    /\ cleanup' = cleanup
(* Session::release, then the library is dropped. *)
Release ==
    /\ driver' = [loaded |-> FALSE, inits |-> driver.inits - 1]
    /\ \E failed \in BOOLEAN : cleanup' = Cleaned(failed)

----------------------------------------------------------------------------
(* Session::open and connect.                                              *)
Load ==
    /\ at = "load"
    /\ \/ Fail("library") /\ UNCHANGED <<symbols, driver>>
       \/ Fail("symbol") /\ UNCHANGED <<symbols, driver>>
       \/ /\ at' = "init" /\ symbols' \in SUBSET Functions
          /\ driver' = [driver EXCEPT !.loaded = TRUE]
          /\ UNCHANGED <<status, failure, retry, readiness, metrics>>
    /\ UNCHANGED <<target, sampling, spent, session, stale, attempts, cleanup>>

InitLibrary ==
    /\ at = "init"
    /\ \/ /\ \E f \in {"refused", "unsupported"} : Fail(f)
          /\ driver' = Unloaded
       \/ /\ at' = "handle" /\ driver' = [driver EXCEPT !.inits = @ + 1]
          /\ UNCHANGED <<status, failure, retry, readiness, metrics>>
    /\ UNCHANGED <<target, sampling, spent, symbols, session, stale, attempts, cleanup>>

GetHandle ==
    /\ at = "handle"
    /\ \/ /\ \E f \in {"refused", "unsupported", "null"} : Fail(f)
          /\ Release /\ stale' = stale
       \/ /\ at' = "name" /\ stale' = FALSE
          /\ UNCHANGED <<driver, cleanup, status, failure, retry, readiness, metrics>>
    /\ UNCHANGED <<target, sampling, spent, symbols, session, attempts>>

Degraded(st) == \E s \in Sensors : st[s] \notin {"Available", "NotSampled"}
Readiness(st) == IF Degraded(st) THEN "Degraded" ELSE "Ready"

(* sensor_status, and the name's outcome. *)
Opened(outcome) ==
    [s \in Sensors |-> IF s \notin symbols THEN "MissingSymbol"
                       ELSE IF s = "name" THEN outcome ELSE "NotSampled"]

Connected(st) ==
    /\ session' = TRUE /\ retry' = NoRetry /\ failure' = None
    /\ status' = st /\ readiness' = Readiness(st)
    /\ at' = IF sampling THEN "utilization" ELSE "idle"
    /\ UNCHANGED <<driver, cleanup, metrics, stale>>

(* A device that is lost while it tells its name is closed again. *)
GetName ==
    /\ at = "name"
    /\ \/ \E outcome \in {"Available", "InvalidValue", "Unavailable"} : Connected(Opened(outcome))
       \/ /\ "name" \in symbols
          /\ Fail("lost") /\ Release
          /\ session' = session /\ stale' = TRUE
    /\ UNCHANGED <<target, sampling, spent, symbols, attempts>>

----------------------------------------------------------------------------
Attempted == attempts + 1

(* sample_at: the readings of the last sample go; without a session and    *)
(* when it is time, connect first.                                         *)
BeginSample ==
    /\ at = "idle" /\ metrics' = {} /\ spent' = 0 /\ sampling' = TRUE
    /\ IF target /\ ~session /\ retry = 0
       THEN /\ at' = "load" /\ retry' = NoRetry /\ attempts' = Attempted
       ELSE /\ at' = IF target /\ session THEN "utilization" ELSE "idle"
            /\ UNCHANGED <<retry, attempts>>
    /\ UNCHANGED <<target, symbols, driver, session, stale, status, readiness, failure, cleanup>>

(* The loss of the device voids what the sample has read so far. *)
Lost ==
    /\ Fail("lost") /\ Release
    /\ session' = FALSE /\ stale' = TRUE

(* read_sensor *)
Read(s, outcome, next) ==
    /\ status' = [status EXCEPT ![s] = outcome]
    /\ metrics' = IF outcome = "Available" THEN metrics \cup {s} ELSE metrics
    /\ at' = next
    /\ readiness' = IF next = "idle" THEN Readiness(status') ELSE readiness
    /\ UNCHANGED <<driver, session, stale, failure, retry, cleanup>>

GetUtilization ==
    /\ at = "utilization"
    /\ IF "utilization" \notin symbols THEN Read("utilization", "MissingSymbol", "power")
       ELSE \/ \E outcome \in {"Available", "InvalidValue", "Unavailable"} :
                   Read("utilization", outcome, "power")
            \/ Lost
    /\ UNCHANGED <<target, sampling, spent, symbols, attempts>>

Legacy ==
    /\ at' = "legacy"
    /\ UNCHANGED <<driver, session, stale, status, metrics, readiness, failure, retry, cleanup>>

SamplesLost == Lost

(* power_samples::read: the newest recent one; the older call when there   *)
(* is none or the driver cannot tell, but not on a handle that is lost.    *)
GetSamples ==
    /\ at = "power"
    /\ IF "power" \notin symbols THEN Read("power", "MissingSymbol", "idle")
       ELSE \/ Legacy
            \/ "samples" \in symbols /\ Read("power", "Available", "idle")
            \/ "samples" \in symbols /\ SamplesLost
    /\ UNCHANGED <<target, sampling, spent, symbols, attempts>>

GetPower ==
    /\ at = "legacy"
    /\ \/ \E outcome \in {"Available", "Unavailable"} : Read("power", outcome, "idle")
       \/ Lost
    /\ UNCHANGED <<target, sampling, spent, symbols, attempts>>

----------------------------------------------------------------------------
Cancelled == NoRetry

(* shutdown; it may be called again, and so may sample. *)
Shutdown ==
    /\ at = "idle"
    /\ IF session THEN Release ELSE UNCHANGED <<driver, cleanup>>
    /\ session' = FALSE /\ retry' = Cancelled
    /\ readiness' = "Stopped" /\ status' = NotSampled
    /\ UNCHANGED <<at, target, sampling, spent, symbols, stale, metrics, failure, attempts>>

(* The adapter is dropped, with or without a shutdown. *)
DropAdapter ==
    /\ at = "idle" /\ at' = "dropped"
    /\ IF session THEN Release ELSE UNCHANGED <<driver, cleanup>>
    /\ session' = FALSE
    /\ UNCHANGED <<target, sampling, spent, symbols, stale, status, metrics, readiness,
                   failure, attempts, retry>>

Driver == Load \/ InitLibrary \/ GetHandle \/ GetName \/ GetUtilization \/ GetSamples \/ GetPower

Next == Tick \/ BeginSample \/ Driver \/ Shutdown \/ DropAdapter

(* Time goes on, the driver answers, and the monitor samples. *)
Spec ==
    Init /\ [][Next]_vars /\ WF_vars(Tick) /\ WF_vars(Driver)
    /\ WF_vars(BeginSample /\ at' # "idle")

----------------------------------------------------------------------------
(* "at most three times across this adapter's lifetime". *)
TypeOK ==
    /\ attempts \in 0..MaxAttempts /\ retry \in NoRetry..Delay(MaxAttempts)
    /\ driver.inits \in 0..1 /\ metrics \subseteq Sensors

(* "pair one successful init with one shutdown while loaded": whatever     *)
(* fails on the way, the driver is initialised between two calls exactly   *)
(* while the adapter keeps a session, and never without its library.       *)
Paired ==
    /\ driver.inits = 1 => driver.loaded
    /\ at \in {"idle", "dropped"} => driver.loaded = session /\ driver.inits = (IF session THEN 1 ELSE 0)

(* "Never hide device loss by attempting another query on its stale        *)
(* handle".                                                                *)
NoStaleCalls == stale => at \notin {"name", "utilization", "power", "legacy"}

(* Between two calls the diagnostics agree with the session and with the   *)
(* readings that are shown.                                                *)
ReadingsTrue ==
    at = "idle" =>
        /\ session <=> readiness \in {"Ready", "Degraded"}
        /\ session => failure = None
        /\ readiness # "Stopped" =>
               /\ metrics = {s \in Sensors \ {"name"} : status[s] = "Available"}
               /\ retry # NoRetry <=> readiness = "Recovering"
=============================================================================
