---------------------------- MODULE Stage1Handoff ----------------------------
(***************************************************************************)
(* The processes of a Stage 1 run.  Inline, one process does everything.    *)
(* Separated, a client writes keys and encrypted inputs into a directory,   *)
(* a server without the secret key evaluates, and the client decrypts:      *)
(* three processes an operator starts one after another.  A process may     *)
(* die between any two steps, the file it writes may then be torn, and the  *)
(* secret key may be copied to the server's side by mistake.                *)
(***************************************************************************)
EXTENDS Stage1Decoder

CONSTANT MaxFaults               \* deaths and misplaced files of one run

ASSUME MaxFaultsAssumption == MaxFaults \in Nat

VARIABLES
  proc,      \* the process that runs: "none", "inline", "init", "server", "decrypt"
  exits,     \* process of the handoff -> "none", "crashed" or "ok"
  cursor,    \* files written by this process
  faults

process == <<proc, exits, cursor, faults, disk>>
vars == <<invocation, cached, threads, pc, circuit, verdict, process>>

Phases == <<"init", "server", "decrypt">>

----------------------------------------------------------------------------
(* Files, [directory, name, number] *)

Root == <<"root", "", 0>>
ClientContext == <<"client", "context", 0>>
ClientSecret == <<"client", "secret", 0>>
ServerContext == <<"server", "context", 0>>
MisplacedSecret == <<"server", "secret", 0>>

ServerFiles ==
  <<ServerContext, <<"server", "public-key", 0>>, <<"server", "eval-mult", 0>>,
    <<"server", "eval-rotation", 0>>>>

(* In the order client-init writes them. *)
InitFiles ==
  <<ClientContext, ServerFiles[1], ServerFiles[2], ClientSecret, ServerFiles[3],
    ServerFiles[4]>> \o <<>> \o [t \in 1 .. C.tokens |-> InputFile(t - 1)]

SecretFiles == {file \in DOMAIN disk : file[1] = "server" /\ file[2] = "secret"}

(* Writing a file, whole or torn, replaces one of its name. *)
Replaced(file, whole, ct) ==
  [f \in DOMAIN disk \cup {file} |-> IF f = file THEN [whole |-> whole, ct |-> ct] ELSE disk[f]]
Written(file, ct) == Replaced(file, TRUE, ct)

InitContent(file) ==
  IF file[2] = "input" THEN Encrypted(InputSlots(LoadedPayload.inputs[file[3] + 1]))
  ELSE NoCt

----------------------------------------------------------------------------

Init ==
  /\ run \in DOMAIN Configs /\ host = Host(run)
  /\ cached = TRUE /\ threads = 1
  /\ IF Separated(C) THEN pc = "idle" /\ proc = "none" ELSE pc = "start" /\ proc = "inline"
  /\ token = 0 /\ layer = 0 /\ stream = 0 /\ group = 0 /\ active = 0
  /\ reg = NoRegisters
  /\ fifo = [k \in DOMAIN Layered |-> <<>>]
  /\ state = NoStates
  /\ has_state = {}
  /\ outs = <<>> /\ decrypted = <<>> /\ ids = <<>>
  /\ events = {} /\ rots = {}
  /\ ahead = NoAhead
  /\ verdict = "none"
  /\ exits = [p \in Range(Phases) |-> "none"]
  /\ cursor = 0 /\ faults = 0
  /\ disk = <<>>

(* What a process that ends takes with it. *)
Vanish(after) ==
  /\ pc' = after /\ proc' = "none" /\ cursor' = 0
  /\ cached' = TRUE /\ threads' = 1
  /\ token' = 0 /\ layer' = 0 /\ stream' = 0 /\ group' = 0 /\ active' = 0
  /\ reg' = NoRegisters
  /\ fifo' = [k \in DOMAIN Layered |-> <<>>]
  /\ state' = NoStates
  /\ has_state' = {}
  /\ outs' = <<>> /\ decrypted' = <<>> /\ ids' = <<>>
  /\ events' = {} /\ rots' = {}
  /\ ahead' = NoAhead
  /\ UNCHANGED invocation

Exit ==
  /\ exits' = [exits EXCEPT ![proc] = "ok"]
  /\ Vanish("idle")
  /\ UNCHANGED <<verdict, faults>>

(* A failed process is launched again, for ever. *)
ConcludeRetrying(outcome) ==
  /\ IF outcome = "error" THEN Vanish("idle") /\ UNCHANGED verdict
     ELSE Vanish("done") /\ verdict' = outcome
  /\ UNCHANGED <<exits, faults, disk>>

(* The end of the whole run. *)
Conclude(outcome) ==
  /\ verdict' = outcome
  /\ Vanish("done")
  /\ UNCHANGED <<exits, faults, disk>>

Begins(p) == pc = "start" /\ proc = p

Launch(i) ==
  /\ pc = "idle"
  /\ exits[Phases[i]] # "ok"
  /\ \A j \in 1 .. (i - 1) : exits[Phases[j]] # "none"
  /\ proc' = Phases[i] /\ pc' = "start"
  /\ UNCHANGED <<invocation, cached, threads, circuit, verdict, exits, cursor, faults, disk>>

Reject == pc = "start" /\ ~host.accepted /\ Conclude("rejected")

InlineStart == Begins("inline") /\ host.accepted /\ Start /\ UNCHANGED <<invocation, process>>

(* prepare_client_handoff refuses a directory with anything in it. *)
Prepare ==
  /\ Begins("init") /\ host.accepted
  /\ IF DOMAIN disk # {} THEN Conclude("error")
     ELSE /\ disk' = Written(Root, NoCt) /\ pc' = "write"
          /\ UNCHANGED <<invocation, cached, threads, circuit, verdict, proc, exits, cursor,
                         faults>>

WriteInit ==
  /\ pc = "write"
  /\ LET file == InitFiles[cursor + 1] IN disk' = Written(file, InitContent(file))
  /\ IF cursor + 1 = Len(InitFiles) THEN Exit
     ELSE /\ cursor' = cursor + 1
          /\ UNCHANGED <<invocation, cached, threads, pc, circuit, verdict, proc, exits, faults>>

ServerStart ==
  /\ Begins("server") /\ host.accepted
  /\ IF SecretFiles = {} /\ \A i \in DOMAIN ServerFiles : Present(ServerFiles[i])
     THEN Start /\ UNCHANGED <<invocation, process>>
     ELSE Conclude("error")

MissingInput ==
  /\ pc = "encrypt_input" /\ Separated(C) /\ ~Present(InputFile(token))
  /\ Conclude("error")

(* No output is written next to a secret. *)
Publish ==
  /\ pc = "publish"
  /\ IF SecretFiles # {} THEN Conclude("error")
     ELSE pc' = "outputs" /\ UNCHANGED <<invocation, cached, threads, circuit, verdict, process>>

WriteOutput ==
  /\ pc = "outputs"
  /\ disk' = Written(OutputFile(cursor), outs[cursor + 1])
  /\ IF cursor + 1 = C.tokens THEN Exit
     ELSE /\ cursor' = cursor + 1
          /\ UNCHANGED <<invocation, cached, threads, pc, circuit, verdict, proc, exits, faults>>

(* Only the first stream is compared here. *)
OutputRight(t) ==
  /\ Present(OutputFile(t - 1))
  /\ Decrypted(disk[OutputFile(t - 1)].ct) = Reference[t]

Decrypt ==
  /\ Begins("decrypt") /\ host.accepted
  /\ IF ~(Present(ClientContext) /\ Present(ClientSecret)) THEN Conclude("error")
     ELSE Conclude(IF (\A t \in 1 .. C.tokens : OutputRight(t)) /\ SecretFiles = {}
                   THEN "passed" ELSE "failed")

(* "produced no terms": nothing is written of a run that throws. *)
EmptyProduct ==
  /\ \E name \in Products :
       /\ pc = PhaseOf(name)
       /\ EncodedFor(name, ShapeOfProduct(name)) /\ NoTerms(name, ShapeOfProduct(name))
  /\ Conclude("error")

(* An exception of an encoding thread, rethrown after the join. *)
EncodingFails ==
  /\ ahead.pending # <<>>
  /\ \A w \in DOMAIN ahead.job : ahead.job[w] \notin DOMAIN ahead.pending
  /\ faults < MaxFaults
  /\ Conclude("error")

----------------------------------------------------------------------------
(* Faults of a handoff *)

AtWork ==
  CASE pc = "write" -> <<InitFiles[cursor + 1]>>
    [] pc = "outputs" -> <<OutputFile(cursor)>>
    [] OTHER -> <<>>

Crash ==
  /\ proc \in Range(Phases) /\ pc # "done"
  /\ faults < MaxFaults
  /\ faults' = faults + 1
  /\ exits' = [exits EXCEPT ![proc] = "crashed"]
  /\ \/ UNCHANGED disk
     \/ AtWork # <<>> /\ disk' = Replaced(AtWork[1], FALSE, NoCt)
  /\ Vanish("idle")
  /\ UNCHANGED verdict

Misplace ==
  /\ Separated(C) /\ pc # "done" /\ Present(ClientSecret)
  /\ faults < MaxFaults
  /\ faults' = faults + 1
  /\ disk' = Written(MisplacedSecret, NoCt)
  /\ UNCHANGED <<invocation, cached, threads, pc, circuit, verdict, proc, exits, cursor>>

Done == pc = "done" /\ UNCHANGED vars

Progress ==
  \/ Reject \/ InlineStart \/ Prepare \/ WriteInit \/ ServerStart \/ MissingInput
  \/ Publish \/ WriteOutput \/ Decrypt \/ EmptyProduct
  \/ \E i \in DOMAIN Phases : Launch(i)
  \/ Evaluate /\ UNCHANGED process

Next == Progress \/ EncodingFails \/ Crash \/ Misplace \/ Done

(* Weak fairness of Progress.  It is possible exactly while the run is not   *)
(* done: anything else is a deadlock.  (ENABLED would evaluate the circuit   *)
(* once more for every state.)                                             *)
Fairness == []<>(pc = "done") \/ []<><<Progress>>_vars

Spec == Init /\ [][Next]_vars /\ Fairness
=============================================================================
