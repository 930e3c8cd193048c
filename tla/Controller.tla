----------------------------- MODULE Controller -----------------------------
(***************************************************************************)
(* The miniproject's controller (miniproject/controller/main.c): main and  *)
(* the threads that control, receive and acknowledge, the semaphores and   *)
(* the flag controlActive between them, and the server behind a channel    *)
(* that may lose and repeat datagrams.                                     *)
(*                                                                         *)
(* The file does not compile as it stands; mutexes are read as passed by   *)
(* address, and the names control() lacks as controller_func's.  Two       *)
(* statements keep it from working then, and repairs says which of them    *)
(* are put right: "unlock", that update_control_active() and               *)
(* get_control_active() unlock the mutex where they lock it a second time; *)
(* "match", that an answer is recognised by its beginning and not by       *)
(* strcmp() with "GET_ACK:".  {} is the code as it is written.             *)
(*                                                                         *)
(* The ring buffer is the queue that AnswerBuffer shows it to be.          *)
(***************************************************************************)
EXTENDS Integers, Sequences, SequencesExt

CONSTANTS MaxGets, MaxSignals, MaxFaults   \* bounds on what is sent, lost, repeated

ASSUME ControllerAssumption ==
  MaxGets \in Nat /\ MaxSignals \in Nat /\ MaxFaults \in Nat

VARIABLES
  repairs,        \* the statements put right
  pc, held,       \* where each thread is; mtxThreadSync is locked
  controlActive,
  isActive,       \* what each thread has last read of it
  lastActive,     \* of the threads that receive and acknowledge
  semaAck,
  answers,        \* the answers in the buffer, each the number of its GET
  gets, y,        \* GETs sent; the answer taken last
  half,           \* of the simulation
  toServer, toClient,   \* datagrams under way
  running, signals,     \* of the server: the simulation; SIGNALs sent
  lost, repeated        \* GETs or answers to them lost, datagrams repeated

sync    == <<held, controlActive, isActive, lastActive>>
data    == <<semaAck, answers, gets, y, half>>
network == <<toServer, toClient, running, signals, lost, repeated>>
controlVars    == <<repairs, pc, sync, data, network>>

Workers == {"controller", "recv", "sendAck"}

InitControl ==
  /\ repairs \in SUBSET {"unlock", "match"}
  /\ pc = [t \in Workers \cup {"main"} |-> IF t = "main" THEN "init" ELSE "none"]
  /\ held = FALSE /\ controlActive = FALSE
  /\ isActive = [t \in Workers |-> FALSE] /\ lastActive = [t \in Workers |-> FALSE]
  /\ semaAck = 0 /\ answers = <<>>
  /\ gets = 0 /\ y = 0 /\ half = 1
  /\ toServer = <<>> /\ toClient = <<>>
  /\ running = FALSE /\ signals = 0
  /\ lost = 0 /\ repeated = 0

Goto(t, from, to) == pc[t] = from /\ pc' = [pc EXCEPT ![t] = to]

-----------------------------------------------------------------------------
(* The flag.  Each function locks, does its work and ends with Second.     *)

(* Variant: the mutex unlocked, whatever is repaired.                      *)
SecondUnlocks(t, from, to) ==
  /\ Goto(t, from, to)
  /\ held' = FALSE
  /\ UNCHANGED <<repairs, controlActive, isActive, lastActive, data, network>>

Second(t, from, to) ==
  /\ Goto(t, from, to)
  /\ \/ "unlock" \in repairs /\ held' = FALSE
     \/ "unlock" \notin repairs /\ ~held /\ held' = TRUE
  /\ UNCHANGED <<repairs, controlActive, isActive, lastActive, data, network>>

update_control_active(t, from, to, value) ==
  /\ Goto(t, from, to)
  /\ ~held /\ held' = TRUE
  /\ controlActive' = value
  /\ UNCHANGED <<repairs, isActive, lastActive, data, network>>

get_control_active(t, from, to) ==
  /\ Goto(t, from, to)
  /\ ~held /\ held' = TRUE
  /\ isActive' = [isActive EXCEPT ![t] = controlActive]
  /\ UNCHANGED <<repairs, controlActive, lastActive, data, network>>

-----------------------------------------------------------------------------
Create(t, from, to) ==
  /\ pc["main"] = from
  /\ pc' = [pc EXCEPT !["main"] = to, ![t] = IF t = "controller" THEN "START" ELSE "test"]
  /\ UNCHANGED <<repairs, sync, data, network>>

Join(t, from, to) ==
  /\ Goto("main", from, to)
  /\ pc[t] = "done"
  /\ UNCHANGED <<repairs, sync, data, network>>

Main ==
  \/ update_control_active("main", "init", "init2", FALSE)
  \/ Second("main", "init2", "create1")
  \/ Create("controller", "create1", "create2")
  \/ Create("recv", "create2", "create3")
  \/ Create("sendAck", "create3", "join1")
  \/ Join("controller", "join1", "join2")
  \/ Join("recv", "join2", "join3")
  \/ Join("sendAck", "join3", "done")

-----------------------------------------------------------------------------
Send(t, from, to, msg) ==
  /\ Goto(t, from, to)
  /\ toServer' = Append(toServer, msg)
  /\ UNCHANGED <<repairs, sync, semaAck, answers, y, half,
                 toClient, running, signals, lost, repeated>>

Msg(kind, n) == [kind |-> kind, n |-> n]

(* As long as the time of this half is not over.                           *)
SendGet ==
  /\ gets < MaxGets /\ gets' = gets + 1
  /\ Send("controller", "loop", "get", Msg("GET", gets'))

(* Variant: the semaphore not waited for.                                  *)
TakeWithoutWait ==
  /\ Goto("controller", "get", "calculate")
  /\ y' = IF answers = <<>> THEN y ELSE Head(answers)
  /\ answers' = IF answers = <<>> THEN answers ELSE Tail(answers)
  /\ UNCHANGED <<repairs, sync, semaAck, gets, half, network>>

TakeAnswer ==
  /\ Goto("controller", "get", "calculate")
  /\ answers # <<>>
  /\ y' = Head(answers) /\ answers' = Tail(answers)
  /\ UNCHANGED <<repairs, sync, semaAck, gets, half, network>>

HalfOver ==
  /\ Goto("controller", "loop", IF half = 1 THEN "SET" ELSE "STOP")
  /\ half' = 2
  /\ UNCHANGED <<repairs, sync, semaAck, answers, gets, y, network>>

(* Variant: the other threads not told.                                    *)
DeactivateNot ==
  Goto("controller", "deactivate", "done") /\ UNCHANGED <<repairs, sync, data, network>>

Deactivate == update_control_active("controller", "deactivate", "deactivate2", FALSE)

Controller ==
  \/ Send("controller", "START", "activate", Msg("START", 0)) /\ UNCHANGED gets
  \/ update_control_active("controller", "activate", "activate2", TRUE)
  \/ Second("controller", "activate2", "SET")
  \/ Send("controller", "SET", "loop", Msg("SET", 0)) /\ UNCHANGED gets
  \/ SendGet \/ TakeAnswer
  \/ Send("controller", "calculate", "loop", Msg("SET", 0)) /\ UNCHANGED gets
  \/ HalfOver
  \/ Send("controller", "STOP", "deactivate", Msg("STOP", 0)) /\ UNCHANGED gets
  \/ Deactivate
  \/ Second("controller", "deactivate2", "done")

-----------------------------------------------------------------------------
(* What a thread does with the flag: go on at active, or end if it has     *)
(* been set once.                                                          *)
Test(t, active) ==
  \/ get_control_active(t, "test", "test2")
  \/ Second(t, "test2", "tested")
  \/ /\ pc[t] = "tested"
     /\ \/ isActive[t] /\ Goto(t, "tested", active)
        \/ ~isActive[t] /\ lastActive[t] /\ Goto(t, "tested", "done")
        \/ ~isActive[t] /\ ~lastActive[t] /\ Goto(t, "tested", "test")
     /\ UNCHANGED <<repairs, sync, data, network>>

ReceiveDatagram ==
  LET msg == Head(toClient)
  IN /\ Goto("recv", "receive", "test")
     /\ toClient # <<>> /\ toClient' = Tail(toClient)
     /\ lastActive' = [lastActive EXCEPT !["recv"] = TRUE]
     /\ \/ msg.kind = "SIGNAL" /\ semaAck' = semaAck + 1 /\ UNCHANGED answers
        \/ /\ msg.kind = "GET_ACK"
           /\ answers' = IF "match" \in repairs THEN Append(answers, msg.n) ELSE answers
           /\ UNCHANGED semaAck
     /\ UNCHANGED <<repairs, held, controlActive, isActive, gets, y, half,
                    toServer, running, signals, lost, repeated>>

Recv == Test("recv", "receive") \/ ReceiveDatagram

WaitAck ==
  /\ Goto("sendAck", "wait", "SIGNAL_ACK")
  /\ semaAck > 0 /\ semaAck' = semaAck - 1
  /\ UNCHANGED <<repairs, sync, answers, gets, y, half, network>>

Acknowledge ==
  /\ Goto("sendAck", "SIGNAL_ACK", "test")
  /\ toServer' = Append(toServer, Msg("SIGNAL_ACK", 0))
  /\ lastActive' = [lastActive EXCEPT !["sendAck"] = TRUE]
  /\ UNCHANGED <<repairs, held, controlActive, isActive, data,
                 toClient, running, signals, lost, repeated>>

SendAck == Test("sendAck", "wait") \/ WaitAck \/ Acknowledge

-----------------------------------------------------------------------------
(* The server, and the network.                                            *)

Serve ==
  LET msg == Head(toServer)
  IN /\ toServer # <<>> /\ toServer' = Tail(toServer)
     /\ running' = (msg.kind = "START" \/ (running /\ msg.kind # "STOP"))
     /\ toClient' = IF msg.kind = "GET" THEN Append(toClient, Msg("GET_ACK", msg.n))
                                        ELSE toClient
     /\ UNCHANGED <<repairs, pc, sync, data, signals, lost, repeated>>

Signal ==
  /\ running /\ signals < MaxSignals
  /\ signals' = signals + 1
  /\ toClient' = Append(toClient, Msg("SIGNAL", 0))
  /\ UNCHANGED <<repairs, pc, sync, data, toServer, running, lost, repeated>>

OfGet(msg) == msg.kind \in {"GET", "GET_ACK"}

Lose ==
  /\ lost < MaxFaults /\ lost' = lost + 1
  /\ \/ \E i \in 1 .. Len(toServer) :
          /\ OfGet(toServer[i])
          /\ toServer' = RemoveAt(toServer, i) /\ UNCHANGED toClient
     \/ \E i \in 1 .. Len(toClient) :
          /\ OfGet(toClient[i])
          /\ toClient' = RemoveAt(toClient, i) /\ UNCHANGED toServer
  /\ UNCHANGED <<repairs, pc, sync, data, running, signals, repeated>>

Repeat ==
  /\ repeated < MaxFaults /\ repeated' = repeated + 1
  /\ \/ \E i \in 1 .. Len(toServer) :
          toServer' = InsertAt(toServer, i, toServer[i]) /\ UNCHANGED toClient
     \/ \E i \in 1 .. Len(toClient) :
          toClient' = InsertAt(toClient, i, toClient[i]) /\ UNCHANGED toServer
  /\ UNCHANGED <<repairs, pc, sync, data, running, signals, lost>>

NextControl ==
  Main \/ Controller \/ Recv \/ SendAck \/ Serve \/ Signal \/ Lose \/ Repeat

(* A thread that asks for the mutex again and again gets it, though the    *)
(* others come round to it all the time.                                   *)
Fairness ==
  /\ WF_controlVars(Main) /\ WF_controlVars(Serve)
  /\ SF_controlVars(Controller) /\ SF_controlVars(Recv) /\ SF_controlVars(SendAck)

SpecControl == InitControl /\ [][NextControl]_controlVars /\ Fairness

-----------------------------------------------------------------------------
(* As it is written the program stops in main before it creates a thread;  *)
(* with the mutex unlocked, at the answer to its first GET.                *)
StopsAtItsFaults ==
  /\ "unlock" \notin repairs => \A t \in Workers : pc[t] = "none"
  /\ "match" \notin repairs => gets <= 1 /\ pc["controller"] # "calculate"

(* What control() computes with is the answer to the GET it has just sent, *)
(* or older by one period for each datagram that was repeated, and never   *)
(* an answer it has used before but for those.                             *)
AnswerAge == pc["controller"] = "calculate" => y <= gets /\ gets - y <= repeated

(* One GET or answer lost, and control() waits for ever.                   *)
LossStopsControl == lost > repeated => pc["controller"] \notin {"STOP", "deactivate", "done"}

(* With both repairs and nothing lost the simulation is run to its end.    *)
(* The program then ends, or hangs in one of three ways: the receiver      *)
(* waits for a datagram that does not come; the sender of acknowledges     *)
(* waits for a signal that does not; or one of them has never seen the     *)
(* flag set, and goes on looking.                                          *)
EndsOrHangs ==
  (repairs = {"unlock", "match"} /\ [](lost = 0)) =>
    <>[](/\ pc["controller"] = "done" /\ ~controlActive
         /\ \/ pc["main"] = "done"
            \/ pc["recv"] = "receive" /\ toClient = <<>>
            \/ pc["sendAck"] = "wait" /\ semaAck = 0 /\ pc["recv"] = "done"
            \/ \E t \in {"recv", "sendAck"} :
                 pc[t] \in {"test", "test2", "tested"} /\ ~lastActive[t])
=============================================================================
