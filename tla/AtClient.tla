------------------------------ MODULE AtClient ------------------------------
(***************************************************************************)
(* The AT client of iot_link (at.c): tasks give commands to a module, one  *)
(* at a time, and a receive task looks for the word each of them waits     *)
(* for in the frames that come.  What is done with cmdlock held is one     *)
(* step.  The module is modelled from what the client expects of it.       *)
(***************************************************************************)
EXTENDS Naturals, Sequences

CONSTANTS
  Client,       \* the tasks that give commands
  Word,         \* words a command may wait for
  MaxCommands,  \* bound: commands given
  MaxFrames     \* bound: frames on their way at one time

ASSUME AtAssumption == "none" \notin Word \cup Client /\ {MaxCommands, MaxFrames} \subseteq Nat

VARIABLES
  prompt,       \* the module answers in time, once, and nobody else uses its words; rigid
  cmd,          \* g_at_cb.cmd: the present command and the two semaphores
  at,           \* where the at_command of each task is
  buf,          \* the response buffers of the tasks
  rcvbuf,       \* the frame the receive task has read
  inbox, line,  \* commands on their way to the module, frames on their way back
  commands      \* how many commands were given; names them

atVars == <<prompt, cmd, at, buf, rcvbuf, inbox, line, commands>>

\* A frame: the command it answers, which only properties and the module
\* know, and the words that are found in it.
NoFrame == [of |-> 0, words |-> {}]

NoCall == [pc |-> "none", id |-> 0, index |-> "none", respbuf |-> "none", ok |-> FALSE, frame |-> NoFrame]

NoCommand == [index |-> "none", respbuf |-> "none", respdata |-> NoFrame]

at_init ==
  /\ cmd = [command |-> NoCommand, cmdsync |-> 1, respsync |-> 0]
  /\ at = [t \in Client |-> NoCall] /\ buf = [t \in Client |-> NoFrame]
  /\ rcvbuf = NoFrame /\ inbox = <<>> /\ line = <<>> /\ commands = 0
  /\ prompt \in BOOLEAN

-----------------------------------------------------------------------------
(***************************************************************************)
(* at_command.                                                             *)
(***************************************************************************)
Goes(t, pc) == at' = [at EXCEPT ![t].pc = pc]

Calls(t, index, respbuf) ==
  /\ at[t].pc = "none" /\ commands < MaxCommands
  /\ commands' = commands + 1
  /\ at' = [at EXCEPT ![t] = [NoCall EXCEPT !.pc = "sync", !.id = commands',
                                             !.index = index, !.respbuf = respbuf]]
  /\ UNCHANGED <<prompt, cmd, buf, rcvbuf, inbox, line>>

\* A command that waits for no answer does not wait for the others either.
CallsWithoutIndex(t) ==
  /\ at[t].pc = "none" /\ commands < MaxCommands
  /\ ~ prompt
  /\ commands' = commands + 1
  /\ inbox' = Append(inbox, [id |-> commands', index |-> "none"])
  /\ UNCHANGED <<prompt, cmd, at, buf, rcvbuf, line>>

\* The pend on cmdsync succeeds, or its time is over.
PendsCommand(t) ==
  /\ at[t].pc = "sync"
  /\ \/ cmd.cmdsync = 1 /\ cmd' = [cmd EXCEPT !.cmdsync = 0] /\ Goes(t, "create")
     \/ at' = [at EXCEPT ![t] = NoCall] /\ UNCHANGED cmd
  /\ UNCHANGED <<prompt, buf, rcvbuf, inbox, line, commands>>

Present(t) == [NoCommand EXCEPT !.index = at[t].index, !.respbuf = at[t].respbuf]

\* Mutant: an answer that was left over is not cleared.
Created_uncleared(t) == [cmd EXCEPT !.command = Present(t)]

Created(t) == [cmd EXCEPT !.command = Present(t), !.respsync = 0]

cmd_create(t) ==
  /\ at[t].pc = "create"
  /\ cmd' = Created(t) /\ Goes(t, "send")
  /\ UNCHANGED <<prompt, buf, rcvbuf, inbox, line, commands>>

\* A command that could not be written is waited for like any other.
cmd_send(t) ==
  /\ at[t].pc = "send" /\ Goes(t, "wait")
  /\ \/ inbox' = Append(inbox, [id |-> at[t].id, index |-> at[t].index])
     \/ UNCHANGED inbox
  /\ UNCHANGED <<prompt, cmd, buf, rcvbuf, line, commands>>

PendsAnswer(t) ==
  /\ at[t].pc = "wait" /\ cmd.respsync = 1
  /\ cmd' = [cmd EXCEPT !.respsync = 0] /\ Goes(t, "read")
  /\ UNCHANGED <<prompt, buf, rcvbuf, inbox, line, commands>>

\* An answer to the command is on its way, or at hand.
Coming(id) ==
  \/ \E k \in DOMAIN inbox : inbox[k].id = id
  \/ \E k \in DOMAIN line : line[k].of = id
  \/ rcvbuf.of = id \/ cmd.respsync = 1

AnswerTimesOut(t) ==
  /\ at[t].pc = "wait"
  /\ prompt => ~ Coming(at[t].id)
  /\ Goes(t, "clear")
  /\ UNCHANGED <<prompt, cmd, buf, rcvbuf, inbox, line, commands>>

\* respdatalen is read without the lock.
ReadsLength(t) ==
  /\ at[t].pc = "read"
  /\ at' = [at EXCEPT ![t].pc = "clear", ![t].ok = TRUE, ![t].frame = cmd.command.respdata]
  /\ UNCHANGED <<prompt, cmd, buf, rcvbuf, inbox, line, commands>>

cmd_clear(t) ==
  /\ at[t].pc = "clear"
  /\ cmd' = [cmd EXCEPT !.command = NoCommand] /\ Goes(t, "post")
  /\ UNCHANGED <<prompt, buf, rcvbuf, inbox, line, commands>>

Returns(t) ==
  /\ at[t].pc = "post"
  /\ cmd' = [cmd EXCEPT !.cmdsync = 1] /\ at' = [at EXCEPT ![t] = NoCall]
  /\ UNCHANGED <<prompt, buf, rcvbuf, inbox, line, commands>>

at_command(t) ==
  \/ \E index \in Word, respbuf \in {t, "none"} : Calls(t, index, respbuf)
  \/ CallsWithoutIndex(t)
  \/ PendsCommand(t) \/ cmd_create(t) \/ cmd_send(t)
  \/ PendsAnswer(t) \/ AnswerTimesOut(t) \/ ReadsLength(t)
  \/ cmd_clear(t) \/ Returns(t)

-----------------------------------------------------------------------------
(***************************************************************************)
(* __rcv_task_entry.                                                       *)
(***************************************************************************)
resp_rcv ==
  /\ rcvbuf = NoFrame /\ line # <<>>
  /\ rcvbuf' = Head(line) /\ line' = Tail(line)
  /\ UNCHANGED <<prompt, cmd, at, buf, inbox, commands>>

\* A frame without the word goes to a function for data out of band, which
\* has no part in the commands.  respsync is binary.
cmd_match ==
  /\ rcvbuf # NoFrame
  /\ rcvbuf' = NoFrame
  /\ IF cmd.command.index \in rcvbuf.words
     THEN /\ cmd' = [cmd EXCEPT !.command.respdata = rcvbuf, !.respsync = 1]
          /\ buf' = [t \in Client |-> IF t = cmd.command.respbuf THEN rcvbuf ELSE buf[t]]
     ELSE UNCHANGED <<cmd, buf>>
  /\ UNCHANGED <<prompt, at, inbox, line, commands>>

-----------------------------------------------------------------------------
(***************************************************************************)
(* The module.                                                             *)
(***************************************************************************)
Sends(frame) == Len(line) < MaxFrames /\ line' = Append(line, frame)

\* An answer has the word; a module that is not prompt may also not answer.
ModuleAnswers ==
  /\ inbox # <<>> /\ inbox' = Tail(inbox)
  /\ \/ \E word \in Word :
          /\ Head(inbox).index \in {word, "none"}
          /\ Sends([of |-> Head(inbox).id, words |-> {word}])
     \/ ~ prompt /\ UNCHANGED line
  /\ UNCHANGED <<prompt, cmd, at, buf, rcvbuf, commands>>

\* Data from the network may hold any word that a command waits for.
ModuleTalks ==
  /\ \E word \in Word : ~ prompt /\ Sends([of |-> 0, words |-> {word}])
  /\ UNCHANGED <<prompt, cmd, at, buf, rcvbuf, inbox, commands>>

AtNext == (\E t \in Client : at_command(t)) \/ resp_rcv \/ cmd_match \/ ModuleAnswers \/ ModuleTalks

-----------------------------------------------------------------------------
\* at.c (the comment on at_command): one command at a time, and its answer is
\* for the task that gave it.  What is returned was found in a frame that was
\* compared with it while it was the present command, never in what an
\* earlier command that timed out has left, and with a prompt module it is the
\* command's own answer; and a response buffer, which is on its task's stack,
\* is not written to before its command is present nor once the call is over.
CommandsGetTheirAnswers ==
  /\ [](\A t \in Client : at[t].ok =>
          /\ at[t].index \in at[t].frame.words
          /\ at[t].respbuf = t => at[t].index \in buf[t].words
          /\ prompt => at[t].frame.of = at[t].id)
  /\ [][\A t \in Client : at[t].pc \in {"none", "sync", "create", "post"} => buf'[t] = buf[t]]_atVars
=============================================================================
