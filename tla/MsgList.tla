-------------------------------- MODULE MsgList --------------------------------
(***************************************************************************)
(* The queue between the client's two threads that send: the main thread   *)
(* turns what the user types into messages and adds them to msgList        *)
(* (client_start, get_input, add_msglist), the send thread waits on the    *)
(* semaphore msg_num, takes the head and writes it to the socket           *)
(* (msg_send_func, remove_msglist).  msg_mutex guards the list, and the    *)
(* semaphore is posted after the mutex is released.                        *)
(*                                                                         *)
(* The list is a sequence, each statement that reads or changes it is a    *)
(* step, and the pointers a thread keeps in its locals between two of its  *)
(* statements are copies of the rest of the list at that moment.           *)
(***************************************************************************)
EXTENDS Naturals, SequencesExt

CONSTANT Messages   \* the messages the user may type, each once
CONSTANT None

ASSUME MessagesAssumption == None \notin Messages

VARIABLES
    list,      \* msgList, its head first
    mutex,     \* msg_mutex: "free", or the thread that holds it
    msg_num,   \* the semaphore
    pcMain, pcSend,
    msg,       \* add_msglist: the new node
    bufMain,   \* add_msglist: buf, the nodes behind the head
    bufSend,   \* remove_msglist: buf, the nodes behind the head
    message,   \* msg_send_func: the message taken
    typed,     \* history: the messages made from the input
    wire,      \* the packets written to the socket
    exited     \* the user typed /exit, which ends the process

vars == <<list, mutex, msg_num, pcMain, pcSend, msg, bufMain, bufSend, message,
          typed, wire, exited>>
mainVars == <<pcMain, msg, bufMain, typed, exited>>
sendVars == <<pcSend, bufSend, message, wire>>

Init ==
    /\ list = <<>> /\ mutex = "free" /\ msg_num = 0
    /\ pcMain = "input" /\ msg = None /\ bufMain = <<>>
    /\ pcSend = "wait" /\ bufSend = <<>> /\ message = None
    /\ typed = {} /\ wire = <<>> /\ exited = FALSE

-----------------------------------------------------------------------------
(* The main thread.                                                        *)
Main(from, to) == ~exited /\ pcMain = from /\ pcMain' = to

(* Mutant: client_start posts for a line that get_input refused.           *)
MutInput ==
    \/ /\ Main("input", "lock")
       /\ \E m \in Messages \ typed : msg' = m /\ typed' = typed \cup {m}
       /\ UNCHANGED <<list, mutex, msg_num, bufMain, sendVars, exited>>
    \/ /\ Main("input", "post") /\ msg_num = 0
       /\ UNCHANGED <<list, mutex, msg_num, msg, bufMain, typed, exited, sendVars>>

(* get_input: construct_message made a message of a line.  A line it       *)
(* refuses changes nothing.                                                *)
Input ==
    /\ Main("input", "lock")
    /\ \E m \in Messages \ typed : msg' = m /\ typed' = typed \cup {m}
    /\ UNCHANGED <<list, mutex, msg_num, bufMain, sendVars, exited>>

(* construct_message calls exit() itself, whatever is in the list.         *)
Exit ==
    /\ Main("input", "input")
    /\ exited' = TRUE
    /\ UNCHANGED <<list, mutex, msg_num, msg, bufMain, typed, sendVars>>

AddLock ==
    /\ Main("lock", "test")
    /\ mutex = "free" /\ mutex' = "main"
    /\ UNCHANGED <<list, msg_num, msg, bufMain, typed, exited, sendVars>>

(* Mutants: the node goes in front; the old second node is forgotten.      *)
MutAddTest ==
    /\ Main("test", "unlock")
    /\ list' = <<msg>> \o list
    /\ UNCHANGED <<mutex, msg_num, msg, bufMain, typed, exited, sendVars>>
MutAddRelink ==
    /\ Main("relink", "unlock")
    /\ UNCHANGED <<list, mutex, msg_num, msg, bufMain, typed, exited, sendVars>>

(* An empty list gets the node; behind a head it goes in second place.     *)
AddTest ==
    /\ \/ /\ Main("test", "unlock") /\ list = <<>>
          /\ list' = <<msg>>
          /\ UNCHANGED bufMain
       \/ /\ Main("test", "link") /\ list # <<>>
          /\ bufMain' = Tail(list)
          /\ UNCHANGED list
    /\ UNCHANGED <<mutex, msg_num, msg, typed, exited, sendVars>>

(* The head's next is now msg: what was behind the head is in buf alone.   *)
AddLink ==
    /\ Main("link", "relink")
    /\ list' = <<Head(list), msg>>
    /\ UNCHANGED <<mutex, msg_num, msg, bufMain, typed, exited, sendVars>>

(* The new node's next is buf.                                             *)
AddRelink ==
    /\ Main("relink", "unlock")
    /\ list' = list \o bufMain
    /\ UNCHANGED <<mutex, msg_num, msg, bufMain, typed, exited, sendVars>>

AddUnlock ==
    /\ Main("unlock", "post")
    /\ mutex' = "free"
    /\ UNCHANGED <<list, msg_num, msg, bufMain, typed, exited, sendVars>>

(* Mutant: one post for two messages.                                      *)
MutPost ==
    /\ Main("post", "input")
    /\ msg_num' = IF msg_num = 0 THEN 1 ELSE msg_num
    /\ UNCHANGED <<list, mutex, msg, bufMain, typed, exited, sendVars>>

Post ==
    /\ Main("post", "input")
    /\ msg_num' = msg_num + 1
    /\ UNCHANGED <<list, mutex, msg, bufMain, typed, exited, sendVars>>

-----------------------------------------------------------------------------
(* The send thread.                                                        *)
Sender(from, to) == ~exited /\ pcSend = from /\ pcSend' = to

Wait ==
    /\ Sender("wait", "lock")
    /\ msg_num > 0 /\ msg_num' = msg_num - 1
    /\ UNCHANGED <<list, mutex, mainVars, bufSend, message, wire>>

RemoveLock ==
    /\ Sender("lock", "test")
    /\ mutex = "free" /\ mutex' = "send"
    /\ UNCHANGED <<list, msg_num, mainVars, bufSend, message, wire>>

(* On an empty list remove_msglist returns NULL and keeps the mutex; its   *)
(* caller prints "NULL" and then follows the pointer.                      *)
RemoveTest ==
    /\ Sender("test", IF list = <<>> THEN "dead" ELSE "drop")
    /\ bufSend' = IF list = <<>> THEN <<>> ELSE Tail(list)
    /\ message' = IF list = <<>> THEN None ELSE Head(list)
    /\ UNCHANGED <<list, mutex, msg_num, mainVars, wire>>

(* The head is freed, and msgList is buf.                                  *)
RemoveDrop ==
    /\ Sender("drop", "unlock")
    /\ list' = bufSend
    /\ UNCHANGED <<mutex, msg_num, mainVars, bufSend, message, wire>>

RemoveUnlock ==
    /\ Sender("unlock", "send")
    /\ mutex' = "free"
    /\ UNCHANGED <<list, msg_num, mainVars, bufSend, message, wire>>

(* Mutant: the message is destroyed before its packet is made.             *)
MutSend ==
    /\ Sender("send", "wait")
    /\ wire' = Append(wire, None)
    /\ message' = None
    /\ UNCHANGED <<list, mutex, msg_num, mainVars, bufSend>>

(* packet_send on a blocking socket, then back to the top of the loop.     *)
Send ==
    /\ Sender("send", "wait")
    /\ wire' = Append(wire, message)
    /\ message' = None
    /\ UNCHANGED <<list, mutex, msg_num, mainVars, bufSend>>

-----------------------------------------------------------------------------
MainStep == AddLock \/ AddTest \/ AddLink \/ AddRelink \/ AddUnlock \/ Post
SendStep == Wait \/ RemoveLock \/ RemoveTest \/ RemoveDrop \/ RemoveUnlock \/ Send

Next == Input \/ Exit \/ MainStep \/ SendStep

Spec == Init /\ [][Next]_vars

(* Both threads are scheduled; nobody has to type, or to exit.  Because    *)
(* the user types finitely many messages, a mutex that lets the main       *)
(* thread in again and again is no obstacle.                               *)
FairSpec ==
    /\ Spec
    /\ WF_vars(MainStep)
    /\ WF_vars(SendStep)
-----------------------------------------------------------------------------
(* Type invariant.                                                         *)
TypeOK ==
    /\ list \in Seq(Messages) /\ wire \in Seq(Messages)
    /\ bufMain \in Seq(Messages) /\ bufSend \in Seq(Messages)
    /\ mutex \in {"free", "main", "send"}
    /\ msg_num \in Nat
    /\ pcMain \in {"input", "lock", "test", "link", "relink", "unlock", "post"}
    /\ pcSend \in {"wait", "lock", "test", "drop", "unlock", "send", "dead"}
    /\ msg \in Messages \cup {None}
    /\ message \in Messages \cup {None}
    /\ typed \subseteq Messages
    /\ exited \in BOOLEAN

(* The branch of remove_msglist for an empty list, which returns with the  *)
(* mutex held and makes its caller follow NULL, is never taken: whenever   *)
(* the send thread gets through sem_wait, its message is in the list.      *)
EmptyBranchUnreachable ==
    /\ pcSend = "test" => list # <<>>
    /\ pcSend # "dead"

(* A new message never goes in front of one that waits: the head leaves    *)
(* the list only by being taken.  Behind the head the newest comes first.  *)
HeadGoesNext ==
    [][list # <<>> /\ ~(list' # <<>> /\ Head(list') = Head(list)) => RemoveDrop]_vars

(* Every message typed is written to the socket unless the user exits.     *)
EveryMessageIsSent ==
    \A m \in Messages : m \in typed ~> exited \/ m \in ToSet(wire)

=============================================================================
