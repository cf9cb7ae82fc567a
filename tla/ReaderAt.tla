------------------------------ MODULE ReaderAt ------------------------------
(***************************************************************************)
(* What an open file promises to the goroutines that share it, as the      *)
(* comments of openfile.go state it after io.ReaderAt: a call answers with *)
(* a slice of one fixed content, a short answer always carries an error,   *)
(* io.EOF comes with everything that was left, and a call that begins      *)
(* after Close answers os.ErrClosed. How the bytes are found, in how many  *)
(* reads and in what order, is not part of the promise.                    *)
(***************************************************************************)
EXTENDS Integers, Sequences

CONSTANTS Callers, Offsets, Lengths

VARIABLES
  isOpen,    \* OpenFile has returned the file
  content,   \* the bytes of the file, once open
  closed,    \* Close has been called
  phase,     \* phase[c]: "idle", "pending" or "answered"
  off,       \* off[c], want[c]: the arguments of c's call
  want,
  buf,       \* buf[c], err[c]: its answer
  err

vars == <<isOpen, content, closed, phase, off, want, buf, err>>

Init ==
  /\ isOpen = FALSE
  /\ content = << >>
  /\ closed = FALSE
  /\ phase = [c \in Callers |-> "idle"]
  /\ off = [c \in Callers |-> 0]
  /\ want = [c \in Callers |-> 0]
  /\ buf = [c \in Callers |-> << >>]
  /\ err = [c \in Callers |-> "nil"]

\* OpenFile succeeds; which content the file has is the record's business.
Open ==
  /\ ~isOpen
  /\ isOpen' = TRUE
  /\ content' \in Seq(Int)
  /\ UNCHANGED <<closed, phase, off, want, buf, err>>

(***************************************************************************)
(* Slice(o, n): the n bytes of the content from offset o on.               *)
(***************************************************************************)
Slice(o, n) == SubSeq(content, o + 1, o + n)

\* The answers a call that found the file open may give.
Answers(o, n, b, e) ==
  \/ e = "negative" /\ o < 0 /\ b = << >>
  \/ e = "EOF" /\ o >= Len(content) /\ b = << >>
  \/ /\ o >= 0
     /\ o + Len(b) <= Len(content)
     /\ b = Slice(o, Len(b))
     /\ \/ e = "nil" /\ Len(b) = n
        \/ e = "EOF" /\ Len(b) < n /\ o + Len(b) = Len(content)
        \/ e \in {"readEOF", "readFault", "readClosed"} /\ Len(b) <= n

\* A call that answers at once.
Refuse(c, o, n) ==
  /\ isOpen /\ phase[c] = "idle"
  /\ phase' = [phase EXCEPT ![c] = "answered"]
  /\ off' = [off EXCEPT ![c] = o]
  /\ want' = [want EXCEPT ![c] = n]
  /\ buf' = [buf EXCEPT ![c] = << >>]
  /\ \E e \in {"EOF", "negative", "closed"} :
       /\ IF closed THEN e = "closed" ELSE Answers(o, n, << >>, e)
       /\ err' = [err EXCEPT ![c] = e]
  /\ UNCHANGED <<isOpen, content, closed>>

Call(c, o, n) ==
  /\ isOpen /\ ~closed /\ phase[c] = "idle"
  /\ phase' = [phase EXCEPT ![c] = "pending"]
  /\ off' = [off EXCEPT ![c] = o]
  /\ want' = [want EXCEPT ![c] = n]
  /\ UNCHANGED <<isOpen, content, closed, buf, err>>

Answer(c) ==
  /\ phase[c] = "pending"
  /\ phase' = [phase EXCEPT ![c] = "answered"]
  /\ Answers(off[c], want[c], buf'[c], err'[c])
  /\ buf' = [buf EXCEPT ![c] = buf'[c]]
  /\ err' = [err EXCEPT ![c] = err'[c]]
  /\ UNCHANGED <<isOpen, content, closed, off, want>>

\* The caller takes its answer and may call again.
Take(c) ==
  /\ phase[c] = "answered"
  /\ phase' = [phase EXCEPT ![c] = "idle"]
  /\ off' = [off EXCEPT ![c] = 0]
  /\ want' = [want EXCEPT ![c] = 0]
  /\ buf' = [buf EXCEPT ![c] = << >>]
  /\ err' = [err EXCEPT ![c] = "nil"]
  /\ UNCHANGED <<isOpen, content, closed>>

Close ==
  /\ isOpen
  /\ closed' = TRUE
  /\ UNCHANGED <<isOpen, content, phase, off, want, buf, err>>

Next ==
  \/ Open
  \/ Close
  \/ \E c \in Callers :
       \/ \E o \in Offsets, n \in Lengths : Refuse(c, o, n) \/ Call(c, o, n)
       \/ Answer(c)
       \/ Take(c)

Spec == Init /\ [][Next]_vars
=============================================================================
