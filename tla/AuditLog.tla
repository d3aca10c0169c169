------------------------------ MODULE AuditLog ------------------------------
(***************************************************************************)
(* The audit log of a process (audit.FileSink): one JSON line per event,   *)
(* appended under a mutex through an encoder that remembers its first      *)
(* error, and read back from the file's beginning by Query.                *)
(*                                                                         *)
(* A write that fails may leave a part of its line, or all of it but the   *)
(* newline; the next process opens the same file and goes on behind that.  *)
(***************************************************************************)
EXTENDS Integers, Sequences, FiniteSets, SequencesExt

CONSTANTS
  Nothing,    \* the end of a file whose last line is whole
  Garbage     \* a line, or an end of one, that is no event

VARIABLES
  lines,      \* the terminated lines of the file
  tail,       \* what follows them: Nothing, Garbage, or an event
  sticky,     \* this process writes no more: enc.err is set, or it has no sink
  accepted,   \* history: the events for which Record returned no error
  opened      \* history: how often a process opened the file

auditVars == <<lines, tail, sticky, accepted, opened>>

AuditInit ==
  /\ lines = <<>> /\ tail = Nothing /\ sticky = FALSE
  /\ accepted = <<>> /\ opened = 0

\* An event written behind an unterminated line becomes part of that line.
Written(e) == Append(lines, IF tail = Nothing THEN e ELSE Garbage)

BugForgetsError == FALSE
AfterError == TRUE

\* The caller logs an error of Record and goes on.
Record(e) ==
  /\ UNCHANGED opened
  /\ \/ /\ ~sticky
        /\ lines' = Written(e) /\ tail' = Nothing
        /\ accepted' = Append(accepted, e)
        /\ UNCHANGED sticky
     \/ /\ ~sticky
        /\ sticky' = AfterError
        /\ tail' \in {tail, Garbage} \union (IF tail = Nothing THEN {e} ELSE {})
        /\ UNCHANGED <<lines, accepted>>
     \/ sticky /\ UNCHANGED <<lines, tail, sticky, accepted>>

\* A process that cannot open the file does without a log.
NewFileSink ==
  /\ sticky' \in BOOLEAN /\ opened' = opened + 1
  /\ UNCHANGED <<lines, tail, accepted>>

Contents == IF tail = Nothing THEN lines ELSE Append(lines, tail)

\* Query without a filter: the lines it answers with, in the file's order;
\* malformed lines are skipped.
Query == {n \in DOMAIN Contents : Contents[n] # Garbage}

-----------------------------------------------------------------------------
(* Properties.                                                             *)

\* The log tells what it accepted, once and in that order: an event whose Record
\* succeeded can be read back, except that each time the file was opened again
\* one event may have been written behind a line the process before left
\* unterminated.  Within one process none is lost, because after a failed write
\* the encoder writes nothing more.
AcceptedIsReadable ==
  /\ accepted # <<>> =>
       Cardinality(ToSet(accepted) \ {Contents[n] : n \in Query}) < opened
  /\ \A i, j \in DOMAIN accepted : \A m, n \in Query :
       Contents[m] = accepted[i] /\ Contents[n] = accepted[j] => (i < j <=> m < n)
=============================================================================
