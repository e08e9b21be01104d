-------------------------------- MODULE Memory --------------------------------
(***************************************************************************)
(* memory.c of PlayingWithMemory: every run of the program takes a command *)
(* from its input and prints a file (get) or writes one (set).  Runs       *)
(* follow one another.  Calls may fail or do less than was asked, the      *)
(* input may end anywhere, and a run may be killed between two calls.  A   *)
(* call that EINTR interrupts and the code repeats changes nothing, and is *)
(* no step.                                                                *)
(***************************************************************************)
EXTENDS Integers, SequencesExt

CONSTANTS Inputs,          \* what a run may find on its input: sequences of symbols
          Names, Contents, \* the files, and what is in them at first
          LINE,            \* the size of the buffers of a line (10, 4096 and 20)
          CHUNK,           \* the size of readBuffer (1024)
          MAX_CONTENT_SIZE,
          Runs             \* bound: the runs of the program

(* All text is sequences of symbols, the keywords are symbols themselves,   *)
(* and a buffer holds more than one of them.                                *)
ASSUME MemoryAssumption == /\ LINE \in Nat \ {0, 1, 2} /\ CHUNK \in Nat \ {0}
                           /\ MAX_CONTENT_SIZE \in Nat /\ Runs \in Nat
                           /\ \A s \in Inputs \cup Names \cup Contents : s \in Seq(Range(s))

VARIABLES files,       \* kind and data of every file
          pc, stdin,   \* of the run: where it is, what is left of its input
          filePath, dataSize, dataBuffer,
          offset, readBuffer,  \* of get: the file's offset, what is still to be printed
          runs,
          given, before, printed,  \* history of the run: input, files at its start, output
          readFailed,              \* history of the run: a read of the file has failed
          remembered               \* history: what the last set that said OK was given

command == <<stdin, filePath, dataSize, dataBuffer>>
history == <<runs, given, before>>
vars == <<files, pc, command, offset, readBuffer, history, printed, readFailed, remembered>>

None == [kind |-> "none", data |-> << >>]
Dir == [kind |-> "dir", data |-> << >>]
File(data) == [kind |-> "file", data |-> data]

Init == /\ files \in [Names -> {None, Dir} \cup {File(d) : d \in Contents}]
        /\ pc = "idle"
        /\ stdin = << >> /\ filePath = << >> /\ dataSize = 0 /\ dataBuffer = << >>
        /\ offset = 0 /\ readBuffer = << >>
        /\ runs = 0 /\ given = << >> /\ before = files
        /\ printed = << >> /\ readFailed = FALSE
        /\ remembered = files

----------------------------------------------------------------------------
(* Parsing *)
Shorter(m, n) == IF m < n THEN m ELSE n
Piece(s, first, n) == SubSeq(s, first, Shorter(first + n - 1, Len(s)))

(* A line ends at a newline, at the end of the input, or where its buffer   *)
(* ends: then its newline, or what is left of it, is left to the next read. *)
readLine(s) ==
  LET n == SelectInSeq(s, LAMBDA c : c = "\n")
      all == IF n = 0 THEN Len(s) ELSE n - 1
      totalRead == Shorter(all, LINE - 1)
  IN [line |-> SubSeq(s, 1, totalRead),
      rest |-> SubSeq(s, totalRead + (IF n > 0 /\ totalRead < LINE - 1 THEN 2 ELSE 1), Len(s))]

isspace(c) == c \in {" ", "\n"}
isValidFilename(name) == \A i \in DOMAIN name : ~isspace(name[i])

(* sscanf with %lu: the number the line begins with, -1 without one.        *)
Digit == [d \in {"0", "1", "2", "9"} |-> CHOOSE n \in 0 .. 9 : ToString(n) = d]

SizeOf(line) ==
  LET n == SelectInSeq(line, LAMBDA c : c \notin DOMAIN Digit)
      digits == IF n = 0 THEN line ELSE SubSeq(line, 1, n - 1)
  IN IF digits = << >> THEN -1 ELSE FoldLeft(LAMBDA v, d : 10 * v + Digit[d], 0, digits)

(* The byte after the command of a get, which is taken away; one that is    *)
(* not read, because the read fails, counts as the newline.                 *)
checkForMissingNewlineAfterGet(s, isRead) == isRead /\ s # << >> /\ Head(s) # "\n"

Opened == readLine(stdin)
Path == readLine(Opened.rest)
Size == readLine(Path.rest)

ValidGet(isRead) ==
  /\ Opened.line = <<"get">>
  /\ Path.line # << >> /\ isValidFilename(Path.line)
  /\ ~checkForMissingNewlineAfterGet(Path.rest, isRead)

ValidSet == /\ Opened.line = <<"set">>
            /\ Path.line # << >> /\ Size.line # << >>
            /\ SizeOf(Size.line) \in 0 .. MAX_CONTENT_SIZE
            /\ isValidFilename(Path.line)

----------------------------------------------------------------------------
(* A run begins.  Which answer a run gave is where it ends: "ok" with exit  *)
(* code 0, "invalid" and "failed" with a message and 1, or "killed".        *)
Ended == {"idle", "ok", "invalid", "failed", "killed"}

Start(input) ==
  /\ pc \in Ended /\ runs < Runs
  /\ pc' = "main"
  /\ stdin' = input /\ filePath' = << >> /\ dataSize' = 0 /\ dataBuffer' = << >>
  /\ offset' = 0 /\ readBuffer' = << >>
  /\ runs' = runs + 1 /\ given' = input /\ before' = files
  /\ printed' = << >> /\ readFailed' = FALSE
  /\ UNCHANGED <<files, remembered>>

(* A read of a line may fail like an end of the input, and the command is   *)
(* not valid; where the read of a get's last byte fails, it is.             *)
Command ==
  /\ pc = "main"
  /\ \/ /\ \E isRead \in BOOLEAN : ValidGet(isRead)
        /\ pc' = "get"
        /\ filePath' = Path.line
        /\ UNCHANGED <<stdin, dataSize>>
     \/ /\ ValidSet
        /\ pc' = "content"
        /\ filePath' = Path.line /\ dataSize' = SizeOf(Size.line) /\ stdin' = Size.rest
     \/ /\ pc' = "invalid"
        /\ UNCHANGED <<stdin, filePath, dataSize>>
  /\ UNCHANGED <<files, dataBuffer, offset, readBuffer, history, printed, readFailed, remembered>>

(* The loop that reads until dataSize or the end of the input; a read that  *)
(* fails ends the run.                                                      *)
Content ==
  /\ pc = "content"
  /\ \/ /\ pc' = "set"
        /\ dataBuffer' = Piece(stdin, 1, dataSize)
     \/ /\ pc' = "failed"
        /\ UNCHANGED dataBuffer
  /\ UNCHANGED <<files, stdin, filePath, dataSize, offset, readBuffer, history, printed,
                 readFailed, remembered>>

----------------------------------------------------------------------------
(* executeSetOperation: open creates or cuts the file ... *)
SetOpenNoTrunc ==
  /\ files[filePath].kind # "dir"
  /\ pc' = "write"
  /\ files' = [files EXCEPT ![filePath].kind = "file"]
  /\ remembered' = [remembered EXCEPT ![filePath] = None]

SetOpen ==
  /\ files[filePath].kind # "dir"
  /\ pc' = "write"
  /\ files' = [files EXCEPT ![filePath] = File(<< >>)]
  /\ remembered' = [remembered EXCEPT ![filePath] = None]

SetNotOpened == pc' = "failed" /\ UNCHANGED <<files, remembered>>

Set ==
  /\ pc = "set" /\ filePath \in Names
  /\ SetOpen \/ SetNotOpened
  /\ UNCHANGED <<command, offset, readBuffer, history, printed, readFailed>>

(* What the one who typed the command meant: the bytes after its third      *)
(* line, when no line of it fills its buffer.                               *)
Newlines == {i \in DOMAIN given : given[i] = "\n"}
ThirdLineEnd == CHOOSE i \in Newlines : Cardinality({j \in Newlines : j < i}) = 2
LinesFit == /\ Cardinality(Newlines) > 2
            /\ \A i \in {0} \cup Newlines : i < ThirdLineEnd =>
                 \E j \in Newlines : j > i /\ j - i < LINE
Meant == Piece(given, ThirdLineEnd + 1, dataSize)

(* ... and one write puts some of the content there, or none.  The run may  *)
(* be killed before it says what came of it.                                *)
Overwritten(old, new) == new \o SubSeq(old, Len(new) + 1, Len(old))

WriteAgain(n) ==
  /\ files' = [files EXCEPT ![filePath].data = Overwritten(@, SubSeq(dataBuffer, 1, n) \o
                 (IF n < Len(dataBuffer) THEN SubSeq(dataBuffer, 1, 1) ELSE << >>))]
  /\ pc' \in {IF n = Len(dataBuffer) THEN "ok" ELSE "failed", "killed"}

Write(n) ==
  /\ files' = [files EXCEPT ![filePath].data = Overwritten(@, SubSeq(dataBuffer, 1, n))]
  /\ pc' \in {IF n = Len(dataBuffer) THEN "ok" ELSE "failed", "killed"}

SetWrite ==
  /\ pc = "write"
  /\ \E n \in 0 .. Len(dataBuffer) : Write(n)
  /\ remembered' = IF pc' = "ok" /\ LinesFit
                   THEN [remembered EXCEPT ![filePath] = File(Meant)] ELSE remembered
  /\ UNCHANGED <<command, offset, readBuffer, history, printed, readFailed>>

----------------------------------------------------------------------------
(* executeGetOperation: no file, a directory, or a file that does not open. *)
Get ==
  /\ pc = "get" /\ filePath \in Names
  /\ \/ files[filePath].kind = "file" /\ pc' = "read"
     \/ pc' = "invalid"
  /\ UNCHANGED <<files, command, offset, readBuffer, history, printed, readFailed, remembered>>

(* A read that fails, or is interrupted, ends the loop like the file's end. *)
GetRead ==
  /\ pc = "read"
  /\ \E chunk \in {Piece(files[filePath].data, offset + 1, CHUNK)} :
       \/ /\ chunk # << >>
          /\ readBuffer' = chunk
          /\ offset' = offset + Len(chunk)
          /\ pc' = "print"
          /\ UNCHANGED readFailed
       \/ /\ pc' = "ok"
          /\ readFailed' = (chunk # << >>)
          /\ UNCHANGED <<readBuffer, offset>>
  /\ UNCHANGED <<files, command, history, printed, remembered>>

Printed(n) == printed' = printed \o SubSeq(readBuffer, 1, n)

GetPrint ==
  /\ pc = "print"
  /\ \/ \E n \in 1 .. Len(readBuffer) :
          /\ Printed(n)
          /\ readBuffer' = SubSeq(readBuffer, n + 1, Len(readBuffer))
          /\ pc' = IF n = Len(readBuffer) THEN "read" ELSE "print"
     \/ /\ pc' = "failed"
        /\ UNCHANGED <<readBuffer, printed>>
  /\ UNCHANGED <<files, command, offset, history, readFailed, remembered>>

Killed ==
  /\ pc \notin Ended
  /\ pc' = "killed"
  /\ UNCHANGED <<files, command, offset, readBuffer, history, printed, readFailed, remembered>>

Next == \/ \E input \in Inputs : Start(input)
        \/ Command \/ Content \/ Set \/ SetWrite
        \/ Get \/ GetRead \/ GetPrint \/ Killed

Spec == Init /\ [][Next]_vars

----------------------------------------------------------------------------
(* "A get/set memory abstraction for files": a get with exit code 0 prints  *)
(* exactly what the last set of the file was given, whatever runs came      *)
(* between, unless a set broke off since or a read of the file failed.      *)
Remembers ==
  pc = "ok" /\ given[1] = "get" /\ ~readFailed =>
    /\ printed = files[filePath].data
    /\ remembered[filePath] # None => printed = remembered[filePath].data

(* A run that does not say OK has changed nothing, or it is a set that      *)
(* broke off after open: then its file holds the beginning of its content.  *)
(* "Invalid Command" and gets never change anything.                        *)
FailuresKeepPrefix ==
  /\ pc \in {"invalid", "get", "read", "print"} => files = before
  /\ pc \in {"failed", "killed"} =>
       \A f \in Names : \/ files[f] = before[f]
                        \/ /\ f = filePath /\ files[f].kind = "file"
                           /\ IsPrefix(files[f].data, dataBuffer)
=============================================================================
