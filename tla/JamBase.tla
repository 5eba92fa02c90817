------------------------------- MODULE JamBase -------------------------------
(***************************************************************************)
(* A JAM message base (lib/jammsg.c) and the programs that share it: the   *)
(* tosser and the editors that add messages, a BBS user who reads and      *)
(* deletes, and ftnmsg, which kills old messages and packs the base.  They *)
(* exclude each other with a lock on a byte of the .jhr file; reading      *)
(* takes no lock.  A pack writes new files and renames them over the old   *)
(* ones, which those who opened the base before keep open.                 *)
(***************************************************************************)
EXTENDS Integers, Sequences, FiniteSets

CONSTANTS
  Proc,      \* processes
  Jobs,      \* per process: what it may be asked to do
  Already,   \* how many messages are there at first
  MaxMsgs,   \* bound: messages
  MaxFiles,  \* bound: generations of the files
  MaxJobs,   \* bound: jobs
  MaxKills,  \* bound: processes that are killed
  Wide       \* 2^32: a count is an unsigned int

Job == {"add", "read", "delete", "kill", "pack"}

\* One ftnmsg packs; two would share the names of the temporary files.
ASSUME JobsKnown ==
  /\ Jobs \in [Proc -> SUBSET Job] /\ IsFiniteSet(Proc)
  /\ \A p, q \in Proc : "pack" \in Jobs[p] /\ "pack" \in Jobs[q] => p = q
ASSUME BoundsKnown ==
  /\ {Already, MaxMsgs, MaxJobs, MaxKills} \subseteq Nat /\ {MaxFiles, Wide} \subseteq Nat \ {0}
  /\ Already <= MaxMsgs /\ MaxMsgs < Wide

Free == "free"
ASSUME FreeKnown == Free \notin Proc

VARIABLES
  jhr,      \* per file: the number of active messages it names, and its headers
  rest,     \* per set of .jdt, .jdx and .jlr: the index, and what each user read last
  name,     \* the files that have the names of the base, 0 for none
  lock,     \* per .jhr: who holds its lock
  proc,
  files,    \* files that were made so far
  ids,      \* messages that were begun
  jobs, kills,
  \* history
  stored, deleted,  \* messages that were written to their end, and deleted
  shown,    \* per process: the latest message it showed
  strayed,  \* messages written to files a pack takes or took away
  cut,      \* the .jhr files in which a change was broken off, or a message deleted that is not there
  crossed,  \* files that were changed together with files of another generation
  torn,     \* a pack was killed while it renamed
  mistaken  \* a message got a number or an index that is not its place, or one was found that is not there

base == <<jhr, rest, name, lock>>
history == <<stored, deleted, shown, strayed, cut, crossed, torn, mistaken>>
vars == <<base, proc, files, ids, jobs, kills, history>>

Msg == 1..MaxMsgs
File == 1..MaxFiles

\* A header; tail: what follows it is counted nowhere, its message was not written to the end.
Header == [num : Nat, id : Msg, del : BOOLEAN, tail : BOOLEAN]

\* "found": the message is on the screen; "indexed": its index is written, not its header;
\* "half": not its text; "full": not the count; "gone": deleted, not the count; then the steps
\* of a pack.
Place == {"off", "header", "open", "found", "locked", "indexed", "half", "full", "gone",
          "packed", "unlinkhdr", "renamehdr", "unlinkrest", "renamerest"}

\* cached is jamHdrInfo.ActiveMsgs, num and id the message on the screen (LastNum; 0: one that
\* is not there), top
\* MsgBase.Highest of a user, next the number of a message to come, new the files a pack made.
ProcType == [at : Place, job : Job \union {"none"}, hdr : 0..MaxFiles, rest : 0..MaxFiles,
             cached : 0..(Wide - 1), num : Nat, id : 0..MaxMsgs, top : Nat, next : Nat,
             new : 0..MaxFiles]

\* Between JAM_Lock and JAM_UnLock, or the close, the process holds the lock of the header file
\* it has open, and nobody else does.
Holding == {"locked", "indexed", "half", "full", "gone", "packed"}
LockHeld == \A p \in Proc, f \in File : lock[f] = p <=> proc[p].hdr = f /\ proc[p].at \in Holding

TypeOK ==
  /\ jhr \in [File -> [active : 0..(Wide - 1), msgs : Seq(Header)]]
  /\ rest \in [File -> [idx : Seq(Nat), high : [Proc -> Nat]]]
  /\ name \in [{"hdr", "rest"} -> 0..MaxFiles] /\ lock \in [File -> Proc \union {Free}]
  /\ proc \in [Proc -> ProcType] /\ files \in 1..MaxFiles
  /\ ids \in 0..MaxMsgs /\ jobs \in 0..MaxJobs /\ kills \in 0..MaxKills
  /\ {stored, deleted, strayed} \subseteq SUBSET Msg /\ shown \in [Proc -> 0..MaxMsgs]
  /\ {cut, crossed} \subseteq SUBSET File /\ torn \in BOOLEAN /\ mistaken \in BOOLEAN
  /\ LockHeld

Blank == [active |-> 0, msgs |-> <<>>]
BlankRest == [idx |-> <<>>, high |-> [p \in Proc |-> 0]]

Init ==
  /\ jhr = [f \in File |-> IF f = 1 THEN [active |-> Already,
                                          msgs |-> [i \in 1..Already |-> [num |-> i, id |-> i, del |-> FALSE, tail |-> FALSE]]]
                           ELSE Blank]
  /\ rest = [f \in File |-> IF f = 1 THEN [BlankRest EXCEPT !.idx = [i \in 1..Already |-> i]] ELSE BlankRest]
  /\ name = [k \in {"hdr", "rest"} |-> 1] /\ lock = [f \in File |-> Free]
  /\ proc = [p \in Proc |-> [at |-> "off", job |-> "none", hdr |-> 0, rest |-> 0, cached |-> 0, num |-> 0, id |-> 0, top |-> 0, next |-> 0, new |-> 0]]
  /\ files = 1 /\ ids = Already /\ jobs = 0 /\ kills = 0
  /\ stored = 1..Already /\ deleted = {} /\ shown = [p \in Proc |-> 0] /\ strayed = {}
  /\ cut = {} /\ crossed = {} /\ torn = FALSE /\ mistaken = FALSE

(***************************************************************************)
(* What a process finds through the files it has open.                     *)
(***************************************************************************)
Headers(p) == jhr[proc[p].hdr].msgs
Index(p) == rest[proc[p].rest].idx

\* The index is searched from its beginning for a message that is not deleted.
Finds(p, n, i) ==
  /\ Index(p)[i] \in DOMAIN Headers(p) /\ ~ Headers(p)[Index(p)[i]].del
  /\ Headers(p)[Index(p)[i]].num = n
JAM_ReadHeader(p, n) ==
  {Index(p)[i] : i \in {i \in DOMAIN Index(p) : Finds(p, n, i) /\ \A k \in 1..(i - 1) : ~ Finds(p, n, k)}}

\* A read behind the end of the headers leaves in jamHdr what the process read before, here or
\* in another area: a search that meets such an index first may take that for its message.
Phantom(p) == Index(p) # <<>> /\ Index(p)[1] \notin DOMAIN Headers(p)

\* The number in the last header, 0 if the count that was read with the files says there is
\* none, and any number when the last index names no header.
HighestOf(r) ==
  LET idx == rest[r.rest].idx
      msgs == jhr[r.hdr].msgs
      last == idx[Len(idx)]
  IN IF r.cached = 0 \/ idx = <<>> THEN {0}
     ELSE IF last \in DOMAIN msgs THEN {msgs[last].num} ELSE 0..MaxMsgs

JAM_Highest(p) == HighestOf(proc[p])

(***************************************************************************)
(* Opening, locking and closing.                                           *)
(***************************************************************************)
Closed(p) == [proc[p] EXCEPT !.at = "off", !.hdr = 0, !.rest = 0, !.cached = 0, !.new = 0]
JAM_Close(p) == proc' = [proc EXCEPT ![p] = Closed(p)]
Go(p, at) == proc' = [proc EXCEPT ![p].at = at]
Unlocked(p) == [f \in File |-> IF lock[f] = p THEN Free ELSE lock[f]]
NoHistory == UNCHANGED history
Bounds == UNCHANGED <<files, ids, jobs, kills>>

\* The files are opened one after the other, and made when they are not there.  Nothing is read
\* in an area that was empty when it was selected (MsgBase.Total); the message that is deleted
\* is the one on the screen.
OpenHeader(p, j) ==
  /\ proc[p].at = "off" /\ j \in Jobs[p] /\ jobs < MaxJobs /\ jobs' = jobs + 1
  /\ (j = "read" => proc[p].top # 0) /\ (j = "delete" => proc[p].num # 0)
  /\ \/ /\ name["hdr"] # 0 /\ UNCHANGED <<jhr, name, files>>
        /\ proc' = [proc EXCEPT ![p] = [@ EXCEPT !.at = "header", !.job = j, !.hdr = name["hdr"],
                                                !.cached = jhr[name["hdr"]].active]]
     \/ /\ name["hdr"] = 0 /\ files < MaxFiles /\ files' = files + 1
        /\ jhr' = [jhr EXCEPT ![files + 1] = Blank] /\ name' = [name EXCEPT !["hdr"] = files + 1]
        /\ proc' = [proc EXCEPT ![p] = [@ EXCEPT !.at = "header", !.job = j, !.hdr = files + 1]]
  /\ NoHistory /\ UNCHANGED <<rest, lock, ids, kills>>

OpenRest(p) ==
  /\ proc[p].at = "header"
  /\ \/ /\ name["rest"] # 0 /\ UNCHANGED <<name, files>>
        /\ proc' = [proc EXCEPT ![p] = [@ EXCEPT !.at = "open", !.rest = name["rest"]]]
     \/ /\ name["rest"] = 0 /\ files < MaxFiles /\ files' = files + 1
        /\ name' = [name EXCEPT !["rest"] = files + 1]
        /\ proc' = [proc EXCEPT ![p] = [@ EXCEPT !.at = "open", !.rest = files + 1]]
  /\ NoHistory /\ UNCHANGED <<jhr, rest, lock, ids, jobs, kills>>

\* Mutant: the lock is taken whoever holds it.
JAM_LockAnyway(p) ==
  /\ proc[p].at \in {"open", "found"} /\ (proc[p].job = "read" => proc[p].at = "found")
  /\ lock' = [lock EXCEPT ![proc[p].hdr] = p] /\ Go(p, "locked")
  /\ NoHistory /\ Bounds /\ UNCHANGED <<jhr, rest, name>>

JAM_Lock(p) ==
  /\ proc[p].at \in {"open", "found"} /\ (proc[p].job = "read" => proc[p].at = "found")
  /\ lock[proc[p].hdr] = Free
  /\ lock' = [lock EXCEPT ![proc[p].hdr] = p] /\ Go(p, "locked")
  /\ NoHistory /\ Bounds /\ UNCHANGED <<jhr, rest, name>>

\* After thirty seconds of attempts the caller closes the base and does without.
LockFails(p) ==
  /\ proc[p].at \in {"open", "found"} /\ lock[proc[p].hdr] # Free
  /\ JAM_Close(p) /\ NoHistory /\ Bounds /\ UNCHANGED base

(***************************************************************************)
(* Adding, reading and deleting.                                           *)
(***************************************************************************)
At(p, at, j) == proc[p].at = at /\ proc[p].job = j
Crossing(p) == crossed' = IF proc[p].hdr # proc[p].rest THEN crossed \union {proc[p].hdr, proc[p].rest} ELSE crossed

\* The pack has given the lock back and the old file may still be found, or is gone.
Passed(p) == proc[p].hdr # name["hdr"] \/ \E k \in Proc : proc[k].at \in {"unlinkhdr", "renamehdr"}

\* JAM_AddMsg: the index, a first header, then the text and the header again, then the count.
AddIndex(p) ==
  /\ At(p, "locked", "add") /\ ids < MaxMsgs
  /\ rest' = [rest EXCEPT ![proc[p].rest].idx = Append(@, Len(Headers(p)) + 1)]
  /\ \E h \in JAM_Highest(p) :
       /\ proc' = [proc EXCEPT ![p] = [@ EXCEPT !.at = "indexed", !.next = h + 1]]
       /\ mistaken' = (mistaken \/ {h, Len(Index(p))} # {Len(Headers(p))})
  /\ Crossing(p)
  /\ Bounds /\ UNCHANGED <<jhr, name, lock, stored, deleted, shown, strayed, cut, torn>>

AddBegin(p) ==
  LET new == [num |-> proc[p].next, id |-> ids + 1, del |-> FALSE, tail |-> TRUE]
  IN /\ proc[p].at = "indexed" /\ ids < MaxMsgs /\ ids' = ids + 1 /\ Go(p, "half")
     /\ jhr' = [jhr EXCEPT ![proc[p].hdr].msgs = Append(@, new)]
     /\ NoHistory /\ UNCHANGED <<rest, name, lock, files, jobs, kills>>

AddEnd(p) ==
  LET last == Len(Headers(p))
  IN /\ proc[p].at = "half" /\ Go(p, "full")
     /\ jhr' = [jhr EXCEPT ![proc[p].hdr].msgs[last].tail = FALSE]
     /\ stored' = stored \union {Headers(p)[last].id}
     /\ strayed' = IF Passed(p) THEN strayed \union {Headers(p)[last].id} ELSE strayed
     /\ Bounds /\ UNCHANGED <<rest, name, lock, deleted, shown, cut, crossed, torn, mistaken>>

AddCount(p) ==
  /\ proc[p].at = "full" /\ JAM_Close(p) /\ lock' = Unlocked(p)
  /\ jhr' = [jhr EXCEPT ![proc[p].hdr].active = (@ + 1) % Wide]
  /\ NoHistory /\ Bounds /\ UNCHANGED <<rest, name>>

\* A user selects the area: it is opened, asked for its highest number, and closed.
SetMsgArea(p) ==
  /\ proc[p].at = "off" /\ "read" \in Jobs[p] /\ name["hdr"] # 0 /\ name["rest"] # 0
  /\ LET opened == [proc[p] EXCEPT !.hdr = name["hdr"], !.rest = name["rest"], !.cached = jhr[name["hdr"]].active]
     IN \E h \in HighestOf(opened) : proc' = [proc EXCEPT ![p].top = h]
  /\ NoHistory /\ Bounds /\ UNCHANGED base

\* A message is shown without the lock, and the files stay open while the user reads.
Show(p, n) ==
  /\ At(p, "open", "read")
  /\ \E i \in JAM_ReadHeader(p, n) :
       /\ proc' = [proc EXCEPT ![p] = [@ EXCEPT !.at = "found", !.num = n, !.id = Headers(p)[i].id]]
       /\ shown' = [shown EXCEPT ![p] = IF @ < Headers(p)[i].id THEN Headers(p)[i].id ELSE @]
  /\ Bounds /\ UNCHANGED <<base, stored, deleted, strayed, cut, crossed, torn, mistaken>>

ShowPhantom(p, n) ==
  /\ At(p, "open", "read") /\ Phantom(p)
  /\ proc' = [proc EXCEPT ![p] = [@ EXCEPT !.at = "found", !.num = n, !.id = 0]]
  /\ mistaken' = TRUE
  /\ Bounds /\ UNCHANGED <<base, stored, deleted, shown, strayed, cut, crossed, torn>>

ShowNone(p) ==
  /\ At(p, "open", "read") /\ \A n \in 1..MaxMsgs : JAM_ReadHeader(p, n) = {}
  /\ JAM_Close(p) /\ NoHistory /\ Bounds /\ UNCHANGED base

\* The pointer behind what the user has seen.  It is held down to the highest number there was
\* when the area was selected, but not where there is no pointer of the user yet.
MarkRead(p) ==
  /\ At(p, "locked", "read") /\ JAM_Close(p) /\ lock' = Unlocked(p)
  /\ LET old == rest[proc[p].rest].high[p]
         high == IF old < proc[p].num THEN proc[p].num ELSE old
     IN \E h \in {IF high > proc[p].top THEN proc[p].top ELSE high} \union (IF old = 0 THEN {high} ELSE {}) :
          rest' = [rest EXCEPT ![proc[p].rest].high[p] = h]
  /\ Crossing(p)
  /\ Bounds /\ UNCHANGED <<jhr, name, stored, deleted, shown, strayed, cut, torn, mistaken>>

\* By its number; ftnmsg goes through the base by age.
JAM_Delete(p, n) ==
  /\ At(p, "locked", "kill") \/ (At(p, "locked", "delete") /\ n = proc[p].num)
  /\ \E i \in JAM_ReadHeader(p, n) :
       /\ jhr' = [jhr EXCEPT ![proc[p].hdr].msgs[i].del = TRUE]
       /\ deleted' = deleted \union {Headers(p)[i].id}
  /\ Go(p, "gone")
  /\ Bounds /\ UNCHANGED <<rest, name, lock, stored, shown, strayed, cut, crossed, torn, mistaken>>

\* A header that is not there is written deleted where its index says, behind the others; it is
\* counted here as a message of its own.
DeletePhantom(p, n) ==
  /\ At(p, "locked", "kill") \/ (At(p, "locked", "delete") /\ n = proc[p].num)
  /\ Phantom(p) /\ ids < MaxMsgs /\ ids' = ids + 1 /\ Go(p, "gone")
  /\ \E t \in BOOLEAN :
       jhr' = [jhr EXCEPT ![proc[p].hdr].msgs = Append(@, [num |-> n, id |-> ids + 1, del |-> TRUE, tail |-> t])]
  /\ deleted' = deleted \union {ids + 1} /\ cut' = cut \union {proc[p].hdr} /\ mistaken' = TRUE
  /\ Crossing(p)
  /\ UNCHANGED <<rest, name, lock, files, jobs, kills, stored, shown, strayed, torn>>

DeleteCount(p) ==
  /\ proc[p].at = "gone"
  /\ jhr' = [jhr EXCEPT ![proc[p].hdr].active = (@ + Wide - 1) % Wide]
  /\ IF proc[p].job = "kill" THEN Go(p, "locked") /\ UNCHANGED lock
     ELSE JAM_Close(p) /\ lock' = Unlocked(p)
  /\ NoHistory /\ Bounds /\ UNCHANGED <<rest, name>>

DeleteEnd(p) ==
  /\ \/ At(p, "locked", "kill")
     \/ (At(p, "locked", "delete") /\ JAM_ReadHeader(p, proc[p].num) = {})
  /\ JAM_Close(p) /\ lock' = Unlocked(p) /\ NoHistory /\ Bounds /\ UNCHANGED <<jhr, rest, name>>

(***************************************************************************)
(* JAM_Pack.                                                               *)
(***************************************************************************)

\* The headers are read one behind the other.  Behind a message that was not written to
\* its end there is no header; the index tells where the next one is, and it is believed
\* when the number there is its place in the file.
Readable(p, i) ==
  \/ i = 1 \/ ~ Headers(p)[i - 1].tail
  \/ i \in DOMAIN Index(p) /\ Index(p)[i] = i /\ Headers(p)[i].num = i
Reached(p) == {i \in DOMAIN Headers(p) : \A k \in 1..i : Readable(p, k)}

\* How many active messages there are up to the i-th, which is the new number.
NewNumber(p, i) == Cardinality({k \in 1..i : ~ Headers(p)[k].del})

\* Mutant: the pointers to deleted messages stay as they are.
MovedActive(p) ==
  LET moved[i \in 0..Cardinality(Reached(p))] ==
        IF i = 0 THEN rest[proc[p].rest].high
        ELSE [u \in Proc |-> IF moved[i - 1][u] = Headers(p)[i].num /\ ~ Headers(p)[i].del THEN NewNumber(p, i) ELSE moved[i - 1][u]]
  IN moved[Cardinality(Reached(p))]

\* The pointers follow their messages, one message after the other.
Moved(p) ==
  LET moved[i \in 0..Cardinality(Reached(p))] ==
        IF i = 0 THEN rest[proc[p].rest].high
        ELSE [u \in Proc |-> IF moved[i - 1][u] = Headers(p)[i].num THEN NewNumber(p, i) ELSE moved[i - 1][u]]
  IN moved[Cardinality(Reached(p))]

\* The messages that are not deleted, each at the place of its new number.
Packed(p) ==
  LET kept == {i \in Reached(p) : ~ Headers(p)[i].del}
      Of(n) == CHOOSE i \in kept : NewNumber(p, i) = n
  IN [n \in 1..Cardinality(kept) |-> [Headers(p)[Of(n)] EXCEPT !.num = n, !.tail = FALSE]]

\* Mutant: the count is copied.
PackedCountAsIs(p, panic) == jhr[proc[p].hdr].active

\* The count is put right unless nothing was written, or an error was found.
PackedCount(p, panic) ==
  IF panic \/ Packed(p) = <<>> THEN jhr[proc[p].hdr].active ELSE Len(Packed(p))

\* What follows the last message may be shorter than a header, and is not noticed then.  The
\* pointers are changed in the old file, and copied to the new one.
PackCopy(p, short) ==
  LET len == Len(Headers(p))
      panic == Cardinality(Reached(p)) < len \/ (len > 0 /\ Headers(p)[len].tail /\ ~short)
      count == PackedCount(p, panic)
      new == files + 1
  IN /\ At(p, "locked", "pack") /\ files < MaxFiles /\ files' = new
     /\ jhr' = [jhr EXCEPT ![new] = [active |-> count, msgs |-> Packed(p)]]
     /\ rest' = [rest EXCEPT ![proc[p].rest].high = Moved(p),
                             ![new] = [idx |-> [i \in DOMAIN Packed(p) |-> i],
                                       high |-> [u \in Proc |-> IF Moved(p)[u] > count THEN count ELSE Moved(p)[u]]]]
     /\ proc' = [proc EXCEPT ![p] = [@ EXCEPT !.at = "packed", !.new = new]]
     /\ cut' = IF proc[p].hdr \in cut /\ (panic \/ Packed(p) = <<>>) THEN cut \union {new} ELSE cut
     /\ crossed' = IF proc[p].hdr # proc[p].rest \/ {proc[p].hdr, proc[p].rest} \intersect crossed # {}
                   THEN crossed \union {proc[p].hdr, proc[p].rest, new} ELSE crossed
     /\ UNCHANGED <<name, lock, ids, jobs, kills, stored, deleted, shown, strayed, torn, mistaken>>

Unlink(p, k, at, next) ==
  /\ proc[p].at = at /\ name' = [name EXCEPT ![k] = 0] /\ Go(p, next)
  /\ NoHistory /\ Bounds /\ UNCHANGED <<jhr, rest, lock>>

\* With the old files the lock goes.
PackClose(p) ==
  /\ proc[p].at = "packed" /\ lock' = Unlocked(p)
  /\ proc' = [proc EXCEPT ![p] = [@ EXCEPT !.at = "unlinkhdr", !.hdr = 0, !.rest = 0]]
  /\ NoHistory /\ Bounds /\ UNCHANGED <<jhr, rest, name>>

\* A file that was made under the name meanwhile is replaced, too.
Rename(p, k, at) ==
  /\ proc[p].at = at /\ name' = [name EXCEPT ![k] = proc[p].new]
  /\ IF k = "hdr" THEN Go(p, "unlinkrest") ELSE JAM_Close(p)
  /\ NoHistory /\ Bounds /\ UNCHANGED <<jhr, rest, lock>>

PackReplace(p) ==
  \/ Unlink(p, "hdr", "unlinkhdr", "renamehdr") \/ Rename(p, "hdr", "renamehdr")
  \/ Unlink(p, "rest", "unlinkrest", "renamerest") \/ Rename(p, "rest", "renamerest")

(***************************************************************************)
(* A signal ends a process wherever it is; the next one of its kind has    *)
(* nothing on the screen and no area selected.                             *)
(***************************************************************************)
Kill(p) ==
  /\ proc[p].at # "off" /\ kills < MaxKills /\ kills' = kills + 1
  /\ lock' = Unlocked(p) /\ proc' = [proc EXCEPT ![p] = [Closed(p) EXCEPT !.num = 0, !.id = 0, !.top = 0]]
  /\ \/ proc[p].at # "half" /\ UNCHANGED jhr
     \/ proc[p].at = "half" /\ \E t \in BOOLEAN : jhr' = [jhr EXCEPT ![proc[p].hdr].msgs[Len(Headers(p))].tail = t]
  /\ cut' = IF proc[p].at \in {"indexed", "half", "full", "gone"} THEN cut \union {proc[p].hdr} ELSE cut
  /\ torn' = (torn \/ proc[p].at \in {"renamehdr", "unlinkrest", "renamerest"})
  /\ UNCHANGED <<rest, name, files, ids, jobs, stored, deleted, shown, strayed, crossed, mistaken>>

Next ==
  \E p \in Proc :
    \/ \E j \in Job : OpenHeader(p, j)
    \/ OpenRest(p) \/ JAM_Lock(p) \/ LockFails(p)
    \/ AddIndex(p) \/ AddBegin(p) \/ AddEnd(p) \/ AddCount(p)
    \/ \E n \in Msg : Show(p, n) \/ ShowPhantom(p, n) \/ JAM_Delete(p, n) \/ DeletePhantom(p, n)
    \/ SetMsgArea(p) \/ ShowNone(p) \/ MarkRead(p) \/ DeleteCount(p) \/ DeleteEnd(p)
    \/ \E short \in BOOLEAN : PackCopy(p, short)
    \/ PackClose(p) \/ PackReplace(p) \/ Kill(p)

Spec == Init /\ [][Next]_vars

(***************************************************************************)
(* Properties.                                                             *)
(***************************************************************************)

\* The header file that has the name, or is about to get it from a pack.
Current ==
  IF \E k \in Proc : proc[k].at = "renamehdr"
  THEN proc[CHOOSE k \in Proc : proc[k].at = "renamehdr"].new ELSE name["hdr"]
Ids(f) == {jhr[f].msgs[i].id : i \in DOMAIN jhr[f].msgs}

\* Adding, deleting and packing in any order loses no message: what was stored and not
\* deleted is in the base, but for messages that were written to files a pack took away,
\* and unless a process was killed while it wrote a message or renamed the files.
MessagesKept ==
  torn \/ cut # {} \/ stored \ (deleted \union strayed) \subseteq Ids(Current)

\* Between two changes the count in the header file is the number of its active messages,
\* whoever was killed elsewhere; where a change was broken off the next pack puts the count
\* right again.
CountTrue ==
  \A f \in 1..files : lock[f] = Free /\ f \notin cut =>
    jhr[f].active = Cardinality({i \in DOMAIN jhr[f].msgs : ~ jhr[f].msgs[i].del})

\* The index leads to every message of a file, also when an addition was broken off between
\* the index and the header, and where none was it names the headers in their order and no more.
IndexTrue ==
  \A f \in (1..files) \ crossed :
    /\ \A i \in DOMAIN jhr[f].msgs : \E k \in DOMAIN rest[f].idx : rest[f].idx[k] = i
    /\ lock[f] = Free /\ f \notin cut => rest[f].idx = [i \in DOMAIN jhr[f].msgs |-> i]

\* A message base that is added to, read and packed stays whole: the three above.
BaseSound == MessagesKept /\ CountTrue /\ IndexTrue

\* No message is taken for read that was not shown: what the pointer of a user has passed
\* came not later than the latest message that was shown, through every renumbering, unless a
\* number or an index was not the place of its message, a message was found that is not there,
\* or files of two generations were used together.
UnreadKept ==
  name["hdr"] = name["rest"] /\ name["hdr"] # 0 /\ crossed = {} /\ ~mistaken =>
    \A u \in Proc, i \in DOMAIN jhr[name["hdr"]].msgs :
      LET h == jhr[name["hdr"]].msgs[i]
      IN ~ h.del /\ h.num <= rest[name["hdr"]].high[u] => h.id <= shown[u]
=============================================================================
