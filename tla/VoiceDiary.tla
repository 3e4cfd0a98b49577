----------------------------- MODULE VoiceDiary -----------------------------
(***************************************************************************)
(* The voice diary (scripts/voice-diary-ingest.py): recordings that the    *)
(* phone mirrors into a drop directory become pairs of audio and           *)
(* transcript in an inbox.  Two runs may be at it: the timer's, over the   *)
(* drop directory, and a recovery that somebody starts, over the inbox's   *)
(* own audio.  A transcript that is there is the only mark of work done.   *)
(*                                                                         *)
(* Left out: the header of an entry, dotted paths, log and exit codes,     *)
(* filing a pair away from the inbox.                                      *)
(***************************************************************************)
EXTENDS Naturals, FiniteSets

CONSTANTS
  Name,       \* of files on the phone
  Recording,  \* what a file holds: a recording, as far as it had come
  Second,     \* modification times, which are the stamps too
  Kind,       \* suffixes
  Mp4,        \* those ffprobe is asked about
  Wordless,   \* recordings whisper makes no text of
  Unfoldable, \* recordings whose text tidy raises an IndexError on
  Truncated, Half, \* contents of a transcript and of audio while written
  Nothing

ASSUME VoiceAssumption ==
  /\ Mp4 \subseteq Kind /\ Wordless \cup Unfoldable \subseteq Recording
  /\ Second \subseteq Nat
  /\ Nothing \notin Recording /\ Truncated \notin Recording \cup {Nothing}
  /\ Nothing \notin [rec : Recording, at : Second] \cup {"md", "part", "gone"}
  /\ Nothing \notin Name /\ Nothing \notin Second \X Kind
  /\ Half \notin [rec : Recording, at : Second] \cup {Nothing}

Run == {"timer", "recovery"}
Key == Second \X Kind
Delivery == [name : Name, rec : Recording, at : Second, kind : Kind, whole : BOOLEAN]
Budgets ==
  [deliveries : SUBSET Delivery, deletes : Nat, kills : Nat, rebuilds : Nat, touches : Nat,
   recoveries : Nat]

VARIABLES
  drop,      \* name -> [rec, at, kind, whole, settled]
  audio,     \* <<stamp, kind>> -> [rec, at]
  md,        \* stamp -> whose transcript
  partAudio, \* the partial files of both
  partMd,
  runs,      \* the runs
  todo,      \* what the phone may still deliver, and budgets (bounds)
  taken,     \* (history) what the phone has delivered
  shared,    \* (history) stamps both runs were at
  swapped,   \* (history) stamps whose source changed under a run
  touched    \* (history) stamps whose audio got another time

historyVars == <<taken, shared, swapped, touched>>
vars == <<drop, audio, md, partAudio, partMd, runs, todo, historyVars>>

Idle == [pc |-> "idle", left |-> {}, src |-> Nothing, stamp |-> 0, kind |-> Nothing,
         text |-> Nothing, into |-> Nothing, copied |-> Nothing]

(* The recording a run has at hand, as it is now. *)
There(r, src) == IF r = "timer" THEN drop[src] # Nothing ELSE audio[src] # Nothing
File(r, src) ==
  IF r = "timer" THEN drop[src]
  ELSE [rec |-> audio[src].rec, at |-> audio[src].at, kind |-> src[2], whole |-> TRUE, settled |-> TRUE]
Ready(f) == f.whole \/ f.kind \notin Mp4
At(r) == runs[r].pc \notin {"idle", "next"}
-----------------------------------------------------------------------------
(* The phone, its user and time. *)

(* Syncthing puts a file, or a newer state of it, in its place. *)
Deliver(d) ==
  /\ d \in todo.deliveries
  /\ drop[d.name] # Nothing => drop[d.name].at < d.at
  /\ todo' = [todo EXCEPT !.deliveries = @ \ {d}]
  /\ drop' = [drop EXCEPT ![d.name] =
       [rec |-> d.rec, at |-> d.at, kind |-> d.kind, whole |-> d.whole, settled |-> FALSE]]
  /\ swapped' = IF At("timer") /\ runs["timer"].src = d.name
                THEN swapped \cup {runs["timer"].stamp} ELSE swapped
  /\ taken' = taken \cup {d}
  /\ UNCHANGED <<audio, md, partAudio, partMd, runs, shared, touched>>

DeleteOnPhone(n) ==
  /\ todo.deletes > 0
  /\ todo' = [todo EXCEPT !.deletes = @ - 1]
  /\ drop[n] # Nothing
  /\ drop' = [drop EXCEPT ![n] = Nothing]
  /\ UNCHANGED <<audio, md, partAudio, partMd, runs, historyVars>>

(* VOICE_DIARY_MIN_AGE passes. *)
Settle(n) ==
  /\ drop[n] # Nothing
  /\ ~drop[n].settled
  /\ drop' = [drop EXCEPT ![n].settled = TRUE]
  /\ UNCHANGED <<audio, md, partAudio, partMd, runs, todo, historyVars>>

(* "Delete a .md to force its rebuild": a run that still writes to it      *)
(* writes to no file.                                                      *)
Lose(s) == [r \in Run |->
  IF runs[r].into = "md" /\ runs[r].stamp = s THEN [runs[r] EXCEPT !.into = "gone"] ELSE runs[r]]
DeleteTranscript(s) ==
  /\ todo.rebuilds > 0
  /\ todo' = [todo EXCEPT !.rebuilds = @ - 1]
  /\ md[s] # Nothing
  /\ md' = [md EXCEPT ![s] = Nothing]
  /\ runs' = Lose(s)
  /\ UNCHANGED <<drop, audio, partAudio, partMd, historyVars>>

(* Something rewrites the modification time of archived audio. *)
Touch(key, at) ==
  /\ todo.touches > 0
  /\ todo' = [todo EXCEPT !.touches = @ - 1]
  /\ audio[key] # Nothing
  /\ audio' = [audio EXCEPT ![key].at = at]
  /\ touched' = touched \cup {key[1]}
  /\ UNCHANGED <<drop, md, partAudio, partMd, runs, taken, shared, swapped>>
-----------------------------------------------------------------------------
(* A run. *)

KeepsAll(r) == [runs[r] EXCEPT !.pc = "next"]
Onward(r) == [Idle EXCEPT !.pc = "next", !.left = runs[r].left]
Put(r, rec) == runs' = [runs EXCEPT ![r] = rec]

(* main: the files that are there, to be taken oldest first.  A recovery   *)
(* is started when the timer's run is not active.                          *)
Begin(r) ==
  /\ runs[r].pc = "idle"
  /\ r = "recovery" => todo.recoveries > 0 /\ runs["timer"].pc = "idle"
  /\ todo' = IF r = "recovery" THEN [todo EXCEPT !.recoveries = @ - 1] ELSE todo
  /\ Put(r, [Idle EXCEPT !.pc = "next",
       !.left = {<<src, File(r, src).at>> : src \in
                   {n \in (IF r = "timer" THEN Name ELSE Key) : There(r, n)}}])
  /\ UNCHANGED <<drop, audio, md, partAudio, partMd, historyVars>>

End(r) ==
  /\ runs[r].pc = "next"
  /\ runs[r].left = {}
  /\ Put(r, Idle)
  /\ UNCHANGED <<drop, audio, md, partAudio, partMd, todo, historyVars>>

(* process, up to the request: a file that has gone is a failure, one that *)
(* is done or not ready is not, and either way the run goes on.            *)
DoneOrBegun(s) == md[s] # Nothing \/ partMd[s] # Nothing
Done(s) == md[s] # Nothing
AnyName(r, src) == TRUE
OwnName(r, src) == r = "recovery" => src[1] = File(r, src).at
MayTranscribe(r, src) == r = "timer" => File(r, src).settled /\ Ready(File(r, src))
Pick(r, one) ==
  /\ runs[r].pc = "next"
  /\ one \in runs[r].left
  /\ \A other \in runs[r].left : one[2] <= other[2]
  /\ LET src == one[1]
         rest == [runs[r] EXCEPT !.left = @ \ {one}]
     IN  IF There(r, src) /\ ~Done(File(r, src).at) /\ OwnName(r, src) /\ MayTranscribe(r, src)
         THEN LET f == File(r, src) IN
              /\ Put(r, [rest EXCEPT !.pc = "transcribe", !.src = src, !.stamp = f.at, !.kind = f.kind])
              /\ shared' = shared \cup {s \in {f.at} :
                   \E other \in Run \ {r} : At(other) /\ runs[other].stamp = s}
         ELSE Put(r, rest) /\ shared' = shared
  /\ UNCHANGED <<drop, audio, md, partAudio, partMd, todo, taken, swapped, touched>>

(* Whatever is raised from here on, the recording is left for another run. *)
GiveUp(r) ==
  /\ runs[r].pc \in {"transcribe", "open", "audio", "copy"} /\ ~There(r, runs[r].src)
  /\ runs[r].pc = "audio" => audio[<<runs[r].stamp, runs[r].kind>>] = Nothing
  /\ Put(r, Onward(r))
  /\ UNCHANGED <<drop, audio, md, partAudio, partMd, todo, historyVars>>
WhisperFails(r) ==
  /\ runs[r].pc = "transcribe" /\ There(r, runs[r].src)
  /\ Put(r, Onward(r))
  /\ UNCHANGED <<drop, audio, md, partAudio, partMd, todo, historyVars>>

(* The file is read and sent, and the answer made into text; whisper makes *)
(* nothing of an open MP4.  What tidy raises main does not catch: the run  *)
(* is over, and every later one is when it comes to this recording.        *)
Transcribe(r) ==
  /\ runs[r].pc = "transcribe"
  /\ There(r, runs[r].src)
  /\ LET f == File(r, runs[r].src) IN
       /\ Ready(f) /\ f.rec \notin Wordless
       /\ Put(r, IF f.rec \in Unfoldable THEN Idle
                 ELSE [runs[r] EXCEPT !.pc = "open", !.text = f.rec])
  /\ UNCHANGED <<drop, audio, md, partAudio, partMd, todo, historyVars>>

(* write_text opens the partial transcript, then fills it. *)
OnePart(s) == 0
PartOf(s) == s
OpensTarget(r) ==
  /\ runs[r].pc = "open"
  /\ There(r, runs[r].src)
  /\ md' = [md EXCEPT ![runs[r].stamp] = Truncated]
  /\ Put(r, [runs[r] EXCEPT !.pc = "fill", !.into = "md"])
  /\ UNCHANGED <<drop, audio, partMd, partAudio, todo, historyVars>>
OpenMd(r) ==
  /\ runs[r].pc = "open"
  /\ There(r, runs[r].src)
  /\ partMd' = [partMd EXCEPT ![PartOf(runs[r].stamp)] = Truncated]
  /\ Put(r, [runs[r] EXCEPT !.pc = "fill", !.into = "part"])
  /\ UNCHANGED <<drop, audio, md, partAudio, todo, historyVars>>
FillMd(r) ==
  /\ runs[r].pc = "fill"
  /\ LET s == runs[r].stamp IN
       /\ partMd' = IF runs[r].into = "part" THEN [partMd EXCEPT ![PartOf(s)] = runs[r].text] ELSE partMd
       /\ md' = IF runs[r].into = "md" THEN [md EXCEPT ![s] = runs[r].text] ELSE md
  /\ Put(r, [runs[r] EXCEPT !.pc = "audio", !.into = Nothing])
  /\ UNCHANGED <<drop, audio, partAudio, todo, historyVars>>

(* Audio that is there already is not copied again.  copy2 copies the      *)
(* contents, then the times.                                               *)
NoAudioYet(r) == audio[<<runs[r].stamp, runs[r].kind>>] = Nothing
SkipsAlways(r) ==
  /\ runs[r].pc = "audio"
  /\ Put(r, [runs[r] EXCEPT !.pc = "renamemd"])
  /\ UNCHANGED <<drop, audio, md, partAudio, partMd, todo, historyVars>>
SkipAudio(r) ==
  /\ runs[r].pc = "audio"
  /\ ~NoAudioYet(r)
  /\ Put(r, [runs[r] EXCEPT !.pc = "renamemd"])
  /\ UNCHANGED <<drop, audio, md, partAudio, partMd, todo, historyVars>>
StartCopy(r) ==
  /\ runs[r].pc = "audio"
  /\ NoAudioYet(r)
  /\ There(r, runs[r].src)
  /\ partAudio' = [partAudio EXCEPT ![<<runs[r].stamp, runs[r].kind>>] = Half]
  /\ Put(r, [runs[r] EXCEPT !.pc = "copy", !.copied = File(r, runs[r].src).rec])
  /\ UNCHANGED <<drop, audio, md, partMd, todo, historyVars>>
TimeNow(r) == 0
TimeOfCopy(r) == File(r, runs[r].src).at
FinishCopy(r) ==
  /\ runs[r].pc = "copy"
  /\ There(r, runs[r].src)
  /\ partAudio' = [partAudio EXCEPT ![<<runs[r].stamp, runs[r].kind>>] =
       [rec |-> runs[r].copied, at |-> TimeOfCopy(r)]]
  /\ Put(r, [runs[r] EXCEPT !.pc = "renameaudio"])
  /\ UNCHANGED <<drop, audio, md, partMd, todo, historyVars>>
RenameAudio(r) ==
  /\ runs[r].pc = "renameaudio"
  /\ LET key == <<runs[r].stamp, runs[r].kind>> IN
       /\ audio' = [audio EXCEPT ![key] = partAudio[key]]
       /\ partAudio' = [partAudio EXCEPT ![key] = Nothing]
  /\ Put(r, [runs[r] EXCEPT !.pc = "renamemd"])
  /\ UNCHANGED <<drop, md, partMd, todo, historyVars>>

(* The transcript last.  A run that has the partial file open goes on      *)
(* writing to it under its new name.                                       *)
Follow(r, s) == [q \in Run |->
  IF q = r THEN Onward(r)
  ELSE IF runs[q].stamp = s /\ runs[q].into = "part" THEN [runs[q] EXCEPT !.into = "md"]
  ELSE IF runs[q].stamp = s /\ runs[q].into = "md" THEN [runs[q] EXCEPT !.into = "gone"]
  ELSE runs[q]]
RenameMd(r) ==
  /\ runs[r].pc = "renamemd"
  /\ LET s == runs[r].stamp IN
       IF partMd[PartOf(s)] = Nothing
       THEN Put(r, Onward(r)) /\ UNCHANGED <<md, partMd>>
       ELSE /\ md' = [md EXCEPT ![s] = partMd[PartOf(s)]]
            /\ partMd' = [partMd EXCEPT ![PartOf(s)] = Nothing]
            /\ runs' = Follow(r, s)
  /\ UNCHANGED <<drop, audio, partAudio, todo, historyVars>>

(* A kill, a reboot, the unit's time limit, or what main raises or does    *)
(* not catch, such as an answer of whisper that breaks off.                *)
KillRun(r) ==
  /\ todo.kills > 0
  /\ todo' = [todo EXCEPT !.kills = @ - 1]
  /\ runs[r].pc # "idle"
  /\ Put(r, Idle)
  /\ UNCHANGED <<drop, audio, md, partAudio, partMd, historyVars>>
-----------------------------------------------------------------------------
Init ==
  /\ todo \in Budgets
  /\ drop = [n \in Name |-> Nothing]
  /\ audio = [k \in Key |-> Nothing]
  /\ md = [s \in Second |-> Nothing]
  /\ partAudio = [k \in Key |-> Nothing]
  /\ partMd = [s \in Second |-> Nothing]
  /\ runs = [r \in Run |-> Idle]
  /\ taken = {} /\ shared = {} /\ swapped = {} /\ touched = {}

Step(r) ==
  \/ End(r) \/ (\E one \in runs[r].left : Pick(r, one)) \/ GiveUp(r)
  \/ OpenMd(r) \/ FillMd(r) \/ SkipAudio(r) \/ StartCopy(r) \/ FinishCopy(r)
  \/ RenameAudio(r) \/ RenameMd(r)
Answer(r) == WhisperFails(r) \/ Transcribe(r)

Next ==
  \/ \E d \in todo.deliveries : Deliver(d)
  \/ \E n \in Name : DeleteOnPhone(n) \/ Settle(n)
  \/ \E s \in Second : DeleteTranscript(s)
  \/ \E key \in Key, at \in Second : Touch(key, at)
  \/ \E r \in Run : Begin(r) \/ Step(r) \/ Answer(r) \/ KillRun(r)
(* The timer goes on, each recording that has words is answered in the     *)
(* end, and time passes.                                                   *)
Fair ==
  /\ WF_vars(Begin("timer")) /\ WF_vars(Step("timer")) /\ WF_vars(Answer("timer"))
  /\ \A n \in Name : /\ WF_vars(Settle(n))
                     /\ SF_vars(runs["timer"].src = n /\ Transcribe("timer"))

Spec == Init /\ [][Next]_vars /\ Fair
-----------------------------------------------------------------------------
(* Properties. *)

TypeOK ==
  /\ \A n \in Name : drop[n] # Nothing => drop[n].at \in Second /\ drop[n].kind \in Kind
  /\ \A s \in Second : md[s] \in Recording \cup {Truncated, Nothing}
  /\ \A k \in Key : audio[k] # Nothing => audio[k].rec \in Recording
  /\ \A r \in Run :
       /\ runs[r].pc \in {"idle", "next", "transcribe", "open", "fill", "audio", "copy",
                          "renameaudio", "renamemd"}
       /\ At(r) <=> runs[r].src # Nothing
       /\ runs[r].text # Nothing <=> runs[r].pc \in {"fill", "audio", "copy", "renameaudio", "renamemd", "open"}
       /\ runs[r].into # Nothing => runs[r].pc = "fill"

(* A transcript is only seen beside audio of its stamp, whenever a run is  *)
(* killed and whatever the other does: it is the mark that the recording   *)
(* need not be looked at again, and the phone may delete it (process).     *)
TranscriptHasAudio ==
  \A s \in Second : md[s] # Nothing => \E k \in Kind : audio[<<s, k>>] # Nothing

(* Two recordings of one second have one stamp. *)
Clash(s) == \E d, e \in taken : d.at = s /\ e.at = s /\ d.rec # e.rec

(* A pair is of one recording: the text is that of the audio beside it -   *)
(* but for recordings of one second, and one that changed between request  *)
(* and copy (process).                                                     *)
PairMatches ==
  \A s \in Second, k \in Kind :
    (md[s] \in Recording /\ audio[<<s, k>>] # Nothing /\ ~Clash(s) /\ s \notin swapped) =>
      audio[<<s, k>>].rec = md[s]

(* What has its final name is whole - "a partial file is never mistaken    *)
(* for done" - but for a transcript that two runs made at a time, which    *)
(* have one partial file (process).                                        *)
MarkerIsWhole ==
  /\ \A s \in Second : md[s] = Truncated => s \in shared
  /\ \A k \in Key : audio[k] # Half

(* A transcript that was deleted can be made again from the archive: the   *)
(* audio's time is still the stamp it is named by, unless somebody touched *)
(* it or it changed while it was copied (copy2, stamp_for).                *)
RecordingCanBeRebuilt ==
  \A key \in Key : (audio[key] # Nothing /\ key[1] \notin touched \cup swapped) =>
    audio[key].at = key[1]

(* A recovery refuses rather than file a recording under a second name     *)
(* (process).                                                              *)
OneEntryEach ==
  \A s, t \in Second \ swapped :
    (s # t /\ md[s] \in Recording) => md[s] # md[t]

(* A recording is behind one that tidy cannot fold, or is such a one.      *)
Behind(f) == \E n \in Name :
  LET g == drop[n] IN
    g # Nothing /\ Ready(g) /\ g.rec \in Unfoldable /\ g.at <= f.at /\ md[g.at] = Nothing

(* A recording that stays on the phone, can be played and has words is     *)
(* archived in the end, audio and transcript, through failures and kills - *)
(* unless it shares its second with another, or it or an older one on the  *)
(* phone is one that tidy cannot fold: there every run ends (main, tidy,   *)
(* process).                                                               *)
EveryRecordingArchived ==
  \A n \in Name :
    <>[](LET f == drop[n] IN
           (/\ f # Nothing /\ Ready(f) /\ f.rec \notin Wordless
            /\ ~Clash(f.at) /\ f.at \notin swapped /\ ~Behind(f)) =>
             md[f.at] # Nothing /\ audio[<<f.at, f.kind>>] # Nothing /\ audio[<<f.at, f.kind>>].rec = f.rec)

(* The pair in the inbox is whole and of one recording, and the time of    *)
(* the recording is the one name it has.                                   *)
PairSound == TypeOK /\ PairMatches /\ MarkerIsWhole
StampNamesIt == RecordingCanBeRebuilt /\ OneEntryEach
=============================================================================
