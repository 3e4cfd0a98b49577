-------------------------- MODULE VoiceDiaryProofs --------------------------
(***************************************************************************)
(* What VoiceDiary promises for any number of names, recordings, seconds   *)
(* and suffixes, and any budget of failures.                               *)
(*                                                                         *)
(* A transcript is never seen without audio of its stamp (IInv): nothing   *)
(* ever removes audio from the inbox, so it is enough to know, of each     *)
(* run, that there is audio under its stamp when it is about to rename the *)
(* transcript, or has one open that got its final name meanwhile.  That    *)
(* the timer's run has its copy to rename at all rests on the recovery     *)
(* never copying: what it works on is the audio itself.                    *)
(*                                                                         *)
(* What is found under a stamp was delivered under it (PairInv), so a pair *)
(* is of one recording; and a recording has one stamp (TimesInv).          *)
(***************************************************************************)
EXTENDS VoiceDiary, TLAPS

File0 == [rec : Recording, at : Second, kind : Kind, whole : BOOLEAN, settled : BOOLEAN]
Copy == [rec : Recording, at : Second]
Text == Recording \cup {Truncated, Nothing}
Sources(r) == IF r = "timer" THEN Name ELSE Key
RunState ==
  [pc : {"idle", "next", "transcribe", "open", "fill", "audio", "copy", "renameaudio", "renamemd"},
   left : SUBSET ((Name \cup Key) \X Second), src : Name \cup Key \cup {Nothing},
   stamp : Second \cup {0}, kind : Kind \cup {Nothing}, text : Text,
   into : {"md", "part", "gone", Nothing}, copied : Text]

FilesTyped ==
  /\ todo \in Budgets
  /\ drop \in [Name -> File0 \cup {Nothing}]
  /\ audio \in [Key -> Copy \cup {Nothing}]
  /\ md \in [Second -> Text]
  /\ partMd \in [Second -> Text]
  /\ partAudio \in [Key -> Copy \cup {Half, Nothing}]

(* A run works on a recording of its own kind, under a stamp. *)
RunTyped(r) ==
  /\ runs[r] \in RunState
  /\ runs[r].left \subseteq Sources(r) \X Second
  /\ At(r) => /\ runs[r].src \in Sources(r)
              /\ runs[r].stamp \in Second
              /\ runs[r].kind \in Kind
  /\ runs[r].pc = "copy" => runs[r].copied \in Recording

HasAudio(s) == \E k \in Kind : audio[<<s, k>>] # Nothing
AtAudio(r) == audio[<<runs[r].stamp, runs[r].kind>>] # Nothing

(* Where a run stands, audio is or is about to be. *)
RunKnows(r) ==
  /\ runs[r].pc = "renamemd" => AtAudio(r)
  /\ runs[r].into # Nothing => At(r)
  /\ runs[r].into = "md" => HasAudio(runs[r].stamp)
  /\ runs[r].pc = "renameaudio" => partAudio[<<runs[r].stamp, runs[r].kind>>] \in Copy
  /\ r = "recovery" /\ At(r) => AtAudio(r) /\ runs[r].pc \notin {"copy", "renameaudio"}

Runs == runs \in [Run -> RunState]
IInv ==
  /\ FilesTyped
  /\ Runs
  /\ \A r \in Run : RunTyped(r)
  /\ \A r \in Run : RunKnows(r)
  /\ TranscriptHasAudio
-----------------------------------------------------------------------------
(* The recording at hand has a type. *)
LEMMA FileTyped ==
  ASSUME FilesTyped, NEW r \in Run, NEW src \in Sources(r), There(r, src)
  PROVE  File(r, src) \in File0
<1>1. CASE r = "timer"
  BY <1>1 DEF FilesTyped, There, File, Sources
<1>2. CASE r # "timer"
  <2>1. src \in Key /\ audio[src] \in Copy
    BY <1>2 DEF FilesTyped, There, Sources
  <2>2. src[2] \in Kind
    BY <2>1 DEF Key
  <2> QED
    BY <1>2, <2>1, <2>2 DEF File, File0, Copy
<1> QED
  BY <1>1, <1>2

(* What a run knows stays true as long as it does nothing itself, audio    *)
(* stays, and the timer's copy is left alone.                              *)
AudioStays == \A key \in Key : audio[key] # Nothing => audio'[key] # Nothing

(* A run that does not move stays as it was while the audio does.          *)
LEMMA RunUndisturbed ==
  ASSUME IInv, AudioStays, NEW q \in Run, runs'[q] = runs[q],
         q = "timer" => UNCHANGED partAudio
  PROVE  RunTyped(q)' /\ RunKnows(q)'
<1>1. RunTyped(q) /\ RunKnows(q)
  BY DEF IInv
<1>2. RunTyped(q)'
  BY <1>1 DEF RunTyped, At
<1>3. \A s \in Second, k \in Kind : audio[<<s, k>>] # Nothing => audio'[<<s, k>>] # Nothing
  BY DEF AudioStays, Key
<1>4. At(q) => (AtAudio(q) => AtAudio(q)')
  BY <1>1, <1>3 DEF AtAudio, RunTyped
<1>5. At(q) => (HasAudio(runs[q].stamp) => HasAudio(runs[q].stamp)')
  BY <1>1, <1>3 DEF HasAudio, RunTyped
<1>6. RunKnows(q)'
  <2>1. runs[q].pc \in {"renamemd", "renameaudio"} => At(q)
    BY DEF At
  <2>2. (runs[q].pc = "renamemd" => AtAudio(q))'
    BY <1>1, <1>4, <2>1 DEF RunKnows
  <2>3. (runs[q].into # Nothing => At(q))' /\ (runs[q].into = "md" => HasAudio(runs[q].stamp))'
    BY <1>1, <1>5, VoiceAssumption DEF RunKnows, At, HasAudio
  <2>4. (runs[q].pc = "renameaudio" => partAudio[<<runs[q].stamp, runs[q].kind>>] \in Copy)'
    BY <1>1, <2>1 DEF RunKnows, Run
  <2>5. (q = "recovery" /\ At(q) => AtAudio(q) /\ runs[q].pc \notin {"copy", "renameaudio"})'
    BY <1>1, <1>4 DEF RunKnows, At
  <2> QED
    BY <2>2, <2>3, <2>4, <2>5 DEF RunKnows
<1> QED
  BY <1>2, <1>6

(* A step that adds no transcript without audio breaks no pair.            *)
LEMMA TranscriptsUndisturbed ==
  ASSUME IInv, AudioStays, \A s \in Second : md'[s] # Nothing => md[s] # Nothing \/ HasAudio(s)
  PROVE  TranscriptHasAudio'
<1>1. \A s \in Second : HasAudio(s) => HasAudio(s)'
  BY DEF HasAudio, AudioStays, Key
<1> QED
  BY <1>1 DEF IInv, TranscriptHasAudio, HasAudio

(* At the start there is nothing in the archive.                           *)
LEMMA InitIInv == Init => IInv
<1> SUFFICES ASSUME Init PROVE IInv
  OBVIOUS
<1> USE DEF Init
<1>1. FilesTyped
  BY DEF FilesTyped, Text
<1>2. Idle \in RunState
  BY DEF Idle, RunState, Text
<1>3. Runs
  BY <1>2 DEF Runs
<1>4. \A r \in Run : RunTyped(r)
  BY <1>2 DEF RunTyped, Idle, At, Sources
<1>5. \A r \in Run : RunKnows(r)
  BY VoiceAssumption DEF RunKnows, Idle, At
<1>6. TranscriptHasAudio
  BY DEF TranscriptHasAudio
<1> QED
  BY <1>1, <1>3, <1>4, <1>5, <1>6 DEF IInv
-----------------------------------------------------------------------------
(* The phone, its user and time. *)
LEMMA PhoneKeepsIInv ==
  ASSUME IInv,
         \/ \E d \in todo.deliveries : Deliver(d)
         \/ \E n \in Name : DeleteOnPhone(n) \/ Settle(n)
  PROVE  IInv'
<1>1. UNCHANGED <<audio, md, partAudio, partMd, runs>>
  BY DEF Deliver, DeleteOnPhone, Settle, historyVars
<1>2. FilesTyped'
  <2>1. ASSUME NEW d \in todo.deliveries, Deliver(d) PROVE FilesTyped'
    <3>1. d \in Delivery
      BY DEF IInv, FilesTyped, Budgets
    <3>2. todo' \in Budgets
      BY <2>1 DEF IInv, FilesTyped, Deliver, Budgets
    <3>3. drop' \in [Name -> File0 \cup {Nothing}]
      BY <2>1, <3>1 DEF IInv, FilesTyped, Deliver, Delivery, File0
    <3> QED
      BY <1>1, <3>2, <3>3 DEF IInv, FilesTyped
  <2>2. ASSUME NEW n \in Name, DeleteOnPhone(n) PROVE FilesTyped'
    BY <1>1, <2>2 DEF IInv, FilesTyped, DeleteOnPhone, Budgets
  <2>3. ASSUME NEW n \in Name, Settle(n) PROVE FilesTyped'
    <3>1. drop[n] \in File0 /\ [drop[n] EXCEPT !.settled = TRUE] \in File0
      BY <2>3 DEF IInv, FilesTyped, Settle, File0
    <3>2. drop' \in [Name -> File0 \cup {Nothing}]
      BY <2>3, <3>1 DEF IInv, FilesTyped, Settle
    <3> QED
      BY <1>1, <2>3, <3>2 DEF IInv, FilesTyped, Settle
  <2> QED
    BY <2>1, <2>2, <2>3
<1>3. AudioStays
  BY <1>1 DEF AudioStays
<1>4. Runs' /\ TranscriptHasAudio'
  BY <1>1, <1>3, TranscriptsUndisturbed DEF IInv, Runs
<1>5. \A r \in Run : RunTyped(r)' /\ RunKnows(r)'
  BY <1>1, <1>3, RunUndisturbed
<1> QED
  BY <1>2, <1>4, <1>5 DEF IInv

(* A transcript that is deleted; a time that is rewritten.                 *)
LEMMA UserKeepsIInv ==
  ASSUME IInv,
         \/ \E s \in Second : DeleteTranscript(s)
         \/ \E key \in Key, at \in Second : Touch(key, at)
  PROVE  IInv'
<1>1. ASSUME NEW s \in Second, DeleteTranscript(s) PROVE IInv'
  <2>1. UNCHANGED <<drop, audio, partAudio, partMd>>
    BY <1>1 DEF DeleteTranscript
  <2>2. FilesTyped'
    BY <1>1, <2>1 DEF IInv, FilesTyped, DeleteTranscript, Budgets, Text
  <2>3. ASSUME NEW r \in Run
        PROVE  /\ runs'[r] \in RunState
               /\ \/ runs'[r] = runs[r]
                  \/ runs[r].into = "md" /\ runs'[r] = [runs[r] EXCEPT !.into = "gone"]
    <3>1. /\ runs[r] \in RunState
          /\ runs'[r] = IF runs[r].into = "md" /\ runs[r].stamp = s
                        THEN [runs[r] EXCEPT !.into = "gone"] ELSE runs[r]
      BY <1>1 DEF DeleteTranscript, Lose, IInv, Runs
    <3> QED
      BY <3>1 DEF RunState
  <2>4. Runs'
    BY <1>1, <2>3 DEF DeleteTranscript, Lose, Runs
  <2>5. ASSUME NEW r \in Run PROVE RunTyped(r)' /\ RunKnows(r)'
    <3>1. CASE runs'[r] = runs[r]
      BY <2>1, <3>1, RunUndisturbed DEF AudioStays
    <3>2. CASE runs[r].into = "md" /\ runs'[r] = [runs[r] EXCEPT !.into = "gone"]
      BY <2>1, <2>3, <3>2, VoiceAssumption DEF IInv, Runs, RunTyped, RunKnows, At, AtAudio, HasAudio, RunState
    <3> QED
      BY <2>3, <3>1, <3>2
  <2>6. TranscriptHasAudio'
    BY <1>1, <2>1, TranscriptsUndisturbed DEF IInv, FilesTyped, DeleteTranscript, AudioStays
  <2> QED
    BY <2>2, <2>4, <2>5, <2>6 DEF IInv
<1>2. ASSUME NEW key \in Key, NEW at \in Second, Touch(key, at) PROVE IInv'
  <2>1. UNCHANGED <<drop, md, partAudio, partMd, runs>>
    BY <1>2 DEF Touch
  <2>2. audio[key] \in Copy /\ [audio[key] EXCEPT !.at = at] \in Copy
    BY <1>2 DEF IInv, FilesTyped, Touch, Copy
  <2>3. FilesTyped'
    BY <1>2, <2>1, <2>2 DEF IInv, FilesTyped, Touch, Budgets
  <2>4. AudioStays
    BY <1>2, <2>2, VoiceAssumption DEF IInv, FilesTyped, Touch, Copy, AudioStays
  <2>5. TranscriptHasAudio'
    BY <2>1, <2>4, TranscriptsUndisturbed
  <2>6. \A r \in Run : RunTyped(r)' /\ RunKnows(r)'
    BY <2>1, <2>4, RunUndisturbed
  <2> QED
    BY <2>1, <2>3, <2>5, <2>6 DEF IInv, Runs
<1> QED
  BY <1>1, <1>2
-----------------------------------------------------------------------------
(* What has to be shown of a step of one run. *)
LEMMA StepKeepsIInv ==
  ASSUME IInv, NEW r \in Run, NEW new \in RunState, Put(r, new),
         FilesTyped', AudioStays,
         r = "recovery" => UNCHANGED partAudio,
         \A s \in Second : md'[s] # Nothing => md[s] # Nothing \/ HasAudio(s),
         RunTyped(r)', RunKnows(r)'
  PROVE  IInv'
<1>1. Runs' /\ \A q \in Run \ {r} : runs'[q] = runs[q]
  BY DEF IInv, Runs, Put
<1>2. ASSUME NEW q \in Run \ {r} PROVE RunTyped(q)' /\ RunKnows(q)'
  BY <1>1, RunUndisturbed DEF Run
<1>3. TranscriptHasAudio'
  BY TranscriptsUndisturbed
<1> QED
  BY <1>1, <1>2, <1>3 DEF IInv

(* A run that has nothing at hand knows nothing. *)
LEMMA Resting ==
  ASSUME IInv, NEW r \in Run, NEW new \in RunState, Put(r, new),
         new.pc \in {"idle", "next"}, new.into = Nothing, new.left \subseteq Sources(r) \X Second
  PROVE  RunTyped(r)' /\ RunKnows(r)'
<1>1. runs'[r] = new
  BY DEF IInv, Runs, Put
<1> QED
  BY <1>1, VoiceAssumption DEF RunTyped, RunKnows, At

(* A run that has not begun, or has just listed its work, is well typed.   *)
LEMMA IdleTyped ==
  /\ Idle \in RunState /\ Idle.pc = "idle" /\ Idle.left = {} /\ Idle.into = Nothing
  /\ \A left \in SUBSET ((Name \cup Key) \X Second) :
       LET new == [Idle EXCEPT !.pc = "next", !.left = left] IN
         new \in RunState /\ new.pc = "next" /\ new.left = left /\ new.into = Nothing
BY VoiceAssumption DEF Idle, RunState, Text

(* What is left to a run is a subset of its sources.                       *)
LEMMA LeftTyped ==
  ASSUME IInv, NEW r \in Run
  PROVE  /\ runs[r] \in RunState
         /\ runs[r].left \subseteq Sources(r) \X Second
         /\ Sources(r) \X Second \subseteq (Name \cup Key) \X Second
BY DEF IInv, Runs, RunTyped, Sources

(* A step after which the run has nothing at hand. *)
LEMMA RestKeepsIInv ==
  ASSUME IInv, NEW r \in Run, UNCHANGED <<drop, audio, md, partAudio, partMd>>, todo' \in Budgets,
         \/ Put(r, Idle)
         \/ \E left \in SUBSET (Sources(r) \X Second) :
               Put(r, [Idle EXCEPT !.pc = "next", !.left = left])
  PROVE  IInv'
<1>1. FilesTyped' /\ AudioStays
  BY DEF IInv, FilesTyped, AudioStays
<1>2. PICK new \in RunState : /\ Put(r, new) /\ new.pc \in {"idle", "next"}
                             /\ new.into = Nothing /\ new.left \subseteq Sources(r) \X Second
  <2>1. CASE Put(r, Idle)
    BY <2>1, IdleTyped
  <2>2. ASSUME NEW left \in SUBSET (Sources(r) \X Second),
               Put(r, [Idle EXCEPT !.pc = "next", !.left = left])
        PROVE  \E new \in RunState : /\ Put(r, new) /\ new.pc \in {"idle", "next"}
                                     /\ new.into = Nothing /\ new.left \subseteq Sources(r) \X Second
    <3> DEFINE new == [Idle EXCEPT !.pc = "next", !.left = left]
    <3>1. left \in SUBSET ((Name \cup Key) \X Second)
      BY LeftTyped
    <3>2. new \in RunState /\ new.pc = "next" /\ new.left = left /\ new.into = Nothing
      BY <3>1, IdleTyped
    <3>3. Put(r, new)
      BY <2>2
    <3> HIDE DEF new
    <3> QED
      BY <3>2, <3>3
  <2> QED
    BY <2>1, <2>2
<1>3. RunTyped(r)' /\ RunKnows(r)'
  BY <1>2, Resting
<1> QED
  BY <1>1, <1>2, <1>3, StepKeepsIInv

(* The steps that begin or end a run, or one recording of it.              *)
LEMMA RestingSteps ==
  ASSUME IInv, NEW r \in Run, Begin(r) \/ End(r) \/ GiveUp(r) \/ WhisperFails(r) \/ KillRun(r)
  PROVE  IInv'
<1>1. UNCHANGED <<drop, audio, md, partAudio, partMd>> /\ todo' \in Budgets
  BY DEF Begin, End, GiveUp, WhisperFails, KillRun, IInv, FilesTyped, Budgets
<1>2. CASE Begin(r)
  <2> DEFINE S == {n \in (IF r = "timer" THEN Name ELSE Key) : There(r, n)}
             left == {<<src, File(r, src).at>> : src \in S}
  <2>1. \A src \in S : src \in Sources(r) /\ File(r, src) \in File0
    BY FileTyped DEF IInv, Sources
  <2>2. left \in SUBSET (Sources(r) \X Second)
    BY <2>1 DEF File0
  <2>3. Put(r, [Idle EXCEPT !.pc = "next", !.left = left])
    BY <1>2 DEF Begin
  <2> QED
    BY <1>1, <2>2, <2>3, RestKeepsIInv
<1>3. CASE End(r) \/ KillRun(r)
  BY <1>1, <1>3, RestKeepsIInv DEF End, KillRun
<1>4. CASE GiveUp(r) \/ WhisperFails(r)
  <2>1. Put(r, [Idle EXCEPT !.pc = "next", !.left = runs[r].left])
    BY <1>4 DEF GiveUp, WhisperFails, Onward
  <2> QED
    BY <1>1, <2>1, LeftTyped, RestKeepsIInv
<1> QED
  BY <1>2, <1>3, <1>4

(* Picking a recording: its stamp and suffix have types, and that of a     *)
(* recovery is its own name, where there is audio.                         *)
LEMMA PickKeepsIInv ==
  ASSUME IInv, NEW r \in Run, NEW one \in runs[r].left, Pick(r, one)
  PROVE  IInv'
<1> DEFINE src == one[1]
           f == File(r, src)
           rest == [runs[r] EXCEPT !.left = @ \ {one}]
           taken1 == [rest EXCEPT !.pc = "transcribe", !.src = src, !.stamp = f.at, !.kind = f.kind]
<1>1. UNCHANGED <<drop, audio, md, partAudio, partMd, todo>>
  BY DEF Pick
<1>2. FilesTyped' /\ AudioStays
  BY <1>1 DEF IInv, FilesTyped, AudioStays
<1>3. /\ runs[r] \in RunState /\ runs[r].pc = "next" /\ runs[r].into = Nothing
      /\ runs[r].left \subseteq Sources(r) \X Second /\ src \in Sources(r)
  BY LeftTyped DEF Pick, IInv, RunKnows, At
<1>4. rest \in RunState /\ rest.pc = "next" /\ rest.into = Nothing
      /\ rest.left \subseteq Sources(r) \X Second
  BY <1>3 DEF RunState
<1>5. CASE Put(r, rest)
  <2>1. RunTyped(r)' /\ RunKnows(r)'
    <3> HIDE DEF rest
    <3> QED
      BY <1>4, <1>5, Resting
  <2> QED
    BY <1>1, <1>2, <1>4, <1>5, <2>1, StepKeepsIInv
<1>6. CASE Put(r, taken1) /\ There(r, src) /\ OwnName(r, src)
  <2>1. f \in File0
    BY <1>3, <1>6, FileTyped DEF IInv
  <2>2. f.at \in Second /\ f.kind \in Kind
    BY <2>1 DEF File0
  <2>3. /\ taken1 \in RunState /\ taken1.pc = "transcribe" /\ taken1.into = Nothing
        /\ taken1.left \subseteq Sources(r) \X Second
        /\ taken1.src = src /\ taken1.stamp = f.at /\ taken1.kind = f.kind
    BY <1>3, <1>4, <2>2 DEF RunState, Sources
  <2>4. r = "recovery" => audio[<<f.at, f.kind>>] # Nothing
    BY <1>3, <1>6 DEF There, OwnName, File, Sources, Key
  <2>5. runs'[r] = taken1
    BY <1>6 DEF IInv, Runs, Put
  <2> HIDE DEF taken1, f, src
  <2>6. RunTyped(r)'
    BY <1>3, <2>2, <2>3, <2>5 DEF RunTyped
  <2>7. RunKnows(r)'
    BY <1>1, <2>3, <2>4, <2>5, VoiceAssumption DEF RunKnows, AtAudio
  <2> QED
    BY <1>1, <1>2, <1>6, <2>3, <2>6, <2>7, StepKeepsIInv
<1> QED
  BY <1>5, <1>6 DEF Pick
-----------------------------------------------------------------------------
(* A step of a run that goes on with what it has at hand.                  *)
LEMMA Working ==
  ASSUME IInv, NEW r \in Run, At(r)
  PROVE  /\ runs[r] \in RunState /\ runs[r].left \subseteq Sources(r) \X Second
         /\ runs[r].src \in Sources(r) /\ runs[r].stamp \in Second /\ runs[r].kind \in Kind
         /\ <<runs[r].stamp, runs[r].kind>> \in Key
         /\ r = "recovery" => AtAudio(r)
BY DEF IInv, Runs, RunTyped, RunKnows, Key

(* A run that goes on with its recording, to a state that keeps what it    *)
(* knows.                                                                  *)
LEMMA GoesOn ==
  ASSUME IInv, NEW r \in Run, At(r), NEW new \in RunState, Put(r, new),
         FilesTyped', AudioStays,
         new.left = runs[r].left, new.src = runs[r].src,
         new.stamp = runs[r].stamp, new.kind = runs[r].kind,
         new.pc \notin {"idle", "next"},
         new.into = "md" => HasAudio(runs[r].stamp),
         new.pc = "copy" => r # "recovery" /\ new.copied \in Recording,
         new.pc = "renamemd" => AtAudio(r) \/ audio'[<<runs[r].stamp, runs[r].kind>>] # Nothing,
         new.pc = "renameaudio" =>
           r # "recovery" /\ partAudio'[<<runs[r].stamp, runs[r].kind>>] \in Copy,
         r = "recovery" => UNCHANGED partAudio,
         \A s \in Second : md'[s] # Nothing => md[s] # Nothing \/ HasAudio(s)
  PROVE  IInv'
<1>1. runs'[r] = new
  BY DEF IInv, Runs, Put
<1>2. RunTyped(r)'
  BY <1>1, Working DEF RunTyped
<1>3. AtAudio(r) => AtAudio(r)'
  BY <1>1, Working DEF AtAudio, AudioStays
<1>4. HasAudio(runs[r].stamp) => HasAudio(runs[r].stamp)'
  BY <1>1, Working DEF HasAudio, AudioStays, Key
<1>5. RunKnows(r)'
  <2>1. (runs[r].pc = "renamemd" => AtAudio(r))'
    BY <1>1, <1>3 DEF AtAudio
  <2>2. (runs[r].into # Nothing => At(r))' /\ (runs[r].into = "md" => HasAudio(runs[r].stamp))'
    BY <1>1, <1>4 DEF At
  <2>3. (runs[r].pc = "renameaudio" => partAudio[<<runs[r].stamp, runs[r].kind>>] \in Copy)'
    BY <1>1
  <2>4. (r = "recovery" /\ At(r) => AtAudio(r) /\ runs[r].pc \notin {"copy", "renameaudio"})'
    BY <1>1, <1>3, Working
  <2> QED
    BY <2>1, <2>2, <2>3, <2>4 DEF RunKnows
<1> QED
  BY <1>2, <1>5, StepKeepsIInv

(* The step that reads the audio, or finds it archived.                    *)
LEMMA TranscribeKeepsIInv ==
  ASSUME IInv, NEW r \in Run, Transcribe(r) \/ SkipAudio(r)
  PROVE  IInv'
<1>1. UNCHANGED <<drop, audio, md, partAudio, partMd, todo>>
  BY DEF Transcribe, SkipAudio
<1>2. FilesTyped' /\ AudioStays
  BY <1>1 DEF IInv, FilesTyped, AudioStays
<1>3. CASE Transcribe(r) /\ File(r, runs[r].src).rec \in Unfoldable
  <2>1. Put(r, Idle)
    BY <1>3 DEF Transcribe
  <2> QED
    BY <1>1, <2>1, RestKeepsIInv DEF IInv, FilesTyped
<1>4. CASE Transcribe(r) /\ File(r, runs[r].src).rec \notin Unfoldable
  <2> DEFINE new == [runs[r] EXCEPT !.pc = "open", !.text = File(r, runs[r].src).rec]
  <2>1. At(r)
    BY <1>4 DEF Transcribe, At
  <2>2. File(r, runs[r].src).rec \in Recording
    BY <1>4, <2>1, Working, FileTyped DEF IInv, Transcribe, File0
  <2>3. /\ new \in RunState /\ new.pc = "open" /\ new.into = runs[r].into
        /\ new.left = runs[r].left /\ new.src = runs[r].src
        /\ new.stamp = runs[r].stamp /\ new.kind = runs[r].kind
    BY <2>1, <2>2, Working DEF RunState, Text
  <2>4. Put(r, new)
    BY <1>4 DEF Transcribe
  <2>5. runs[r].into = "md" => HasAudio(runs[r].stamp)
    BY DEF IInv, RunKnows
  <2> HIDE DEF new
  <2> QED
    BY <1>1, <1>2, <2>1, <2>3, <2>4, <2>5, GoesOn
<1>5. CASE SkipAudio(r)
  <2> DEFINE new == [runs[r] EXCEPT !.pc = "renamemd"]
  <2>1. At(r) /\ AtAudio(r)
    BY <1>5 DEF SkipAudio, NoAudioYet, At, AtAudio
  <2>2. /\ new \in RunState /\ new.pc = "renamemd" /\ new.into = runs[r].into
        /\ new.left = runs[r].left /\ new.src = runs[r].src
        /\ new.stamp = runs[r].stamp /\ new.kind = runs[r].kind
    BY <2>1, Working DEF RunState
  <2>3. Put(r, new)
    BY <1>5 DEF SkipAudio
  <2>4. runs[r].into = "md" => HasAudio(runs[r].stamp)
    BY DEF IInv, RunKnows
  <2> HIDE DEF new
  <2> QED
    BY <1>1, <1>2, <2>1, <2>2, <2>3, <2>4, GoesOn
<1> QED
  BY <1>3, <1>4, <1>5

(* The partial transcript is opened, and filled, under whatever name it    *)
(* has by then.                                                            *)
LEMMA WriteMdKeepsIInv ==
  ASSUME IInv, NEW r \in Run, OpenMd(r) \/ FillMd(r)
  PROVE  IInv'
<1>1. UNCHANGED <<drop, audio, partAudio, todo>> /\ At(r)
  BY DEF OpenMd, FillMd, At
<1>2. AudioStays
  BY <1>1 DEF AudioStays
<1>3. CASE OpenMd(r)
  <2> DEFINE new == [runs[r] EXCEPT !.pc = "fill", !.into = "part"]
  <2>1. FilesTyped'
    BY <1>1, <1>3, Working DEF IInv, FilesTyped, OpenMd, PartOf, Text
  <2>2. /\ new \in RunState /\ new.pc = "fill" /\ new.into = "part"
        /\ new.left = runs[r].left /\ new.src = runs[r].src
        /\ new.stamp = runs[r].stamp /\ new.kind = runs[r].kind
    BY <1>1, Working DEF RunState
  <2>3. Put(r, new) /\ UNCHANGED md
    BY <1>3 DEF OpenMd
  <2> HIDE DEF new
  <2> QED
    BY <1>1, <1>2, <2>1, <2>2, <2>3, GoesOn
<1>4. CASE FillMd(r)
  <2> DEFINE new == [runs[r] EXCEPT !.pc = "audio", !.into = Nothing]
  <2>1. runs[r].text \in Text /\ runs[r].stamp \in Second
    BY <1>1, Working DEF RunState
  <2>2. FilesTyped'
    <3>1. md' \in [Second -> Text]
      BY <1>4, <2>1 DEF IInv, FilesTyped, FillMd
    <3>2. partMd' \in [Second -> Text]
      BY <1>4, <2>1 DEF IInv, FilesTyped, FillMd, PartOf
    <3> QED
      BY <1>1, <3>1, <3>2 DEF IInv, FilesTyped
  <2>3. /\ new \in RunState /\ new.pc = "audio" /\ new.into # "md"
        /\ new.left = runs[r].left /\ new.src = runs[r].src
        /\ new.stamp = runs[r].stamp /\ new.kind = runs[r].kind
    BY <1>1, Working, VoiceAssumption DEF RunState
  <2>4. Put(r, new)
    BY <1>4 DEF FillMd
  <2>5. runs[r].into = "md" => HasAudio(runs[r].stamp)
    BY DEF IInv, RunKnows
  <2>6. \A s \in Second : md'[s] # Nothing => md[s] # Nothing \/ HasAudio(s)
    BY <1>4, <2>1, <2>5 DEF IInv, FilesTyped, FillMd
  <2> HIDE DEF new
  <2> QED
    BY <1>1, <1>2, <2>2, <2>3, <2>4, <2>6, GoesOn
<1> QED
  BY <1>3, <1>4

(* Only the timer's run copies, as a recovery finds its audio there.       *)
LEMMA CopyKeepsIInv ==
  ASSUME IInv, NEW r \in Run, StartCopy(r) \/ FinishCopy(r)
  PROVE  IInv'
<1> DEFINE key == <<runs[r].stamp, runs[r].kind>>
<1>1. UNCHANGED <<drop, audio, md, partMd, todo>> /\ At(r) /\ There(r, runs[r].src)
  BY DEF StartCopy, FinishCopy, At
<1>2. AudioStays
  BY <1>1 DEF AudioStays
<1>3. File(r, runs[r].src) \in File0
  BY <1>1, Working, FileTyped DEF IInv
<1>4. r # "recovery"
  BY <1>1, Working DEF StartCopy, FinishCopy, NoAudioYet, AtAudio, IInv, RunKnows
<1>5. runs[r].into = "md" => HasAudio(runs[r].stamp)
  BY DEF IInv, RunKnows
<1>6. CASE StartCopy(r)
  <2> DEFINE new == [runs[r] EXCEPT !.pc = "copy", !.copied = File(r, runs[r].src).rec]
  <2>1. FilesTyped'
    BY <1>1, <1>6, Working DEF IInv, FilesTyped, StartCopy
  <2>2. File(r, runs[r].src).rec \in Recording
    BY <1>3 DEF File0
  <2>3. /\ new \in RunState /\ new.pc = "copy" /\ new.into = runs[r].into
        /\ new.left = runs[r].left /\ new.src = runs[r].src
        /\ new.stamp = runs[r].stamp /\ new.kind = runs[r].kind
        /\ new.copied \in Recording
    BY <1>1, <2>2, Working DEF RunState, Text
  <2>4. Put(r, new)
    BY <1>6 DEF StartCopy
  <2> HIDE DEF new
  <2> QED
    BY <1>1, <1>2, <1>4, <1>5, <2>1, <2>3, <2>4, GoesOn
<1>7. CASE FinishCopy(r)
  <2> DEFINE new == [runs[r] EXCEPT !.pc = "renameaudio"]
             copy == [rec |-> runs[r].copied, at |-> TimeOfCopy(r)]
  <2>1. copy \in Copy
    BY <1>3, <1>7 DEF FinishCopy, TimeOfCopy, IInv, RunTyped, File0, Copy
  <2>2. partAudio' = [partAudio EXCEPT ![key] = copy]
    BY <1>7 DEF FinishCopy
  <2> HIDE DEF copy
  <2>3. FilesTyped' /\ partAudio'[key] \in Copy
    BY <1>1, <2>1, <2>2, Working DEF IInv, FilesTyped
  <2>4. /\ new \in RunState /\ new.pc = "renameaudio" /\ new.into = runs[r].into
        /\ new.left = runs[r].left /\ new.src = runs[r].src
        /\ new.stamp = runs[r].stamp /\ new.kind = runs[r].kind
    BY <1>1, Working DEF RunState
  <2>5. Put(r, new)
    BY <1>7 DEF FinishCopy
  <2> HIDE DEF new
  <2> QED
    BY <1>1, <1>2, <1>4, <1>5, <2>3, <2>4, <2>5, GoesOn
<1> QED
  BY <1>6, <1>7

(* The rename that puts audio under its name.                              *)
LEMMA RenameAudioKeepsIInv ==
  ASSUME IInv, NEW r \in Run, RenameAudio(r)
  PROVE  IInv'
<1> DEFINE key == <<runs[r].stamp, runs[r].kind>>
           new == [runs[r] EXCEPT !.pc = "renamemd"]
<1>1. UNCHANGED <<drop, md, partMd, todo>> /\ At(r)
  BY DEF RenameAudio, At
<1>2. partAudio[key] \in Copy /\ r # "recovery"
  BY <1>1 DEF RenameAudio, IInv, RunKnows
<1>3. partAudio[key] # Nothing /\ key \in Key
  BY <1>1, <1>2, Working, VoiceAssumption DEF Copy
<1>4. FilesTyped' /\ AudioStays /\ audio'[key] # Nothing
  BY <1>1, <1>2, <1>3 DEF RenameAudio, IInv, FilesTyped, AudioStays
<1>5. /\ new \in RunState /\ new.pc = "renamemd" /\ new.into = runs[r].into
      /\ new.left = runs[r].left /\ new.src = runs[r].src
      /\ new.stamp = runs[r].stamp /\ new.kind = runs[r].kind
  BY <1>1, Working DEF RunState
<1>6. Put(r, new)
  BY DEF RenameAudio
<1>7. runs[r].into = "md" => HasAudio(runs[r].stamp)
  BY DEF IInv, RunKnows
<1> HIDE DEF new
<1> QED
  BY <1>1, <1>2, <1>4, <1>5, <1>6, <1>7, GoesOn

(* The mark is set: there is audio under the stamp, for this run and for   *)
(* one that follows the file to its new name.                              *)
LEMMA RenameMdKeepsIInv ==
  ASSUME IInv, NEW r \in Run, RenameMd(r)
  PROVE  IInv'
<1> DEFINE s == runs[r].stamp
<1>1. UNCHANGED <<drop, audio, partAudio, todo>> /\ At(r) /\ s \in Second
  BY Working DEF RenameMd, At
<1>2. AudioStays
  BY <1>1 DEF AudioStays
<1>3. HasAudio(s)
  BY <1>1, Working DEF RenameMd, IInv, RunKnows, AtAudio, HasAudio
<1>4. CASE partMd[s] = Nothing
  <2>1. UNCHANGED <<md, partMd>> /\ Put(r, [Idle EXCEPT !.pc = "next", !.left = runs[r].left])
    BY <1>4 DEF RenameMd, PartOf, Onward
  <2> QED
    BY <1>1, <2>1, LeftTyped, RestKeepsIInv DEF IInv, FilesTyped
<1>5. CASE partMd[s] # Nothing
  <2>1. /\ md' = [md EXCEPT ![s] = partMd[s]]
        /\ partMd' = [partMd EXCEPT ![s] = Nothing]
        /\ runs' = Follow(r, s)
    BY <1>5 DEF RenameMd, PartOf
  <2>2. FilesTyped'
    BY <1>1, <2>1 DEF IInv, FilesTyped, Text
  <2>3. TranscriptHasAudio'
    <3>1. \A t \in Second : md'[t] # Nothing => md[t] # Nothing \/ HasAudio(t)
      BY <1>3, <2>1 DEF IInv, FilesTyped
    <3> QED
      BY <1>2, <3>1, TranscriptsUndisturbed
  <2>4. runs'[r] \in RunState /\ RunTyped(r)' /\ RunKnows(r)'
    <3>1. runs'[r] = [Idle EXCEPT !.pc = "next", !.left = runs[r].left]
      BY <2>1 DEF Follow, Onward
    <3> DEFINE new == [Idle EXCEPT !.pc = "next", !.left = runs[r].left]
    <3>2. new \in RunState /\ new.pc = "next" /\ new.left = runs[r].left /\ new.into = Nothing
      BY IdleTyped, LeftTyped
    <3>3. runs'[r] = new
      BY <3>1
    <3> HIDE DEF new
    <3> QED
      BY <3>2, <3>3, LeftTyped, VoiceAssumption DEF RunTyped, RunKnows, At
  <2>5. ASSUME NEW q \in Run \ {r}
        PROVE  runs'[q] \in RunState /\ RunTyped(q)' /\ RunKnows(q)'
    <3>1. runs[q] \in RunState
      BY LeftTyped
    <3>2. \/ runs'[q] = runs[q]
          \/ \E to \in {"md", "gone"} :
               /\ runs'[q] = [runs[q] EXCEPT !.into = to]
               /\ runs[q].stamp = s /\ runs[q].into \in {"part", "md"}
      BY <2>1 DEF Follow
    <3>3. CASE runs'[q] = runs[q]
      BY <1>1, <1>2, <3>1, <3>3, RunUndisturbed
    <3>4. ASSUME NEW to \in {"md", "gone"}, runs'[q] = [runs[q] EXCEPT !.into = to],
                 runs[q].stamp = s, runs[q].into \in {"part", "md"}
          PROVE  runs'[q] \in RunState /\ RunTyped(q)' /\ RunKnows(q)'
      <4>1. At(q) /\ RunTyped(q) /\ RunKnows(q)
        BY <3>4, VoiceAssumption DEF IInv, RunKnows
      <4>2. /\ runs'[q] \in RunState /\ runs'[q].into = to
            /\ runs'[q].pc = runs[q].pc /\ runs'[q].left = runs[q].left
            /\ runs'[q].src = runs[q].src /\ runs'[q].stamp = s
            /\ runs'[q].kind = runs[q].kind /\ runs'[q].copied = runs[q].copied
        BY <3>1, <3>4 DEF RunState
      <4>3. RunTyped(q)'
        BY <3>4, <4>1, <4>2 DEF RunTyped, At
      <4>4. \E k \in Kind : audio'[<<s, k>>] # Nothing
        BY <1>1, <1>3 DEF HasAudio
      <4>5. (runs[q].into = "md" => HasAudio(runs[q].stamp))'
        BY <4>2, <4>4 DEF HasAudio
      <4>6. AtAudio(q) => AtAudio(q)'
        BY <1>1, <3>4, <4>2 DEF AtAudio
      <4>7. RunKnows(q)'
        BY <1>1, <3>4, <4>1, <4>2, <4>5, <4>6 DEF RunKnows, At
      <4> QED
        BY <4>2, <4>3, <4>7
    <3> QED
      BY <3>2, <3>3, <3>4
  <2>6. Runs'
    BY <2>1, <2>4, <2>5 DEF Follow, Runs
  <2> QED
    BY <2>2, <2>3, <2>4, <2>5, <2>6 DEF IInv
<1> QED
  BY <1>4, <1>5
-----------------------------------------------------------------------------
(* Every step keeps the invariant.                                         *)
LEMMA NextIInv == IInv /\ [Next]_vars => IInv'
<1> SUFFICES ASSUME IInv, [Next]_vars PROVE IInv'
  OBVIOUS
<1>1. CASE UNCHANGED vars
  <2>1. UNCHANGED <<drop, audio, md, partAudio, partMd, runs, todo>>
    BY <1>1 DEF vars
  <2>2. FilesTyped' /\ AudioStays /\ Runs'
    BY <2>1 DEF IInv, FilesTyped, AudioStays, Runs
  <2>3. \A r \in Run : RunTyped(r)' /\ RunKnows(r)'
    BY <2>1, <2>2, RunUndisturbed
  <2>4. TranscriptHasAudio'
    BY <2>1, <2>2, TranscriptsUndisturbed
  <2> QED
    BY <2>2, <2>3, <2>4 DEF IInv
<1>2. CASE \/ \E d \in todo.deliveries : Deliver(d)
           \/ \E n \in Name : DeleteOnPhone(n) \/ Settle(n)
  BY <1>2, PhoneKeepsIInv
<1>3. CASE \/ \E s \in Second : DeleteTranscript(s)
           \/ \E key \in Key, at \in Second : Touch(key, at)
  BY <1>3, UserKeepsIInv
<1>4. ASSUME NEW r \in Run, Begin(r) \/ Step(r) \/ Answer(r) \/ KillRun(r)
      PROVE  IInv'
  BY <1>4, RestingSteps, PickKeepsIInv, TranscribeKeepsIInv, WriteMdKeepsIInv, CopyKeepsIInv,
     RenameAudioKeepsIInv, RenameMdKeepsIInv DEF Step, Answer
<1> QED
  BY <1>1, <1>2, <1>3, <1>4 DEF Next

(* Whatever is delivered, deleted, killed, rebuilt or touched, and however *)
(* the timer's run and a recovery interleave, a transcript is never seen   *)
(* without audio of its stamp (process renames the transcript last).       *)
THEOREM TranscriptsHaveAudio == Spec => []TranscriptHasAudio
<1>1. IInv => TranscriptHasAudio
  BY DEF IInv
<1> QED
  BY <1>1, InitIInv, NextIInv, PTL DEF Spec

-----------------------------------------------------------------------------
(* Pairs and stamps.  What the phone delivered under a stamp is all that   *)
(* can end up under it, unless the source of a run changed under it; so    *)
(* two things found under one stamp are of one recording when only one     *)
(* was delivered there.                                                    *)
Of(s) == {d.rec : d \in {e \in taken : e.at = s}}

DropTrue(f) == f # Nothing => f.rec \in Of(f.at)
TextTrue(s, text) == text \in Recording => text \in Of(s)
AudioTrue(s, a) == a # Nothing => a.rec \in Of(s) /\ (s \notin touched => a.at = s)
PartTrue(s, p) == p \in Copy => p.rec \in Of(s) /\ p.at = s

FilesTrue ==
  /\ \A n \in Name : DropTrue(drop[n])
  /\ \A s \in Second \ swapped : TextTrue(s, md[s]) /\ TextTrue(s, partMd[s])
  /\ \A s \in Second \ swapped, k \in Kind :
       AudioTrue(s, audio[<<s, k>>]) /\ PartTrue(s, partAudio[<<s, k>>])
  /\ \A s \in Second : md[s] = Truncated => s \in shared

(* A run that holds a text holds that of its recording; what it wrote is   *)
(* not cut short again by itself.                                          *)
Holding == {"open", "fill", "audio", "copy", "renameaudio", "renamemd"}
Written == {"audio", "copy", "renameaudio", "renamemd"}
RunTrue(r) ==
  LET s == runs[r].stamp IN
  /\ ~At(r) => runs[r].src = Nothing
  /\ runs[r].pc \notin Holding => runs[r].text = Nothing
  /\ runs[r].into # Nothing <=> runs[r].pc = "fill"
  /\ runs[r].into \in {"md", "gone"} => s \in shared
  /\ runs[r].pc \in Holding =>
       runs[r].text \in Recording /\ (s \notin swapped => runs[r].text \in Of(s))
  /\ runs[r].pc = "copy" /\ s \notin swapped => runs[r].copied \in Of(s)
  /\ r = "recovery" /\ At(r) => runs[r].src = <<s, runs[r].kind>>
  /\ r = "timer" /\ At(r) /\ s \notin swapped /\ drop[runs[r].src] # Nothing =>
       drop[runs[r].src].at = s
  /\ runs[r].pc \in Written /\ s \notin shared => partMd[s] # Truncated

(* Two runs at one stamp are known to have met.                            *)
Apart ==
  \A q, r \in Run : q # r /\ At(q) /\ At(r) /\ runs[q].stamp = runs[r].stamp =>
    runs[q].stamp \in shared

PairInv == IInv /\ taken \subseteq Delivery /\ FilesTrue /\ (\A r \in Run : RunTrue(r)) /\ Apart

(* A recording has one time, wherever and under whatever name it is.       *)
OneTimeEach(deliveries) ==
  \A d, e \in deliveries : d.rec = e.rec => d.at = e.at
TimesInv == PairInv /\ OneTimeEach(taken \cup todo.deliveries)
-----------------------------------------------------------------------------
(* What is known of runs and files stays true while the history grows.     *)
HistoryGrows ==
  /\ taken \subseteq taken' /\ swapped \subseteq swapped'
  /\ shared \subseteq shared' /\ touched \subseteq touched'

(* What was once delivered under a stamp is remembered.                    *)
LEMMA OfGrows ==
  ASSUME taken \subseteq taken', NEW s
  PROVE  Of(s) \subseteq Of(s)'
BY DEF Of

(* All of a run but whether it has a partial file open.                    *)
SameButInto(q) ==
  /\ runs'[q].pc = runs[q].pc /\ runs'[q].src = runs[q].src
  /\ runs'[q].stamp = runs[q].stamp /\ runs'[q].kind = runs[q].kind
  /\ runs'[q].text = runs[q].text /\ runs'[q].copied = runs[q].copied
  /\ runs'[q].into # Nothing <=> runs[q].into # Nothing
  /\ runs'[q].into \in {"md", "gone"} =>
       runs[q].into \in {"md", "gone"} \/ runs[q].stamp \in shared'

(* A run that does not move still knows the truth, unless its source was   *)
(* replaced.                                                               *)
LEMMA RunStaysTrue ==
  ASSUME PairInv, NEW q \in Run, SameButInto(q), HistoryGrows,
         q = "timer" /\ At(q) =>
           \/ drop'[runs[q].src] = Nothing
           \/ drop[runs[q].src] # Nothing /\ drop'[runs[q].src].at = drop[runs[q].src].at
           \/ runs[q].stamp \in swapped',
         At(q) /\ partMd'[runs[q].stamp] = Truncated =>
           partMd[runs[q].stamp] = Truncated \/ runs[q].stamp \in shared'
  PROVE  RunTrue(q)'
<1>1. RunTrue(q) /\ HistoryGrows
  BY DEF PairInv
<1>2. runs[q].pc \in Written => At(q)
  BY DEF Written, At
<1>3. /\ (~At(q) => runs[q].src = Nothing)'
      /\ (runs[q].pc \notin Holding => runs[q].text = Nothing)'
      /\ (runs[q].into # Nothing <=> runs[q].pc = "fill")'
      /\ (runs[q].into \in {"md", "gone"} => runs[q].stamp \in shared)'
      /\ (q = "recovery" /\ At(q) => runs[q].src = <<runs[q].stamp, runs[q].kind>>)'
  BY <1>1 DEF RunTrue, At, SameButInto, HistoryGrows
<1>4. /\ (runs[q].pc \in Holding =>
            /\ runs[q].text \in Recording
            /\ runs[q].stamp \notin swapped => runs[q].text \in Of(runs[q].stamp))'
      /\ (runs[q].pc = "copy" /\ runs[q].stamp \notin swapped =>
            runs[q].copied \in Of(runs[q].stamp))'
  BY <1>1 DEF RunTrue, Of, SameButInto, HistoryGrows
<1>5. (q = "timer" /\ At(q) /\ runs[q].stamp \notin swapped /\ drop[runs[q].src] # Nothing =>
         drop[runs[q].src].at = runs[q].stamp)'
  BY <1>1 DEF RunTrue, At, SameButInto, HistoryGrows
<1>6. (runs[q].pc \in Written /\ runs[q].stamp \notin shared => partMd[runs[q].stamp] # Truncated)'
  BY <1>1, <1>2 DEF RunTrue, SameButInto, HistoryGrows
<1> QED
  BY <1>3, <1>4, <1>5, <1>6 DEF RunTrue

(* Files are true after a step when what it wrote is.                      *)
LEMMA FilesStayTrue ==
  ASSUME PairInv, HistoryGrows,
         \A n \in Name :
           \/ DropTrue(drop[n])'
           \/ drop[n] # Nothing /\ drop'[n].rec = drop[n].rec /\ drop'[n].at = drop[n].at,
         \A s \in Second \ swapped' : TextTrue(s, md[s])' \/ md'[s] \in {md[s], partMd[s]},
         \A s \in Second \ swapped' : TextTrue(s, partMd[s])' \/ partMd'[s] = partMd[s],
         \A s \in Second \ swapped', k \in Kind :
           AudioTrue(s, audio[<<s, k>>])' \/ audio'[<<s, k>>] = audio[<<s, k>>],
         \A s \in Second \ swapped', k \in Kind :
           PartTrue(s, partAudio[<<s, k>>])' \/ partAudio'[<<s, k>>] = partAudio[<<s, k>>],
         \A s \in Second : md'[s] = Truncated => md[s] = Truncated \/ s \in shared'
  PROVE  FilesTrue'
<1>1. FilesTrue /\ swapped \subseteq swapped' /\ touched \subseteq touched' /\ shared \subseteq shared'
  BY DEF PairInv, HistoryGrows
<1>2. \A s : Of(s) \subseteq Of(s)'
  BY OfGrows DEF HistoryGrows
<1>3. \A n \in Name : DropTrue(drop[n])'
  <2> SUFFICES ASSUME NEW n \in Name, drop[n] # Nothing, drop'[n] # Nothing,
                      drop'[n].rec = drop[n].rec, drop'[n].at = drop[n].at
               PROVE  drop'[n].rec \in Of(drop[n].at)'
    BY DEF DropTrue
  <2>1. drop[n].rec \in Of(drop[n].at)
    BY <1>1 DEF FilesTrue, DropTrue
  <2> QED
    BY <2>1 DEF Of, HistoryGrows
<1>4. \A s : s \in Second \ swapped' => s \in Second \ swapped
  BY <1>1
<1>5. \A s \in Second \ swapped' : TextTrue(s, md[s])' /\ TextTrue(s, partMd[s])'
  <2> SUFFICES ASSUME NEW s \in Second \ swapped'
               PROVE  TextTrue(s, md[s])' /\ TextTrue(s, partMd[s])'
    OBVIOUS
  <2>1. TextTrue(s, md[s]) /\ TextTrue(s, partMd[s])
    BY <1>1, <1>4 DEF FilesTrue
  <2>2. Of(s) \subseteq Of(s)'
    BY <1>2
  <2> QED
    BY <2>1, <2>2 DEF TextTrue
<1>6. \A s \in Second \ swapped', k \in Kind :
         AudioTrue(s, audio[<<s, k>>])' /\ PartTrue(s, partAudio[<<s, k>>])'
  <2> SUFFICES ASSUME NEW s \in Second \ swapped', NEW k \in Kind
               PROVE  AudioTrue(s, audio[<<s, k>>])' /\ PartTrue(s, partAudio[<<s, k>>])'
    OBVIOUS
  <2>1. AudioTrue(s, audio[<<s, k>>]) /\ PartTrue(s, partAudio[<<s, k>>])
    BY <1>1, <1>4 DEF FilesTrue
  <2>2. Of(s) \subseteq Of(s)' /\ (s \notin touched' => s \notin touched)
    BY <1>1, <1>2
  <2> QED
    BY <2>1, <2>2 DEF AudioTrue, PartTrue
<1>7. (\A s \in Second : md[s] = Truncated => s \in shared)'
  BY <1>1 DEF FilesTrue
<1> QED
  BY <1>3, <1>5, <1>6, <1>7 DEF FilesTrue

(* What has to be shown of a step of one run.                              *)
LEMMA StepKeepsPair ==
  ASSUME PairInv, IInv', NEW r \in Run, NEW new \in RunState, Put(r, new),
         UNCHANGED <<taken, swapped, touched, drop>>, shared \subseteq shared',
         FilesTrue', RunTrue(r)',
         new.pc \notin {"idle", "next"} =>
           \/ At(r) /\ new.stamp = runs[r].stamp
           \/ \A q \in Run \ {r} : At(q) /\ runs[q].stamp = new.stamp => new.stamp \in shared',
         \A s \in Second : partMd'[s] = Truncated =>
           partMd[s] = Truncated \/ (At(r) /\ s = runs[r].stamp)
  PROVE  PairInv'
<1>1. runs'[r] = new /\ \A q \in Run \ {r} : runs'[q] = runs[q]
  BY DEF PairInv, IInv, Runs, Put
<1>2. ASSUME NEW q \in Run \ {r} PROVE RunTrue(q)'
  <2>1. At(q) => runs[q].stamp \in Second
    BY Working DEF PairInv
  <2>2. At(q) /\ partMd'[runs[q].stamp] = Truncated =>
          partMd[runs[q].stamp] = Truncated \/ runs[q].stamp \in shared'
    BY <2>1 DEF PairInv, Apart
  <2>3. q = "timer" /\ At(q) =>
           \/ drop'[runs[q].src] = Nothing
           \/ drop[runs[q].src] # Nothing /\ drop'[runs[q].src].at = drop[runs[q].src].at
    OBVIOUS
  <2> QED
    BY <1>1, <2>2, <2>3, RunStaysTrue DEF SameButInto, HistoryGrows
<1>3. Apart'
  <2> SUFFICES ASSUME NEW q \in Run, NEW p \in Run, q # p, At(q)', At(p)',
                      runs'[q].stamp = runs'[p].stamp
               PROVE  runs'[q].stamp \in shared'
    BY DEF Apart
  <2>1. CASE q # r /\ p # r
    BY <1>1, <2>1 DEF PairInv, Apart, At
  <2>2. CASE q = r
    BY <1>1, <2>2 DEF PairInv, Apart, At
  <2>3. CASE p = r
    BY <1>1, <2>3 DEF PairInv, Apart, At
  <2> QED
    BY <2>1, <2>2, <2>3
<1> QED
  BY <1>2, <1>3 DEF PairInv

(* A step after which the run has nothing at hand.                         *)
LEMMA RestKeepsPair ==
  ASSUME PairInv, IInv', NEW r \in Run, NEW new \in RunState, Put(r, new),
         UNCHANGED <<drop, audio, md, partAudio, partMd, taken, swapped, touched, shared>>,
         new.pc \in {"idle", "next"}, new.src = Nothing, new.text = Nothing, new.into = Nothing
  PROVE  PairInv'
<1>1. runs'[r] = new
  BY DEF PairInv, IInv, Runs, Put
<1>2. FilesTrue'
  BY DEF PairInv, FilesTrue, DropTrue, TextTrue, AudioTrue, PartTrue, Of
<1>3. RunTrue(r)'
  BY <1>1, VoiceAssumption, SMTT(30) DEF RunTrue, At, Holding, Written
<1> QED
  BY <1>2, <1>3, StepKeepsPair

(* A run that rests knows nothing that could be wrong.                     *)
LEMMA IdleTrue ==
  /\ Idle \in RunState /\ Idle.pc = "idle" /\ Idle.src = Nothing /\ Idle.text = Nothing
  /\ Idle.into = Nothing
  /\ \A left \in SUBSET ((Name \cup Key) \X Second) :
       LET new == [Idle EXCEPT !.pc = "next", !.left = left] IN
         /\ new \in RunState /\ new.pc = "next" /\ new.src = Nothing /\ new.text = Nothing
         /\ new.into = Nothing
BY IdleTyped DEF Idle

(* At the start there is no pair.                                          *)
LEMMA InitPairInv == Init => PairInv
<1> SUFFICES ASSUME Init PROVE PairInv
  OBVIOUS
<1>1. IInv
  BY InitIInv
<1>2. \A r \in Run : runs[r] = Idle
  BY DEF Init
<1>3. \A r \in Run : RunTrue(r)
  BY <1>2, IdleTrue, VoiceAssumption DEF RunTrue, At, Holding, Written
<1>4. Apart
  BY <1>2, IdleTrue DEF Apart, At
<1>5. FilesTrue
  <2>1. \A n \in Name : drop[n] = Nothing
    BY DEF Init
  <2>2. \A s \in Second : md[s] = Nothing /\ partMd[s] = Nothing
    BY DEF Init
  <2>3. \A s \in Second, k \in Kind : audio[<<s, k>>] = Nothing /\ partAudio[<<s, k>>] = Nothing
    BY DEF Init, Key
  <2>4. Nothing \notin Copy /\ Nothing \notin Recording /\ Nothing # Truncated
    BY VoiceAssumption DEF Copy
  <2> QED
    BY <2>1, <2>2, <2>3, <2>4 DEF FilesTrue, DropTrue, TextTrue, AudioTrue, PartTrue
<1>6. taken \subseteq Delivery
  BY DEF Init
<1> QED
  BY <1>1, <1>3, <1>4, <1>5, <1>6 DEF PairInv

(* The steps that begin or end a run, or one recording of it.              *)
LEMMA RestingPair ==
  ASSUME PairInv, IInv', NEW r \in Run,
         Begin(r) \/ End(r) \/ GiveUp(r) \/ WhisperFails(r) \/ KillRun(r)
  PROVE  PairInv'
<1>1. UNCHANGED <<drop, audio, md, partAudio, partMd, taken, swapped, touched, shared>>
  BY DEF Begin, End, GiveUp, WhisperFails, KillRun, historyVars
<1>2. CASE Put(r, Idle)
  BY <1>1, <1>2, IdleTrue, RestKeepsPair
<1>3. ASSUME NEW left \in SUBSET ((Name \cup Key) \X Second),
             Put(r, [Idle EXCEPT !.pc = "next", !.left = left])
      PROVE  PairInv'
  <2> DEFINE new == [Idle EXCEPT !.pc = "next", !.left = left]
  <2>1. /\ new \in RunState /\ new.pc = "next" /\ new.src = Nothing /\ new.text = Nothing
        /\ new.into = Nothing
    BY IdleTrue
  <2>2. Put(r, new)
    BY <1>3
  <2> HIDE DEF new
  <2> QED
    BY <1>1, <2>1, <2>2, RestKeepsPair
<1>4. CASE Begin(r)
  <2> DEFINE S == {n \in (IF r = "timer" THEN Name ELSE Key) : There(r, n)}
             left == {<<src, File(r, src).at>> : src \in S}
  <2>1. \A src \in S : src \in Name \cup Key /\ File(r, src) \in File0
    BY FileTyped DEF PairInv, IInv, Sources
  <2>2. left \in SUBSET ((Name \cup Key) \X Second)
    BY <2>1 DEF File0
  <2>3. Put(r, [Idle EXCEPT !.pc = "next", !.left = left])
    BY <1>4 DEF Begin
  <2> HIDE DEF left
  <2> QED
    BY <1>3, <2>2, <2>3
<1>5. CASE End(r) \/ KillRun(r)
  BY <1>2, <1>5 DEF End, KillRun
<1>6. CASE GiveUp(r) \/ WhisperFails(r)
  <2>1. Put(r, [Idle EXCEPT !.pc = "next", !.left = runs[r].left])
    BY <1>6 DEF GiveUp, WhisperFails, Onward
  <2>2. runs[r].left \in SUBSET ((Name \cup Key) \X Second)
    BY LeftTyped DEF PairInv
  <2> QED
    BY <1>3, <2>1, <2>2
<1> QED
  BY <1>4, <1>5, <1>6
-----------------------------------------------------------------------------
(* The phone, its user and time.  A newer state of the file that the       *)
(* timer's run is at marks the stamp as swapped.                           *)
LEMMA DeliverPair ==
  ASSUME PairInv, IInv', NEW d \in todo.deliveries, Deliver(d)
  PROVE  PairInv'
<1>1. /\ UNCHANGED <<audio, md, partAudio, partMd, runs, shared, touched>>
      /\ taken' = taken \cup {d} /\ swapped \subseteq swapped' /\ d \in Delivery
  BY DEF Deliver, PairInv, IInv, FilesTyped, Budgets
<1>2. /\ drop' \in [Name -> File0 \cup {Nothing}] /\ d.name \in Name
      /\ drop'[d.name].rec = d.rec /\ drop'[d.name].at = d.at
      /\ \A n \in Name \ {d.name} : drop'[n] = drop[n]
  BY <1>1 DEF IInv, FilesTyped, Deliver, PairInv, Delivery
<1>3. HistoryGrows
  BY <1>1 DEF HistoryGrows
<1>4. FilesTrue'
  <2>1. DropTrue(drop[d.name])'
    BY <1>1, <1>2 DEF DropTrue, Of
  <2>2. \A n \in Name \ {d.name} : drop[n] = Nothing => DropTrue(drop[n])'
    BY <1>2 DEF DropTrue
  <2>3. \A n \in Name :
           \/ DropTrue(drop[n])'
           \/ drop[n] # Nothing /\ drop'[n].rec = drop[n].rec /\ drop'[n].at = drop[n].at
    BY <1>2, <2>1, <2>2
  <2> QED
    BY <1>1, <1>3, <2>3, FilesStayTrue
<1>5. ASSUME NEW q \in Run PROVE RunTrue(q)'
  <2>1. q = "timer" /\ At(q) =>
           \/ drop'[runs[q].src] = Nothing
           \/ drop[runs[q].src] # Nothing /\ drop'[runs[q].src].at = drop[runs[q].src].at
           \/ runs[q].stamp \in swapped'
    <3> SUFFICES ASSUME q = "timer", At(q), drop'[runs[q].src] # Nothing
                 PROVE  \/ /\ drop[runs[q].src] # Nothing
                           /\ drop'[runs[q].src].at = drop[runs[q].src].at
                        \/ runs[q].stamp \in swapped'
      OBVIOUS
    <3>1. runs[q].src \in Name
      BY Working DEF PairInv, Sources
    <3>2. CASE runs[q].src = d.name
      BY <3>2 DEF Deliver
    <3>3. CASE runs[q].src # d.name
      BY <1>2, <3>1, <3>3
    <3> QED
      BY <3>2, <3>3
  <2> QED
    BY <1>1, <1>3, <2>1, RunStaysTrue DEF SameButInto
<1>6. Apart' /\ taken' \subseteq Delivery
  BY <1>1 DEF PairInv, Apart, At
<1> QED
  BY <1>4, <1>5, <1>6 DEF PairInv

(* The phone deletes a recording, or its file comes to rest.               *)
LEMMA PhonePair ==
  ASSUME PairInv, IInv', NEW n \in Name, DeleteOnPhone(n) \/ Settle(n)
  PROVE  PairInv'
<1>1. UNCHANGED <<audio, md, partAudio, partMd, runs, taken, shared, swapped, touched>>
  BY DEF DeleteOnPhone, Settle, historyVars
<1>2. \A m \in Name : drop'[m] # Nothing =>
         /\ drop[m] # Nothing
         /\ drop'[m].at = drop[m].at /\ drop'[m].rec = drop[m].rec
  <2>1. CASE DeleteOnPhone(n)
    BY <2>1 DEF DeleteOnPhone, PairInv, IInv, FilesTyped
  <2>2. CASE Settle(n)
    <3>1. drop[n] \in File0 /\ drop' = [drop EXCEPT ![n] = [drop[n] EXCEPT !.settled = TRUE]]
      BY <2>2 DEF Settle, PairInv, IInv, FilesTyped
    <3>2. /\ [drop[n] EXCEPT !.settled = TRUE].at = drop[n].at
          /\ [drop[n] EXCEPT !.settled = TRUE].rec = drop[n].rec
      BY <3>1 DEF File0
    <3>3. drop[n] # Nothing /\ drop \in [Name -> File0 \cup {Nothing}]
      BY <2>2 DEF Settle, PairInv, IInv, FilesTyped
    <3> QED
      BY <3>1, <3>2, <3>3
  <2> QED
    BY <2>1, <2>2
<1>3. FilesTrue'
  <2>1. \A m \in Name : drop'[m] = Nothing => DropTrue(drop[m])'
    BY DEF DropTrue
  <2>2. HistoryGrows
    BY <1>1 DEF HistoryGrows
  <2>3. \A m \in Name :
           \/ DropTrue(drop[m])'
           \/ drop[m] # Nothing /\ drop'[m].rec = drop[m].rec /\ drop'[m].at = drop[m].at
    BY <1>2, <2>1
  <2> QED
    BY <1>1, <2>2, <2>3, FilesStayTrue
<1>4. ASSUME NEW q \in Run PROVE RunTrue(q)'
  <2>1. q = "timer" /\ At(q) => runs[q].src \in Name
    BY Working DEF PairInv, Sources
  <2> QED
    BY <1>1, <1>2, <2>1, RunStaysTrue DEF SameButInto, HistoryGrows
<1>5. Apart' /\ taken' \subseteq Delivery
  BY <1>1 DEF PairInv, Apart, At
<1> QED
  BY <1>3, <1>4, <1>5 DEF PairInv

(* Somebody deletes a transcript, or touches audio.                        *)
LEMMA UserPair ==
  ASSUME PairInv, IInv',
         \/ \E s \in Second : DeleteTranscript(s)
         \/ \E key \in Key, at \in Second : Touch(key, at)
  PROVE  PairInv'
<1>1. ASSUME NEW s \in Second, DeleteTranscript(s) PROVE PairInv'
  <2>1. /\ UNCHANGED <<drop, audio, partAudio, partMd, taken, shared, swapped, touched>>
        /\ HistoryGrows
    BY <1>1 DEF DeleteTranscript, historyVars, HistoryGrows
  <2>2. \A t \in Second : md'[t] = md[t] \/ md'[t] = Nothing
    BY <1>1 DEF DeleteTranscript, PairInv, IInv, FilesTyped
  <2>3. FilesTrue'
    <3>1. Nothing \notin Recording /\ Nothing # Truncated
      BY VoiceAssumption
    <3>2. \A t \in Second : TextTrue(t, md[t])' \/ md'[t] \in {md[t], partMd[t]}
      BY <2>2, <3>1 DEF TextTrue
    <3>3. \A t \in Second : md'[t] = Truncated => md[t] = Truncated
      BY <2>2, <3>1
    <3>4. \A n \in Name : DropTrue(drop[n])' \/ drop[n] # Nothing
      BY <2>1 DEF DropTrue
    <3> QED
      BY <2>1, <3>2, <3>3, <3>4, FilesStayTrue
  <2>4. \A q \in Run : SameButInto(q)
    <3> SUFFICES ASSUME NEW q \in Run PROVE SameButInto(q)
      OBVIOUS
    <3>1. runs[q] \in RunState
      BY LeftTyped DEF PairInv
    <3>2. \/ runs'[q] = runs[q]
          \/ runs'[q] = [runs[q] EXCEPT !.into = "gone"] /\ runs[q].into = "md"
      BY <1>1 DEF DeleteTranscript, Lose
    <3> QED
      BY <3>1, <3>2, VoiceAssumption DEF SameButInto, RunState
  <2>5. \A q \in Run : RunTrue(q)'
    <3> SUFFICES ASSUME NEW q \in Run PROVE RunTrue(q)'
      OBVIOUS
    <3>1. SameButInto(q)
      BY <2>4
    <3>2. drop'[runs[q].src] = Nothing \/ drop[runs[q].src] # Nothing
      BY <2>1
    <3> QED
      BY <2>1, <3>1, <3>2, RunStaysTrue
  <2>6. Apart' /\ taken' \subseteq Delivery
    BY <2>1, <2>4 DEF PairInv, Apart, At, SameButInto
  <2> QED
    BY <2>3, <2>5, <2>6 DEF PairInv
<1>2. ASSUME NEW key \in Key, NEW at \in Second, Touch(key, at) PROVE PairInv'
  <2>1. /\ UNCHANGED <<drop, md, partAudio, partMd, runs, taken, shared, swapped>>
        /\ touched' = touched \cup {key[1]} /\ HistoryGrows
    BY <1>2 DEF Touch, HistoryGrows
  <2>2. audio[key] \in Copy /\ audio[key] # Nothing
    BY <1>2 DEF Touch, PairInv, IInv, FilesTyped
  <2>3. audio'[key].rec = audio[key].rec /\ \A other \in Key \ {key} : audio'[other] = audio[other]
    BY <1>2, <2>2 DEF Touch, PairInv, IInv, FilesTyped, Copy
  <2>4. FilesTrue'
    <3>1. ASSUME NEW s \in Second \ swapped', NEW k \in Kind
          PROVE  AudioTrue(s, audio[<<s, k>>])' \/ audio'[<<s, k>>] = audio[<<s, k>>]
      <4>1. CASE <<s, k>> = key
        <5>1. s \in touched' /\ s \in Second \ swapped /\ key[1] = s
          BY <2>1, <4>1
        <5>2. audio[key].rec \in Of(s)
          BY <2>2, <4>1, <5>1 DEF PairInv, FilesTrue, AudioTrue
        <5> QED
          BY <2>1, <2>3, <4>1, <5>1, <5>2 DEF AudioTrue, Of
      <4>2. CASE <<s, k>> # key
        BY <2>3, <4>2 DEF Key
      <4> QED
        BY <4>1, <4>2
    <3>2. \A n \in Name : DropTrue(drop[n])' \/ drop[n] # Nothing
      BY <2>1 DEF DropTrue
    <3> QED
      BY <2>1, <3>1, <3>2, FilesStayTrue
  <2>5. \A q \in Run : RunTrue(q)'
    <3> SUFFICES ASSUME NEW q \in Run PROVE RunTrue(q)'
      OBVIOUS
    <3>1. drop'[runs[q].src] = Nothing \/ drop[runs[q].src] # Nothing
      BY <2>1
    <3> QED
      BY <2>1, <3>1, RunStaysTrue DEF SameButInto
  <2>6. Apart' /\ taken' \subseteq Delivery
    BY <2>1 DEF PairInv, Apart, At
  <2> QED
    BY <2>4, <2>5, <2>6 DEF PairInv
<1> QED
  BY <1>1, <1>2
-----------------------------------------------------------------------------
(* What a run has at hand was delivered under its stamp, and bears it.     *)
LEMMA SourceTrue ==
  ASSUME PairInv, NEW r \in Run, At(r), There(r, runs[r].src)
  PROVE  LET f == File(r, runs[r].src) IN
         /\ f.rec \in Recording
         /\ runs[r].stamp \notin swapped => f.rec \in Of(runs[r].stamp)
         /\ r = "timer" /\ runs[r].stamp \notin swapped => f.at = runs[r].stamp
<1>1. runs[r].src \in Sources(r) /\ runs[r].stamp \in Second /\ runs[r].kind \in Kind
  BY Working DEF PairInv
<1>2. CASE r = "timer"
  <2>1. runs[r].src \in Name /\ drop[runs[r].src] \in File0 /\ drop[runs[r].src] # Nothing
    BY <1>1, <1>2 DEF PairInv, IInv, FilesTyped, Sources, There
  <2>2. drop[runs[r].src].rec \in Of(drop[runs[r].src].at)
    BY <2>1 DEF PairInv, FilesTrue, DropTrue
  <2>3. runs[r].stamp \notin swapped => drop[runs[r].src].at = runs[r].stamp
    BY <1>2, <2>1 DEF PairInv, RunTrue
  <2> QED
    BY <1>2, <2>1, <2>2, <2>3 DEF File, File0
<1>3. CASE r = "recovery"
  <2>1. runs[r].src = <<runs[r].stamp, runs[r].kind>>
    BY <1>3 DEF PairInv, RunTrue
  <2>2. audio[runs[r].src] \in Copy /\ audio[runs[r].src] # Nothing
    BY <1>1, <1>3, <2>1 DEF PairInv, IInv, FilesTyped, There, Key
  <2>3. runs[r].stamp \notin swapped => audio[runs[r].src].rec \in Of(runs[r].stamp)
    BY <1>1, <2>1, <2>2 DEF PairInv, FilesTrue, AudioTrue
  <2> QED
    BY <1>3, <2>2, <2>3 DEF File, Copy
<1> QED
  BY <1>2, <1>3 DEF Run

(* A step of a run that goes on with what it has at hand.                  *)
LEMMA GoesOnPair ==
  ASSUME PairInv, IInv', NEW r \in Run, At(r), NEW new \in RunState, Put(r, new),
         UNCHANGED <<drop, historyVars>>, FilesTrue',
         new.src = runs[r].src, new.stamp = runs[r].stamp, new.kind = runs[r].kind,
         new.pc \in Holding, new.into \in {"part", Nothing},
         new.into # Nothing <=> new.pc = "fill",
         new.text \in Recording,
         runs[r].stamp \notin swapped => new.text \in Of(runs[r].stamp),
         new.pc = "copy" /\ runs[r].stamp \notin swapped => new.copied \in Of(runs[r].stamp),
         new.pc \in Written /\ runs[r].stamp \notin shared => partMd'[runs[r].stamp] # Truncated,
         \A s \in Second : partMd'[s] = Truncated => partMd[s] = Truncated \/ s = runs[r].stamp
  PROVE  PairInv'
<1>1. runs'[r] = new
  BY DEF PairInv, IInv, Runs, Put
<1>2. UNCHANGED <<taken, shared, swapped, touched>>
  BY DEF historyVars
<1>3. new.pc \notin {"idle", "next"}
  BY DEF Holding
<1>4. /\ r = "recovery" => new.src = <<new.stamp, new.kind>>
      /\ r = "timer" /\ new.stamp \notin swapped /\ drop[new.src] # Nothing =>
           drop[new.src].at = new.stamp
  BY DEF PairInv, RunTrue
<1>5. RunTrue(r)'
  BY <1>1, <1>2, <1>3, <1>4, VoiceAssumption DEF RunTrue, At, Of
<1> QED
  BY <1>2, <1>3, <1>5, StepKeepsPair

(* Picking a recording that the other run is at is known.                  *)
LEMMA PickPair ==
  ASSUME PairInv, IInv', NEW r \in Run, NEW one \in runs[r].left, Pick(r, one)
  PROVE  PairInv'
<1> DEFINE src == one[1]
           f == File(r, src)
           rest == [runs[r] EXCEPT !.left = @ \ {one}]
           new == [rest EXCEPT !.pc = "transcribe", !.src = src, !.stamp = f.at, !.kind = f.kind]
<1>1. UNCHANGED <<drop, audio, md, partAudio, partMd, todo, taken, swapped, touched>>
  BY DEF Pick
<1>2. /\ runs[r] \in RunState /\ runs[r].pc = "next" /\ runs[r].into = Nothing
      /\ runs[r].text = Nothing /\ runs[r].src = Nothing
      /\ runs[r].left \subseteq Sources(r) \X Second /\ src \in Sources(r)
  BY LeftTyped DEF Pick, PairInv, IInv, RunKnows, RunTrue, At, Holding
<1>3. rest \in RunState /\ rest.pc = "next" /\ rest.into = Nothing
      /\ rest.text = Nothing /\ rest.src = Nothing
  BY <1>2 DEF RunState
<1>4. CASE Put(r, rest) /\ shared' = shared
  <2> HIDE DEF rest
  <2> QED
    BY <1>1, <1>3, <1>4, RestKeepsPair
<1>5. CASE /\ There(r, src) /\ OwnName(r, src) /\ Put(r, new)
           /\ shared' = shared \cup {s \in {f.at} :
                \E other \in Run \ {r} : At(other) /\ runs[other].stamp = s}
  <2>1. f \in File0 /\ f.at \in Second /\ f.kind \in Kind
    BY <1>2, <1>5, FileTyped DEF PairInv, IInv, File0
  <2>2. /\ new \in RunState /\ new.pc = "transcribe" /\ new.into = Nothing /\ new.text = Nothing
        /\ new.src = src /\ new.stamp = f.at /\ new.kind = f.kind
    BY <1>2, <1>3, <2>1 DEF RunState, Sources
  <2>3. /\ r = "recovery" => src = <<f.at, f.kind>>
        /\ r = "timer" => drop[src].at = f.at
    BY <1>2, <1>5 DEF OwnName, File, Sources, Key
  <2>4. runs'[r] = new
    BY <1>5 DEF PairInv, IInv, Runs, Put
  <2>5. \A q \in Run \ {r} : At(q) /\ runs[q].stamp = f.at => f.at \in shared'
    BY <1>5
  <2>6. Put(r, new) /\ shared \subseteq shared'
    BY <1>5
  <2> HIDE DEF new, f, src
  <2>7. RunTrue(r)'
    BY <1>1, <2>2, <2>3, <2>4, VoiceAssumption DEF RunTrue, At, Holding, Written
  <2>8. FilesTrue'
    BY <1>1, <2>6 DEF PairInv, FilesTrue, DropTrue, TextTrue, AudioTrue, PartTrue, Of
  <2> QED
    BY <1>1, <2>2, <2>5, <2>6, <2>7, <2>8, StepKeepsPair
<1> QED
  BY <1>4, <1>5 DEF Pick

(* Whisper's text is of the recording that was read, unless the run ends.  *)
LEMMA TranscribePair ==
  ASSUME PairInv, IInv', NEW r \in Run, Transcribe(r) \/ SkipAudio(r)
  PROVE  PairInv'
<1>1. UNCHANGED <<drop, audio, md, partAudio, partMd, taken, shared, swapped, touched>> /\ At(r)
  BY DEF Transcribe, SkipAudio, historyVars, At
<1>2. runs[r] \in RunState /\ RunTrue(r)
  BY <1>1, Working DEF PairInv
<1>3. FilesTrue'
  BY <1>1 DEF PairInv, FilesTrue, DropTrue, TextTrue, AudioTrue, PartTrue, Of
<1>4. CASE Transcribe(r) /\ File(r, runs[r].src).rec \in Unfoldable
  <2>1. Put(r, Idle)
    BY <1>4 DEF Transcribe
  <2> QED
    BY <1>1, <2>1, IdleTrue, RestKeepsPair
<1>5. CASE Transcribe(r) /\ File(r, runs[r].src).rec \notin Unfoldable
  <2> DEFINE text == File(r, runs[r].src).rec
             new == [runs[r] EXCEPT !.pc = "open", !.text = text]
  <2>1. text \in Recording /\ (runs[r].stamp \notin swapped => text \in Of(runs[r].stamp))
    BY <1>1, <1>5, SourceTrue DEF Transcribe
  <2>2. /\ new \in RunState /\ new.pc = "open" /\ new.text = text /\ new.into = runs[r].into
        /\ new.src = runs[r].src /\ new.stamp = runs[r].stamp /\ new.kind = runs[r].kind
    BY <1>2, <2>1 DEF RunState, Text
  <2>3. Put(r, new) /\ runs[r].pc = "transcribe"
    BY <1>5 DEF Transcribe
  <2>4. runs[r].into = Nothing
    BY <1>2, <2>3 DEF RunTrue
  <2>5. new.pc \in Holding /\ new.pc \notin Written
    BY <2>2 DEF Holding, Written
  <2> HIDE DEF new, text
  <2> QED
    BY <1>1, <1>3, <2>1, <2>2, <2>3, <2>4, <2>5, GoesOnPair DEF historyVars
<1>6. CASE SkipAudio(r)
  <2> DEFINE new == [runs[r] EXCEPT !.pc = "renamemd"]
  <2>1. /\ new \in RunState /\ new.pc = "renamemd" /\ new.text = runs[r].text
        /\ new.into = runs[r].into
        /\ new.src = runs[r].src /\ new.stamp = runs[r].stamp /\ new.kind = runs[r].kind
    BY <1>2 DEF RunState
  <2>2. Put(r, new) /\ runs[r].pc = "audio"
    BY <1>6 DEF SkipAudio
  <2>3. /\ runs[r].into = Nothing /\ runs[r].text \in Recording
        /\ runs[r].stamp \notin swapped => runs[r].text \in Of(runs[r].stamp)
        /\ runs[r].stamp \notin shared => partMd[runs[r].stamp] # Truncated
    BY <1>2, <2>2 DEF RunTrue, Holding, Written
  <2>4. new.pc \in Holding
    BY <2>1 DEF Holding
  <2> HIDE DEF new
  <2> QED
    BY <1>1, <1>3, <2>1, <2>2, <2>3, <2>4, GoesOnPair DEF historyVars
<1> QED
  BY <1>4, <1>5, <1>6
(* The partial transcript is cut short, then whole; a run whose partial    *)
(* file was taken from it met the other run.                               *)
LEMMA WriteMdPair ==
  ASSUME PairInv, IInv', NEW r \in Run, OpenMd(r) \/ FillMd(r)
  PROVE  PairInv'
<1> DEFINE s == runs[r].stamp
           text == runs[r].text
<1>1. UNCHANGED <<drop, audio, partAudio, historyVars>> /\ At(r) /\ runs[r].pc \in Holding
  BY DEF OpenMd, FillMd, At, Holding
<1>2. runs[r] \in RunState /\ RunTrue(r) /\ s \in Second
  BY <1>1, Working DEF PairInv
<1>3. text \in Recording /\ (s \notin swapped => text \in Of(s))
  BY <1>1, <1>2 DEF RunTrue
<1>4. UNCHANGED <<taken, shared, swapped, touched>> /\ HistoryGrows
  BY <1>1 DEF historyVars, HistoryGrows
<1>5. md \in [Second -> Text] /\ partMd \in [Second -> Text]
  BY DEF PairInv, IInv, FilesTyped
<1>6. Truncated \notin Recording /\ Nothing \notin Recording
  BY VoiceAssumption
<1>7. \A n \in Name : DropTrue(drop[n])' \/ drop[n] # Nothing
  BY <1>1 DEF DropTrue
<1>8. CASE OpenMd(r)
  <2> DEFINE new == [runs[r] EXCEPT !.pc = "fill", !.into = "part"]
  <2>1. /\ new \in RunState /\ new.pc = "fill" /\ new.text = text /\ new.into = "part"
        /\ new.src = runs[r].src /\ new.stamp = s /\ new.kind = runs[r].kind
    BY <1>2 DEF RunState
  <2>2. Put(r, new) /\ md' = md /\ partMd' = [partMd EXCEPT ![s] = Truncated]
    BY <1>8 DEF OpenMd, PartOf
  <2>3. \A t \in Second : TextTrue(t, partMd[t])' \/ partMd'[t] = partMd[t]
    BY <1>5, <1>6, <2>2 DEF TextTrue
  <2>4. FilesTrue'
    BY <1>1, <1>4, <1>7, <2>2, <2>3, FilesStayTrue
  <2>5. \A t \in Second : partMd'[t] = Truncated => partMd[t] = Truncated \/ t = s
    BY <1>5, <2>2
  <2>6. new.pc \in Holding /\ new.pc \notin Written
    BY <2>1 DEF Holding, Written
  <2> HIDE DEF new
  <2> QED
    BY <1>1, <1>3, <2>1, <2>2, <2>4, <2>5, <2>6, GoesOnPair, VoiceAssumption
<1>9. CASE FillMd(r)
  <2> DEFINE new == [runs[r] EXCEPT !.pc = "audio", !.into = Nothing]
  <2>1. /\ new \in RunState /\ new.pc = "audio" /\ new.text = text /\ new.into = Nothing
        /\ new.src = runs[r].src /\ new.stamp = s /\ new.kind = runs[r].kind
    BY <1>2 DEF RunState
  <2>2. /\ Put(r, new)
        /\ partMd' = IF runs[r].into = "part" THEN [partMd EXCEPT ![s] = text] ELSE partMd
        /\ md' = IF runs[r].into = "md" THEN [md EXCEPT ![s] = text] ELSE md
    BY <1>9 DEF FillMd, PartOf
  <2>3. \A t \in Second \ swapped' : TextTrue(t, partMd[t])' \/ partMd'[t] = partMd[t]
    BY <1>3, <1>4, <1>5, <2>2 DEF TextTrue, Of
  <2>4. \A t \in Second \ swapped' : TextTrue(t, md[t])' \/ md'[t] \in {md[t], partMd[t]}
    BY <1>3, <1>4, <1>5, <2>2 DEF TextTrue, Of
  <2>5. \A t \in Second : md'[t] = Truncated => md[t] = Truncated
    BY <1>3, <1>5, <1>6, <2>2
  <2>6. FilesTrue'
    BY <1>1, <1>4, <1>7, <2>3, <2>4, <2>5, FilesStayTrue
  <2>7. \A t \in Second : partMd'[t] = Truncated => partMd[t] = Truncated
    BY <1>3, <1>5, <1>6, <2>2
  <2>8. s \notin shared => partMd'[s] # Truncated
    <3> SUFFICES ASSUME s \notin shared PROVE partMd'[s] # Truncated
      OBVIOUS
    <3>1. runs[r].into = "part"
      BY <1>2, <1>9 DEF FillMd, RunState, RunTrue
    <3> QED
      BY <1>2, <1>3, <1>5, <1>6, <2>2, <3>1
  <2>9. new.pc \in Holding
    BY <2>1 DEF Holding
  <2> HIDE DEF new
  <2> QED
    BY <1>1, <1>3, <2>1, <2>2, <2>6, <2>7, <2>8, <2>9, GoesOnPair
<1> QED
  BY <1>8, <1>9

(* The copy is of the recording under its stamp, and bears its time.       *)
LEMMA CopyPair ==
  ASSUME PairInv, IInv', NEW r \in Run, StartCopy(r) \/ FinishCopy(r)
  PROVE  PairInv'
<1> DEFINE s == runs[r].stamp
           key == <<s, runs[r].kind>>
<1>1. UNCHANGED <<drop, audio, md, partMd, historyVars>> /\ At(r) /\ There(r, runs[r].src)
  BY DEF StartCopy, FinishCopy, At
<1>2. runs[r] \in RunState /\ RunTrue(r) /\ s \in Second /\ key \in Key
  BY <1>1, Working DEF PairInv
<1>3. UNCHANGED <<taken, shared, swapped, touched>> /\ HistoryGrows
  BY <1>1 DEF historyVars, HistoryGrows
<1>4. /\ runs[r].text \in Recording /\ (s \notin swapped => runs[r].text \in Of(s))
      /\ s \notin shared => partMd[s] # Truncated
      /\ runs[r].into = Nothing
  BY <1>2 DEF StartCopy, FinishCopy, RunTrue, Holding, Written
<1>5. partAudio \in [Key -> Copy \cup {Half, Nothing}]
  BY DEF PairInv, IInv, FilesTyped
<1>6. \A n \in Name : DropTrue(drop[n])' \/ drop[n] # Nothing
  BY <1>1 DEF DropTrue
<1>7. LET f == File(r, runs[r].src) IN
         /\ f.rec \in Recording
         /\ s \notin swapped => f.rec \in Of(s)
         /\ r = "timer" /\ s \notin swapped => f.at = s
  BY <1>1, SourceTrue
<1>8. CASE StartCopy(r)
  <2> DEFINE copied == File(r, runs[r].src).rec
             new == [runs[r] EXCEPT !.pc = "copy", !.copied = copied]
  <2>1. copied \in Recording /\ (s \notin swapped => copied \in Of(s))
    BY <1>7
  <2>2. /\ new \in RunState /\ new.pc = "copy" /\ new.text = runs[r].text
        /\ new.into = Nothing /\ new.copied = copied
        /\ new.src = runs[r].src /\ new.stamp = s /\ new.kind = runs[r].kind
    BY <1>2, <1>4, <2>1 DEF RunState, Text
  <2>3. Put(r, new) /\ partAudio' = [partAudio EXCEPT ![key] = Half]
    BY <1>8 DEF StartCopy
  <2>4. \A t \in Second \ swapped', k \in Kind :
           PartTrue(t, partAudio[<<t, k>>])' \/ partAudio'[<<t, k>>] = partAudio[<<t, k>>]
    BY <1>5, <2>3, VoiceAssumption DEF PartTrue, Copy, Key
  <2>5. FilesTrue'
    BY <1>1, <1>3, <1>6, <2>4, FilesStayTrue
  <2>6. new.pc \in Holding
    BY <2>2 DEF Holding
  <2> HIDE DEF new, copied
  <2> QED
    BY <1>1, <1>4, <2>1, <2>2, <2>3, <2>5, <2>6, GoesOnPair
<1>9. CASE FinishCopy(r)
  <2> DEFINE copy == [rec |-> runs[r].copied, at |-> TimeOfCopy(r)]
             new == [runs[r] EXCEPT !.pc = "renameaudio"]
  <2>1. r = "timer" /\ runs[r].pc = "copy"
    BY <1>1, <1>9 DEF FinishCopy, PairInv, IInv, RunKnows, Run
  <2>2. s \notin swapped => copy.rec \in Of(s) /\ copy.at = s
    BY <1>2, <1>7, <2>1 DEF RunTrue, TimeOfCopy
  <2>3. /\ new \in RunState /\ new.pc = "renameaudio" /\ new.text = runs[r].text
        /\ new.into = Nothing
        /\ new.src = runs[r].src /\ new.stamp = s /\ new.kind = runs[r].kind
    BY <1>2, <1>4 DEF RunState
  <2>4. Put(r, new) /\ partAudio' = [partAudio EXCEPT ![key] = copy]
    BY <1>9 DEF FinishCopy
  <2>5. \A t \in Second \ swapped', k \in Kind :
           PartTrue(t, partAudio[<<t, k>>])' \/ partAudio'[<<t, k>>] = partAudio[<<t, k>>]
    <3> SUFFICES ASSUME NEW t \in Second \ swapped', NEW k \in Kind
                 PROVE  \/ PartTrue(t, partAudio[<<t, k>>])'
                        \/ partAudio'[<<t, k>>] = partAudio[<<t, k>>]
      OBVIOUS
    <3> HIDE DEF copy
    <3>1. CASE <<t, k>> = key
      <4>1. t = s /\ partAudio'[<<t, k>>] = copy
        BY <1>2, <1>5, <2>4, <3>1
      <4> QED
        BY <1>3, <2>2, <4>1 DEF PartTrue, Of
    <3>2. CASE <<t, k>> # key
      BY <1>5, <2>4, <3>2 DEF Key
    <3> QED
      BY <3>1, <3>2
  <2>6. FilesTrue'
    BY <1>1, <1>3, <1>6, <2>5, FilesStayTrue
  <2>7. new.pc \in Holding
    BY <2>3 DEF Holding
  <2> HIDE DEF new, copy
  <2> QED
    BY <1>1, <1>4, <2>3, <2>4, <2>6, <2>7, GoesOnPair
<1> QED
  BY <1>8, <1>9

(* The rename that puts audio under its name: it is what the run           *)
(* transcribed.                                                            *)
LEMMA RenameAudioPair ==
  ASSUME PairInv, IInv', NEW r \in Run, RenameAudio(r)
  PROVE  PairInv'
<1> DEFINE s == runs[r].stamp
           key == <<s, runs[r].kind>>
           new == [runs[r] EXCEPT !.pc = "renamemd"]
<1>1. UNCHANGED <<drop, md, partMd, historyVars>> /\ At(r) /\ runs[r].pc = "renameaudio"
  BY DEF RenameAudio, At
<1>2. runs[r] \in RunState /\ RunTrue(r) /\ s \in Second /\ key \in Key /\ runs[r].kind \in Kind
  BY <1>1, Working DEF PairInv
<1>3. UNCHANGED <<taken, shared, swapped, touched>> /\ HistoryGrows
  BY <1>1 DEF historyVars, HistoryGrows
<1>4. /\ runs[r].text \in Recording /\ (s \notin swapped => runs[r].text \in Of(s))
      /\ s \notin shared => partMd[s] # Truncated
      /\ runs[r].into = Nothing
  BY <1>1, <1>2 DEF RunTrue, Holding, Written
<1>5. partAudio \in [Key -> Copy \cup {Half, Nothing}] /\ audio \in [Key -> Copy \cup {Nothing}]
  BY DEF PairInv, IInv, FilesTyped
<1>6. partAudio[key] \in Copy
  BY <1>1 DEF PairInv, IInv, RunKnows
<1>7. s \notin swapped => partAudio[key].rec \in Of(s) /\ partAudio[key].at = s
  BY <1>2, <1>6 DEF PairInv, FilesTrue, PartTrue
<1>8. /\ audio' = [audio EXCEPT ![key] = partAudio[key]]
      /\ partAudio' = [partAudio EXCEPT ![key] = Nothing]
  BY DEF RenameAudio
<1>9. FilesTrue'
  <2>1. ASSUME NEW t \in Second \ swapped', NEW k \in Kind
        PROVE  AudioTrue(t, audio[<<t, k>>])' \/ audio'[<<t, k>>] = audio[<<t, k>>]
    <3>1. CASE <<t, k>> = key
      <4>1. t = s /\ audio'[<<t, k>>] = partAudio[key] /\ t \notin swapped
        BY <1>2, <1>3, <1>5, <1>8, <3>1
      <4> QED
        BY <1>3, <1>7, <4>1 DEF AudioTrue, Of
    <3>2. CASE <<t, k>> # key
      BY <1>5, <1>8, <3>2 DEF Key
    <3> QED
      BY <3>1, <3>2
  <2>2. \A t \in Second \ swapped', k \in Kind :
           PartTrue(t, partAudio[<<t, k>>])' \/ partAudio'[<<t, k>>] = partAudio[<<t, k>>]
    BY <1>5, <1>8, VoiceAssumption DEF PartTrue, Copy, Key
  <2>3. \A n \in Name : DropTrue(drop[n])' \/ drop[n] # Nothing
    BY <1>1 DEF DropTrue
  <2> QED
    BY <1>1, <1>3, <2>1, <2>2, <2>3, FilesStayTrue
<1>10. /\ new \in RunState /\ new.pc = "renamemd" /\ new.text = runs[r].text /\ new.into = Nothing
       /\ new.src = runs[r].src /\ new.stamp = s /\ new.kind = runs[r].kind
  BY <1>2, <1>4 DEF RunState
<1>11. Put(r, new)
  BY DEF RenameAudio
<1>12. new.pc \in Holding
  BY <1>10 DEF Holding
<1> HIDE DEF new
<1> QED
  BY <1>1, <1>4, <1>9, <1>10, <1>11, <1>12, GoesOnPair

(* The transcript gets its name: it is cut short only where two runs met.  *)
LEMMA RenameMdPair ==
  ASSUME PairInv, IInv', NEW r \in Run, RenameMd(r)
  PROVE  PairInv'
<1> DEFINE s == runs[r].stamp
           new == [Idle EXCEPT !.pc = "next", !.left = runs[r].left]
<1>1. /\ UNCHANGED <<drop, audio, partAudio, taken, shared, swapped, touched>> /\ HistoryGrows
      /\ At(r) /\ runs[r].pc = "renamemd"
  BY DEF RenameMd, At, historyVars, HistoryGrows
<1>2. runs[r] \in RunState /\ RunTrue(r) /\ s \in Second
  BY <1>1, Working DEF PairInv
<1>3. /\ new \in RunState /\ new.pc = "next" /\ new.src = Nothing /\ new.text = Nothing
      /\ new.into = Nothing
  BY LeftTyped, IdleTrue DEF PairInv
<1>4. CASE partMd[s] = Nothing
  <2>1. UNCHANGED <<md, partMd>> /\ Put(r, new)
    BY <1>4 DEF RenameMd, PartOf, Onward
  <2> HIDE DEF new
  <2> QED
    BY <1>1, <1>3, <2>1, RestKeepsPair
<1>5. CASE partMd[s] # Nothing
  <2>1. /\ md' = [md EXCEPT ![s] = partMd[s]]
        /\ partMd' = [partMd EXCEPT ![s] = Nothing]
        /\ runs' = Follow(r, s)
    BY <1>5 DEF RenameMd, PartOf
  <2>2. md \in [Second -> Text] /\ partMd \in [Second -> Text]
    BY DEF PairInv, IInv, FilesTyped
  <2>3. Nothing # Truncated /\ Nothing \notin Recording
    BY VoiceAssumption
  <2>4. FilesTrue'
    <3>1. \A t \in Second : md'[t] \in {md[t], partMd[t]}
      BY <2>1, <2>2
    <3>2. \A t \in Second : TextTrue(t, partMd[t])' \/ partMd'[t] = partMd[t]
      BY <2>1, <2>2, <2>3 DEF TextTrue
    <3>3. s \notin shared => partMd[s] # Truncated
      BY <1>1, <1>2 DEF RunTrue, Written
    <3>4. \A t \in Second : md'[t] = Truncated => md[t] = Truncated \/ t \in shared'
      BY <1>1, <2>1, <2>2, <3>3
    <3>5. \A n \in Name : DropTrue(drop[n])' \/ drop[n] # Nothing
      BY <1>1 DEF DropTrue
    <3> QED
      BY <1>1, <3>1, <3>2, <3>4, <3>5, FilesStayTrue
  <2>5. runs'[r] = new
    BY <2>1 DEF Follow, Onward
  <2>6. RunTrue(r)'
    <3> HIDE DEF new
    <3> QED
      BY <1>3, <2>5, VoiceAssumption DEF RunTrue, At, Holding, Written
  <2>7. ASSUME NEW q \in Run \ {r} PROVE SameButInto(q) /\ RunTrue(q)'
    <3>1. runs[q] \in RunState /\ (runs[q].into # Nothing => At(q))
      BY LeftTyped DEF PairInv, IInv, RunKnows
    <3>2. \/ runs'[q] = runs[q]
          \/ \E to \in {"md", "gone"} :
               /\ runs'[q] = [runs[q] EXCEPT !.into = to]
               /\ runs[q].stamp = s /\ runs[q].into \in {"part", "md"}
      BY <2>1 DEF Follow
    <3>3. SameButInto(q)
      <4>1. CASE runs'[q] = runs[q]
        BY <4>1 DEF SameButInto
      <4>2. ASSUME NEW to \in {"md", "gone"}, runs'[q] = [runs[q] EXCEPT !.into = to],
                   runs[q].stamp = s, runs[q].into \in {"part", "md"}
            PROVE  SameButInto(q)
        <5>1. runs[q].into # Nothing /\ At(q)
          BY <3>1, <4>2, VoiceAssumption
        <5>2. s \in shared'
          BY <1>1, <4>2, <5>1 DEF PairInv, Apart
        <5> QED
          BY <3>1, <4>2, <5>1, <5>2, VoiceAssumption DEF SameButInto, RunState
      <4> QED
        BY <3>2, <4>1, <4>2
    <3>4. At(q) => runs[q].stamp \in Second
      BY Working DEF PairInv
    <3>5. At(q) /\ partMd'[runs[q].stamp] = Truncated => partMd[runs[q].stamp] = Truncated
      BY <2>1, <2>2, <2>3, <3>4
    <3>6. drop'[runs[q].src] = Nothing \/ drop[runs[q].src] # Nothing
      BY <1>1
    <3> QED
      BY <1>1, <3>3, <3>5, <3>6, RunStaysTrue
  <2>8. Apart'
    <3>1. ~At(r)'
      BY <1>3, <2>5 DEF At
    <3> QED
      BY <1>1, <2>7, <3>1 DEF PairInv, Apart, At, SameButInto
  <2> QED
    BY <1>1, <2>4, <2>6, <2>7, <2>8 DEF PairInv
<1> QED
  BY <1>4, <1>5
-----------------------------------------------------------------------------
(* Every step keeps the invariant.                                         *)
LEMMA NextPairInv == PairInv /\ [Next]_vars => PairInv'
<1> SUFFICES ASSUME PairInv, [Next]_vars PROVE PairInv'
  OBVIOUS
<1>1. IInv'
  BY NextIInv DEF PairInv
<1>2. CASE UNCHANGED vars
  <2>1. /\ UNCHANGED <<drop, audio, md, partAudio, partMd, runs, taken, shared, swapped, touched>>
        /\ HistoryGrows
    BY <1>2 DEF vars, historyVars, HistoryGrows
  <2>2. FilesTrue' /\ Apart'
    BY <2>1 DEF PairInv, FilesTrue, DropTrue, TextTrue, AudioTrue, PartTrue, Of, Apart, At
  <2>3. ASSUME NEW q \in Run PROVE RunTrue(q)'
    <3>1. drop'[runs[q].src] = Nothing \/ drop[runs[q].src] # Nothing
      BY <2>1
    <3> QED
      BY <2>1, <3>1, RunStaysTrue DEF SameButInto
  <2> QED
    BY <1>1, <2>1, <2>2, <2>3 DEF PairInv
<1>3. CASE \/ \E d \in todo.deliveries : Deliver(d)
           \/ \E n \in Name : DeleteOnPhone(n) \/ Settle(n)
  BY <1>1, <1>3, DeliverPair, PhonePair
<1>4. CASE \/ \E s \in Second : DeleteTranscript(s)
           \/ \E key \in Key, at \in Second : Touch(key, at)
  BY <1>1, <1>4, UserPair
<1>5. ASSUME NEW r \in Run, Begin(r) \/ Step(r) \/ Answer(r) \/ KillRun(r)
      PROVE  PairInv'
  BY <1>1, <1>5, RestingPair, PickPair, TranscribePair, WriteMdPair, CopyPair,
     RenameAudioPair, RenameMdPair DEF Step, Answer
<1> QED
  BY <1>2, <1>3, <1>4, <1>5 DEF Next

(* What the phone has delivered and may still deliver changes only by a    *)
(* delivery going from the one to the other.                               *)
LEMMA NextTimesInv == TimesInv /\ [Next]_vars => TimesInv'
<1> SUFFICES ASSUME TimesInv, [Next]_vars PROVE TimesInv'
  OBVIOUS
<1>1. PairInv'
  BY NextPairInv DEF TimesInv
<1>2. todo \in Budgets
  BY DEF TimesInv, PairInv, IInv, FilesTyped
<1>3. taken' \cup todo'.deliveries \subseteq taken \cup todo.deliveries
  <2>1. CASE UNCHANGED vars
    BY <2>1 DEF vars, historyVars
  <2>2. CASE \E d \in todo.deliveries : Deliver(d)
    BY <1>2, <2>2 DEF Deliver, Budgets
  <2>3. CASE \/ \E n \in Name : DeleteOnPhone(n) \/ Settle(n)
             \/ \E s \in Second : DeleteTranscript(s)
             \/ \E key \in Key, at \in Second : Touch(key, at)
    BY <1>2, <2>3 DEF DeleteOnPhone, Settle, DeleteTranscript, Touch, historyVars, Budgets
  <2>4. ASSUME NEW r \in Run, Begin(r) \/ KillRun(r)
        PROVE  taken' \cup todo'.deliveries \subseteq taken \cup todo.deliveries
    BY <1>2, <2>4 DEF Begin, KillRun, historyVars, Budgets
  <2>5. ASSUME NEW r \in Run, Step(r) \/ Answer(r)
        PROVE  taken' \cup todo'.deliveries \subseteq taken \cup todo.deliveries
    <3>1. UNCHANGED <<todo, taken>>
      BY <2>5 DEF Step, Answer, End, Pick, GiveUp, OpenMd, FillMd, SkipAudio, StartCopy,
         FinishCopy, RenameAudio, RenameMd, WhisperFails, Transcribe, historyVars
    <3> QED
      BY <3>1
  <2> QED
    BY <2>1, <2>2, <2>3, <2>4, <2>5 DEF Next
<1> QED
  BY <1>1, <1>3 DEF TimesInv, OneTimeEach

(* What the invariant says of the archive's pairs.                         *)
LEMMA PairsAreSound == PairInv => PairSound
<1> SUFFICES ASSUME PairInv PROVE PairSound
  OBVIOUS
<1>1. FilesTyped /\ Runs /\ (\A r \in Run : RunTyped(r)) /\ FilesTrue
  BY DEF PairInv, IInv
<1>2. TypeOK
  <2>1. \A n \in Name : drop[n] # Nothing => drop[n].at \in Second /\ drop[n].kind \in Kind
    BY <1>1 DEF FilesTyped, File0
  <2>2. \A s \in Second : md[s] \in Recording \cup {Truncated, Nothing}
    BY <1>1 DEF FilesTyped, Text
  <2>3. \A k \in Key : audio[k] # Nothing => audio[k].rec \in Recording
    BY <1>1 DEF FilesTyped, Copy
  <2>4. ASSUME NEW r \in Run
        PROVE  /\ runs[r].pc \in {"idle", "next", "transcribe", "open", "fill", "audio", "copy",
                                  "renameaudio", "renamemd"}
               /\ At(r) <=> runs[r].src # Nothing
               /\ runs[r].text # Nothing <=>
                    runs[r].pc \in {"fill", "audio", "copy", "renameaudio", "renamemd", "open"}
               /\ runs[r].into # Nothing => runs[r].pc = "fill"
    <3>1. runs[r] \in RunState /\ RunTyped(r) /\ RunTrue(r)
      BY <1>1 DEF Runs, PairInv
    <3>2. At(r) => runs[r].src # Nothing
      BY <3>1, VoiceAssumption DEF RunTyped, Sources, Key
    <3>3. Nothing \notin Recording
      BY VoiceAssumption
    <3> QED
      BY <3>1, <3>2, <3>3 DEF RunState, RunTrue, Holding
  <2> QED
    BY <2>1, <2>2, <2>3, <2>4 DEF TypeOK
<1>3. PairMatches
  <2> SUFFICES ASSUME NEW s \in Second, NEW k \in Kind, md[s] \in Recording,
                      audio[<<s, k>>] # Nothing, ~Clash(s), s \notin swapped
               PROVE  audio[<<s, k>>].rec = md[s]
    BY DEF PairMatches
  <2>1. md[s] \in Of(s) /\ audio[<<s, k>>].rec \in Of(s)
    BY <1>1 DEF FilesTrue, TextTrue, AudioTrue
  <2> QED
    BY <2>1 DEF Of, Clash
<1>4. MarkerIsWhole
  BY <1>1, VoiceAssumption DEF MarkerIsWhole, FilesTrue, FilesTyped, Copy
<1> QED
  BY <1>2, <1>3, <1>4 DEF PairSound

(* What it says of the audio's times.                                      *)
LEMMA StampsAreTimes == PairInv => RecordingCanBeRebuilt
<1> SUFFICES ASSUME PairInv, NEW s \in Second, NEW k \in Kind, audio[<<s, k>>] # Nothing,
                    s \notin touched \cup swapped
             PROVE  audio[<<s, k>>].at = s
  BY DEF RecordingCanBeRebuilt, Key
<1> QED
  BY DEF PairInv, FilesTrue, AudioTrue

(* What the history of deliveries says of the stamps.                      *)
LEMMA StampsName == TimesInv => StampNamesIt
<1> SUFFICES ASSUME TimesInv PROVE OneEntryEach
  BY StampsAreTimes DEF StampNamesIt, TimesInv
<1> SUFFICES ASSUME NEW s \in Second \ swapped, NEW t \in Second \ swapped, s # t,
                    md[s] \in Recording, md[s] = md[t]
             PROVE  FALSE
  BY DEF OneEntryEach
<1>1. md[s] \in Of(s) /\ md[s] \in Of(t)
  BY DEF TimesInv, PairInv, FilesTrue, TextTrue
<1> QED
  BY <1>1 DEF Of, TimesInv, OneTimeEach

(* A transcript and the audio beside it are of one recording unless two    *)
(* recordings have one second or a source changed under a run, a           *)
(* transcript is cut short only where two runs met, and audio never is,    *)
(* through every kill and delivery (process).                              *)
THEOREM PairsStaySound == Spec => []PairSound
<1> QED
  BY InitPairInv, NextPairInv, PairsAreSound, PTL DEF Spec

(* Audio in the archive bears the time it is named by, whatever is killed  *)
(* or deleted, unless somebody touched it (copy2, stamp_for).              *)
THEOREM ArchiveRebuilds == Spec => []RecordingCanBeRebuilt
<1> QED
  BY InitPairInv, NextPairInv, StampsAreTimes, PTL DEF Spec

(* Where a recording has one modification time, the archive names it by    *)
(* that time and by no other, so that a transcript can be made again from  *)
(* it and a recovery files it under no second name (stamp_for, process).   *)
THEOREM StampsStayNames ==
  Spec /\ OneTimeEach(todo.deliveries) => []StampNamesIt
<1>1. Init /\ OneTimeEach(todo.deliveries) => TimesInv
  <2> SUFFICES ASSUME Init, OneTimeEach(todo.deliveries) PROVE TimesInv
    OBVIOUS
  <2>1. taken \cup todo.deliveries = todo.deliveries
    BY DEF Init
  <2> QED
    BY <2>1, InitPairInv DEF TimesInv
<1> QED
  BY <1>1, NextTimesInv, StampsName, PTL DEF Spec
=============================================================================
