--------------------------- MODULE MCStreamSchedule ---------------------------
(***************************************************************************)
(* Jobs of three tracks for TLC: a picture with a piece at every time, a   *)
(* sound that may start late, pause, stop early or be missing, and a       *)
(* sparse subtitle, in one file or two; and jobs of subtitles alone.       *)
(***************************************************************************)
EXTENDS StreamSchedule

CONSTANT T      \* the length of the picture

\* The times of the sound: from..pause-1 and back..T-1.
Sound(from, pause, back) ==
  [n \in 1..(pause - from + T - back) |->
     IF n <= pause - from THEN from + n - 1 ELSE back + n - 1 - (pause - from)]

Sounds ==
  {Sound(0, T, T),          \* as long as the picture
   Sound(0, 3, 5),          \* a short pause
   Sound(0, 2, T - 1),      \* a pause in which the picture outgrows MaxHeld
   Sound(T - 2, T, T),      \* starts late
   Sound(0, 2, T),          \* ends early
   <<>>}                    \* has no data

Picture == [n \in 1..T |-> n - 1]

\* The last event of a drawn subtitle gives many pictures, more than a block, at the end.
Subtitles == {<<>>, <<0, 7, 8>>, <<1, T - 1, T - 1, T - 1, T - 1>>}

First(times) == IF times = <<>> THEN 0 ELSE times[1]

\* order: which tracks are the picture, the sound and the subtitle; apart: the track in
\* a file of its own, which has a piece in each block; lead: how much earlier than the
\* others the picture is stored; withLast: the end comes with the last block
Job(order, apart, picture, sound, subtitle, shift, lead, kind, withLast) ==
  LET kept == [t \in Tracks |-> CASE t = order[1] -> picture
                                  [] t = order[2] -> sound
                                  [] OTHER -> subtitle]
      file == [t \in Tracks |-> IF t = apart THEN "g" ELSE "f"]
      At(t) == IF t = order[1] THEN 0 ELSE lead
      Upto(f, k, t) ==
        IF file[t] # f THEN 0
        ELSE IF f = "g" THEN k
        ELSE Cardinality({n \in DOMAIN kept[t] : kept[t][n] + At(t) < k})
      Blocks(f) == IF f = "f" THEN T + lead ELSE IF apart = 0 THEN 0 ELSE Len(kept[apart])
      Start(t) == IF t = order[2] THEN First(sound) ELSE 0
      Pause(t, n) == IF t = order[2] /\ n > 1 THEN sound[n] - sound[n - 1] - 1 ELSE 0
  IN  [file |-> file,
       sparse |-> [t \in Tracks |-> t = order[3]],
       keeps |-> [t \in Tracks |-> t = order[1]],
       shift |-> [t \in Tracks |-> IF t = order[3] THEN shift ELSE IF withLast THEN 0 ELSE Start(t)],
       clipStart |-> [t \in Tracks |-> IF withLast THEN Start(t) ELSE 0],
       long |-> [t \in Tracks |-> 1],
       upto |-> [f \in Files |-> [k \in 1..Blocks(f) |-> [t \in Tracks |-> Upto(f, k, t)]]],
       reads |-> [f \in Files |-> Blocks(f)],
       endsWithLast |-> [f \in Files |-> withLast],
       tells |-> [f \in Files |-> kind = "ts"],
       limited |-> [f \in Files |-> kind # "mp4"],
       time |-> kept,
       dts |-> [t \in Tracks |-> [n \in DOMAIN kept[t] |-> kept[t][n] - Start(t)]],
       gap |-> [t \in Tracks |-> [n \in DOMAIN kept[t] |-> Pause(t, n)]]]

\* The subtitle's timeshift, and how much the picture is ahead of its place in the file
Shifts == {<<0, 0>>, <<-2, 0>>, <<-2, 1>>}

\* A transport stream, whose demuxer tells how far it has read; a program stream, whose
\* demuxer does not; an MP4 file, which has no limit.
Kinds == {<<"ts", TRUE>>, <<"ts", FALSE>>, <<"ps", FALSE>>, <<"mp4", TRUE>>}

\* Three subtitles and nothing else: all tracks wait at once.
SubtitleJob(times, kind, withLast) ==
  [Job(<<1, 2, 3>>, 0, times, <<2, 9>>, <<0, 7, 8>>, 0, 0, kind, withLast)
     EXCEPT !.sparse = [t \in Tracks |-> TRUE], !.keeps = [t \in Tracks |-> FALSE]]

MCSources ==
  {Job(order, apart, Picture, sound, subtitle, s[1], s[2], k[1], k[2]) :
     order \in {<<1, 2, 3>>, <<3, 2, 1>>}, apart \in {0, 2, 3}, sound \in Sounds,
     subtitle \in Subtitles, s \in Shifts, k \in Kinds}
  \cup {SubtitleJob(times, k[1], k[2]) : times \in Subtitles, k \in Kinds}

\* A sound of one piece, less than a block, and then none for the rest of the file
ShortStart == {Job(<<3, 2, 1>>, 0, Picture, Sound(0, 1, T - 1), <<>>, 0, 0, "ts", FALSE)}

\* The sound's only piece is held back by the demuxer of the transport stream, and given
\* when it is called again after the file's last block.
HeldBack ==
  {[Job(<<1, 2, 3>>, 0, Picture, <<>>, <<>>, 0, 0, "ts", withLast)
      EXCEPT !.upto = [@ EXCEPT !["f"] = Append(@, [@[Len(@)] EXCEPT ![2] = 1])],
             !.time = [@ EXCEPT ![2] = <<0>>],
             !.dts = [@ EXCEPT ![2] = <<0>>],
             !.gap = [@ EXCEPT ![2] = <<0>>]] : withLast \in BOOLEAN}
===============================================================================
