----------------------------- MODULE ReplyStream -----------------------------
(***************************************************************************)
(* A reply that is shown while it arrives.  The client hands each chunk of  *)
(* the reply to a filter that lets through what stands between the final    *)
(* tags; tags may be split over chunks.  When the reply is complete it is   *)
(* parsed as a whole.  An attempt that breaks off is made again by the      *)
(* gateway, from the start of the reply and through the same filter.        *)
(*                                                                          *)
(* A reply is a sequence of symbols; the tags keep what matters of their    *)
(* lengths: "<tool" is no longer than what is kept of a buffer.             *)
(***************************************************************************)
EXTENDS Naturals, Sequences, SequencesExt, FiniteSetsExt

CONSTANTS
  Replies,    \* what a model may reply
  MaxStreams  \* attempts of one call

ASSUME StreamAssumption ==
  MaxStreams \in Nat \ {0} /\ Replies \subseteq Seq(UNION {ToSet(r) : r \in Replies})

StartTag == <<"<", "f", ">">>
EndTag == <<"<", "/", "f", ">">>
ToolTag == <<"<", "t">>

VARIABLES
  reply,     \* the reply of this attempt
  arrived,   \* how much of it has been fed
  streams,   \* attempts made
  buffer, inFinal, closed,   \* the filter
  shown,     \* what on_text was given
  parsed     \* what parse returned: [kind, text], or NotParsed

streamVars == <<reply, arrived, streams, buffer, inFinal, closed, shown, parsed>>

NotParsed == [kind |-> "none", text |-> <<>>]

-----------------------------------------------------------------------------
(* str.find, with 0 for what is not there, and the slice from a place on.   *)
Find(text, tag) ==
  Min({Len(text) + 1} \cup {i \in 1..Len(text) : IsPrefix(tag, SubSeq(text, i, Len(text)))})
    % (Len(text) + 1)

From(text, place) == SubSeq(text, place, Len(text))

After(text, tag) == From(text, Find(text, tag) + Len(tag))

(* Extract: to the end tag, or all if there is none.                        *)
Content(text) ==
  LET rest == After(text, StartTag)
  IN IF Find(rest, EndTag) = 0 THEN rest ELSE SubSeq(rest, 1, Find(rest, EndTag) - 1)

(* A tool tag that comes before the final.                                  *)
ToolFirst(text) ==
  /\ Find(text, ToolTag) # 0
  /\ Find(text, StartTag) # 0 => Find(text, ToolTag) < Find(text, StartTag)

Parse(text) ==
  IF ToolFirst(text) THEN [kind |-> "tool", text |-> <<>>]
  ELSE IF Find(text, StartTag) # 0 /\ Content(text) # <<>> THEN [kind |-> "final", text |-> Content(text)]
  ELSE [kind |-> "retry", text |-> <<>>]

-----------------------------------------------------------------------------
(* FinalAnswerDeltaFilter.                                                  *)

(* Mutant of Kept: one symbol too few.                                      *)
KeptShort(text) == From(text, Max({1, Len(text) - Len(StartTag) + 3}))

(* What a start tag that is still arriving may be part of.                  *)
Kept(text) == From(text, Max({1, Len(text) - Len(StartTag) + 2}))

(* _safe_emit_length: without the longest tail that may begin an end tag.   *)
SafeLength(text) ==
  Len(text) - Max({n \in 0..Min({Len(EndTag) - 1, Len(text)}) :
                     IsPrefix(From(text, Len(text) - n + 1), EndTag)})

Waiting(text) == ~inFinal /\ (Find(text, StartTag) = 0 \/ ToolFirst(text))

Feed(chunk) ==
  LET text == buffer \o chunk
      final == IF inFinal THEN text ELSE After(text, StartTag)
      end == Find(final, EndTag)
  IN \/ /\ closed
        /\ UNCHANGED <<buffer, inFinal, closed, shown>>
     \/ /\ ~closed /\ Waiting(text)
        /\ buffer' = Kept(text)
        /\ UNCHANGED <<inFinal, closed, shown>>
     \/ /\ ~closed /\ ~Waiting(text) /\ end # 0
        /\ shown' = shown \o SubSeq(final, 1, end - 1)
        /\ buffer' = From(final, end + Len(EndTag))
        /\ inFinal' = TRUE /\ closed' = TRUE
     \/ /\ ~closed /\ ~Waiting(text) /\ end = 0
        /\ shown' = shown \o SubSeq(final, 1, SafeLength(final))
        /\ buffer' = From(final, SafeLength(final) + 1)
        /\ inFinal' = TRUE
        /\ UNCHANGED closed

-----------------------------------------------------------------------------

StreamInit ==
  /\ reply \in Replies /\ arrived = 0 /\ streams = 1
  /\ buffer = <<>> /\ inFinal = FALSE /\ closed = FALSE
  /\ shown = <<>> /\ parsed = NotParsed

ChunkArrives(n) ==
  /\ arrived + n <= Len(reply)
  /\ Feed(SubSeq(reply, arrived + 1, arrived + n))
  /\ arrived' = arrived + n
  /\ UNCHANGED <<reply, streams, parsed>>

(* The connection is lost: another attempt, perhaps with another reply.     *)
StreamBreaks(again) ==
  /\ parsed = NotParsed /\ streams < MaxStreams
  /\ streams' = streams + 1
  /\ reply' = again /\ arrived' = 0
  /\ UNCHANGED <<buffer, inFinal, closed, shown, parsed>>

ReplyComplete ==
  /\ arrived = Len(reply) /\ parsed = NotParsed
  /\ parsed' = Parse(reply)
  /\ UNCHANGED <<reply, arrived, streams, buffer, inFinal, closed, shown>>

StreamNext ==
  \/ \E n \in 1..Len(reply) : ChunkArrives(n)
  \/ \E again \in Replies : StreamBreaks(again)
  \/ ReplyComplete

StreamSpec == StreamInit /\ [][StreamNext]_streamVars
-----------------------------------------------------------------------------
(* Properties.                                                              *)

Fed == SubSeq(reply, 1, arrived)

(* However long the reply, and however often it is begun again, the filter  *)
(* holds back no more than the beginning of a tag.                          *)
StreamTypeOK ==
  /\ reply \in Replies /\ arrived \in 0..Len(reply) /\ streams \in 1..MaxStreams
  /\ closed => inFinal
  /\ ~inFinal => Len(buffer) < Len(StartTag) /\ shown = <<>>
  /\ inFinal /\ ~closed => IsStrictPrefix(buffer, EndTag)

(* However the reply is cut into chunks, what is shown of it at any moment  *)
(* is the answer so far, up to what may be the beginning of the end tag.    *)
(* An attempt after one that broke off goes through what that left of the   *)
(* filter, and may show anything.                                           *)
ShownIsContent ==
  streams = 1 /\ ~ToolFirst(Fed) /\ Find(Fed, StartTag) # 0 =>
    Content(Fed) = shown \o (IF closed THEN <<>> ELSE buffer)

(* Once parsed, an answer was shown whole, except that the tail is never    *)
(* shown of one whose end tag is missing.                                   *)
AnswerShown ==
  streams = 1 /\ parsed.kind = "final" =>
    /\ IsPrefix(shown, parsed.text)
    /\ Find(After(reply, StartTag), EndTag) # 0 => shown = parsed.text
    /\ Len(parsed.text) - Len(shown) < Len(EndTag)

(* The reader of a stream sees the answer: nothing but the content of the   *)
(* final block while it arrives, all of it once the reply was parsed, and   *)
(* the filter holds back no more than the beginning of a tag                *)
(* (FinalAnswerDeltaFilter, parse).                                         *)
ShownIsAnswer == StreamTypeOK /\ ShownIsContent /\ AnswerShown
=============================================================================
