----------------------------- MODULE TokenStream -----------------------------
(***************************************************************************)
(* The text of one streamed request: gpttype_generate appends tokens, and  *)
(* the loop of handle_sse_stream in another thread fetches those that have *)
(* come since, puts the bytes of a character together, holds text back     *)
(* that could be part of a stop sequence, and sends the rest.              *)
(*                                                                         *)
(* A text is a sequence of bytes, and so is a token.  One character has    *)
(* two bytes, Lead and Cont; the others are their own byte.                *)
(***************************************************************************)
EXTENDS Integers, SequencesExt

CONSTANTS
  Bytes,
  Lead, Cont,      \* the two bytes of a character
  Space, Newline,
  Tokens,          \* what a token may render as
  StopSequences,   \* the request's stop_sequence
  MaxTokens        \* and its max_length

ASSUME TokensAssumption ==
  /\ {Lead, Cont, Space, Newline} \subseteq Bytes
  /\ Lead # Cont /\ {Space, Newline} \intersect {Lead, Cont} = {}
  /\ Tokens \subseteq Seq(Bytes) /\ StopSequences \in Seq(Seq(Bytes))
  /\ MaxTokens \in Nat

VARIABLES
  trim,                 \* the request's trim_stop
  generated_tokens, concat_output, remaining_tokens, generation_finished, \* native globals
  pc,                   \* the stream loop
  streamDone, streamcount, current_token,
  incomplete_token_buffer, tokenStr, tokenReserve,
  sent                  \* what the client has received

nativeVars == <<generated_tokens, concat_output, remaining_tokens, generation_finished>>
flagVars == <<streamDone, streamcount>>
textVars == <<incomplete_token_buffer, tokenStr, tokenReserve, sent>>
vars == <<trim, nativeVars, pc, flagVars, current_token, textVars>>

-----------------------------------------------------------------------------
(* Texts                                                                   *)

\* Byte i of bytes belongs to a whole character.
InCharacter(bytes, i) ==
  \/ bytes[i] \notin {Lead, Cont}
  \/ bytes[i] = Lead /\ i < Len(bytes) /\ bytes[i + 1] = Cont
  \/ bytes[i] = Cont /\ i > 1 /\ bytes[i - 1] = Lead

\* The bytes at the positions in K
Picked(bytes, K) ==
  LET picked[i \in 0..Len(bytes)] ==
        IF i = 0 THEN <<>>
        ELSE IF i \in K THEN Append(picked[i - 1], bytes[i]) ELSE picked[i - 1]
  IN  picked[Len(bytes)]

Readable(bytes) == {i \in DOMAIN bytes : InCharacter(bytes, i)}

\* bytes.decode("UTF-8", "ignore")
Decode(bytes) == Picked(bytes, Readable(bytes))

\* text.strip()
Strip(text) ==
  LET solid == {i \in DOMAIN text : text[i] \notin {Space, Newline}}
  IN  IF solid = {} THEN <<>> ELSE SubSeq(text, Min(solid), Max(solid))

\* Where s occurs in text: the number of characters before it
Places(s, text) ==
  {i \in 0..(Len(text) - Len(s)) : SubSeq(text, i + 1, i + Len(s)) = s}

Occurs(s, text) == Places(s, text) # {}

string_contains_sequence_substring(text, sequences) ==
  /\ Strip(text) # <<>>
  /\ \E k \in DOMAIN sequences :
       LET s == Strip(sequences[k])
       IN  s # <<>> /\ (Occurs(s, Strip(text)) \/ Occurs(Strip(text), s))

\* tokenStr[:sindex] where s is found
CutAt(s, text) ==
  IF s # <<>> /\ Occurs(s, text) THEN SubSeq(text, 1, Min(Places(s, text))) ELSE text

\* The text is cut at the first place of each stop sequence in turn.
Cut(text) ==
  LET cut[k \in 0..Len(StopSequences)] ==
        IF k = 0 THEN text ELSE CutAt(StopSequences[k], cut[k - 1])
  IN  cut[Len(StopSequences)]

Trimmed(text) == IF trim THEN Cut(text) ELSE text

\* What the model has said so far, and what generate() makes of it for a request
\* that is not streamed
Said == Decode(concat_output)
Answer == Trimmed(Said)

-----------------------------------------------------------------------------
Init ==
  /\ trim \in BOOLEAN
  /\ generated_tokens = <<>> /\ concat_output = <<>>
  /\ remaining_tokens = MaxTokens /\ generation_finished = FALSE
  /\ pc = "flag" /\ streamDone = FALSE /\ streamcount = 0 /\ current_token = 0
  /\ incomplete_token_buffer = <<>> /\ tokenStr = <<>> /\ tokenReserve = <<>>
  /\ sent = <<>>

\* One token is generated; the generation ends at a stop sequence, and may end at any
\* other token, which then was an end of text.
Generate(t) ==
  LET output == concat_output \o t
      stopped == \E k \in DOMAIN StopSequences : Occurs(StopSequences[k], output)
  IN  /\ remaining_tokens > 0
      /\ generated_tokens' = Append(generated_tokens, t) /\ concat_output' = output
      /\ remaining_tokens' \in IF stopped THEN {0} ELSE {remaining_tokens - 1, 0}
      /\ UNCHANGED <<trim, generation_finished, pc, flagVars, current_token, textVars>>

FinishGeneration ==
  /\ remaining_tokens = 0 /\ ~generation_finished
  /\ generation_finished' = TRUE
  /\ UNCHANGED <<trim, generated_tokens, concat_output, remaining_tokens>>
  /\ UNCHANGED <<pc, flagVars, current_token, textVars>>

StopGeneration ==
  /\ remaining_tokens' = 0
  /\ UNCHANGED <<trim, generated_tokens, concat_output, generation_finished>>

Abort ==  \* by some other client
  /\ remaining_tokens > 0
  /\ StopGeneration
  /\ UNCHANGED <<pc, flagVars, current_token, textVars>>

-----------------------------------------------------------------------------
(* handle_sse_stream                                                       *)

\* The flag is read before the count: what comes in between is fetched.
ReadFlag ==
  /\ pc = "flag"
  /\ streamDone' = generation_finished
  /\ pc' = "count"
  /\ UNCHANGED <<trim, nativeVars, streamcount, current_token, textVars>>

ReadCount ==
  /\ pc = "count"
  /\ streamcount' = Len(generated_tokens)
  /\ pc' = "fetch"
  /\ UNCHANGED <<trim, nativeVars, streamDone, current_token, textVars>>

\* Mutant: the bytes are not cleared when they have been put out.
FedAgain(r, token) ==
  LET bytes == r.buffer \o token
      seg == Decode(bytes)
      badFragment == seg = <<Space>> /\ Len(bytes) > 1
  IN  IF seg = <<>> \/ badFragment THEN [r EXCEPT !.buffer = bytes]
      ELSE [buffer |-> bytes, str |-> r.str \o seg]

\* Another token: its characters are put out unless none is complete, or only a space.
Fed(r, token) ==
  LET bytes == r.buffer \o token
      seg == Decode(bytes)
      badFragment == seg = <<Space>> /\ Len(bytes) > 1
  IN  IF seg = <<>> \/ badFragment THEN [r EXCEPT !.buffer = bytes]
      ELSE [buffer |-> <<>>, str |-> r.str \o seg]

FetchToken ==
  /\ pc = "fetch" /\ current_token < streamcount
  /\ current_token' = current_token + 1
  /\ LET fed == Fed([buffer |-> incomplete_token_buffer, str |-> tokenStr],
                    generated_tokens[current_token + 1])
     IN  incomplete_token_buffer' = fed.buffer /\ tokenStr' = fed.str
  /\ UNCHANGED <<trim, nativeVars, pc, flagVars, tokenReserve, sent>>

Fetched == pc = "fetch" /\ current_token = streamcount

NothingNew ==
  /\ Fetched /\ tokenStr = <<>> /\ ~streamDone
  /\ pc' = "flag"
  /\ UNCHANGED <<trim, nativeVars, flagVars, current_token, textVars>>

\* A stop sequence could be in the making.
Held == trim /\ ~streamDone /\ string_contains_sequence_substring(tokenStr, StopSequences)

Hold ==
  /\ Fetched /\ Held
  /\ tokenReserve' = tokenReserve \o tokenStr /\ tokenStr' = <<>>
  /\ pc' = "flag"
  /\ UNCHANGED <<trim, nativeVars, flagVars, current_token, incomplete_token_buffer, sent>>

Sending == Fetched /\ (tokenStr # <<>> \/ streamDone) /\ ~Held

\* Mutant: what was held back is forgotten.
SendNew ==
  /\ Sending
  /\ sent' = sent \o Trimmed(tokenStr)
  /\ tokenReserve' = <<>> /\ tokenStr' = <<>>
  /\ pc' = IF streamDone THEN "closed" ELSE "flag"
  /\ UNCHANGED <<trim, nativeVars, flagVars, current_token, incomplete_token_buffer>>

Send ==
  /\ Sending
  /\ sent' = sent \o Trimmed(tokenReserve \o tokenStr)
  /\ tokenReserve' = <<>> /\ tokenStr' = <<>>
  /\ pc' = IF streamDone THEN "closed" ELSE "flag"
  /\ UNCHANGED <<trim, nativeVars, flagVars, current_token, incomplete_token_buffer>>

\* The client has gone: the stream ends, and with it the generation.
SendFails ==
  /\ Sending /\ (Trimmed(tokenReserve \o tokenStr) # <<>> \/ streamDone)
  /\ StopGeneration
  /\ pc' = "interrupted"
  /\ UNCHANGED <<flagVars, current_token, textVars>>

Native == (\E t \in Tokens : Generate(t)) \/ FinishGeneration
Stream == ReadFlag \/ ReadCount \/ FetchToken \/ NothingNew \/ Hold \/ Send \/ SendFails

Next == Native \/ Abort \/ Stream

Spec == Init /\ [][Next]_vars

-----------------------------------------------------------------------------
(* Properties                                                              *)

\* Where the text of each generated token ends
Ends ==
  LET upto[k \in 0..Len(generated_tokens)] ==
        IF k = 0 THEN 0 ELSE upto[k - 1] + Len(generated_tokens[k])
  IN  upto

\* The characters whose bytes are in two tokens, by their first byte
Split ==
  {i \in Readable(concat_output) :
     concat_output[i] = Lead /\ \E k \in 0..Len(generated_tokens) : i = Ends[k]}

\* "keeps fully formed tokens that we cannot send out yet" is no promise for the rest:
\* a token that ends with the beginning of a character behind other text loses that
\* beginning.  But whatever the tokens are and however they are cut into polls, the
\* client of a stream without trim_stop gets what it would have got without streaming,
\* less some characters that two tokens share, and less a space at the very end.
OnlySplitIsLost ==
  pc = "closed" /\ ~trim =>
    \E S \in SUBSET Split :
      Picked(concat_output, Readable(concat_output) \ (S \union {i + 1 : i \in S}))
        \in {sent, sent \o <<Space>>}

\* The model's bytes are characters, but for a last one it did not finish.
WellFormed == \A i \in 1..(Len(concat_output) - 1) : InCharacter(concat_output, i)

\* Token t begins a character behind more than a space: that text is put out, and the
\* beginning is forgotten with it.
Severs(t) == t # <<>> /\ Last(t) = Lead /\ Front(t) \notin {<<>>, <<Space>>}
NoneSevers == \A k \in DOMAIN generated_tokens : ~Severs(generated_tokens[k])

\* Of characters that no token severs nothing is lost, with trim_stop or without: at
\* every moment the client has a beginning of what the model has said, and in the end
\* all of it that trimming the whole answer leaves, but for a last space.  What was held
\* back is sent, and trimming one piece never takes what trimming the whole keeps.
NothingIsLost ==
  WellFormed /\ NoneSevers =>
    /\ IsPrefix(sent, Said)
    /\ pc = "closed" => IsPrefix(Answer, sent \o <<Space>>)

\* "If true, also removes detected stop_sequences from the output and truncates all
\* text after them" (trim_stop in the API's documentation)
StopsAreRemoved ==
  pc = "closed" /\ trim => \A k \in DOMAIN StopSequences : ~Occurs(StopSequences[k], sent)

=============================================================================
