----------------------------- MODULE Steganography -----------------------------
(***************************************************************************)
(* embed_message_in_image and, some day later and on another thread,        *)
(* extract_message_from_image.  The first writes the bits of a C string     *)
(* into the lowest bits of the bytes of a picture, behind its header of 54  *)
(* bytes; the second collects them again.  The string is a ciphertext, any   *)
(* byte of which may be zero, in a buffer that is not initialised: it ends   *)
(* at the first zero in it, or in what follows it.  The ciphertext may fill  *)
(* aes_message, which is as large as hidden_message (encryption.c:79,        *)
(* decryption.c:91).  A longer one is written behind that buffer, which is   *)
(* not modelled.                                                             *)
(***************************************************************************)
EXTENDS Integers

CONSTANTS Width,      \* bits of a byte of the message
          Carriers,   \* bytes of a picture
          MaxSize,    \* bound of the size of a picture, without its header
          Memory,     \* where the memory from aes_message on has a zero at the latest
          MaxLen      \* sizeof(aes_message) and sizeof(hidden_message)

ASSUME WidthAssumption == Width \in Nat \ {0}
ASSUME CarriersAssumption == Carriers \subseteq Nat
ASSUME MaxSizeAssumption == MaxSize \in Nat
ASSUME MemoryAssumption == Memory \in Nat
ASSUME MaxLenAssumption == MaxLen \in Nat \ {0}

VARIABLES pc,
          size, input,      \* the bytes of the picture that was chosen, and their number
          written, output,  \* how many bytes the copy has, and these bytes
          message,          \* the memory from aes_message on
          message_len,
          position,         \* how many bytes the loop has read
          bit_index, message_index,   \* of the loop
          hidden_message

picture == <<size, input>>
copy == <<written, output>>

vars == <<pc, size, input, written, output, message, message_len, position, bit_index,
          message_index, hidden_message>>

Bits == 0..Width - 1
Byte == [Bits -> {0, 1}]
Zero == [b \in Bits |-> 0]

SteganographyTypeOK ==
  /\ pc \in {"start", "embed", "stored", "extract", "done", "failed"}
  /\ size \in 0..MaxSize
  /\ input \in [0..size - 1 -> Carriers]
  /\ written \in 0..MaxSize
  /\ output \in [0..MaxSize -> Nat]
  /\ message \in [0..Memory -> Byte]
  /\ message_len \in 0..Memory + 1
  /\ position \in Nat
  /\ bit_index \in 0..Width
  /\ message_index \in Nat
  /\ hidden_message \in [0..MaxLen - 1 -> Byte]

SteganographyInit ==
  /\ pc = "start"
  /\ size \in 0..MaxSize
  /\ input \in [0..size - 1 -> Carriers]
  /\ written = 0
  /\ output = [k \in 0..MaxSize |-> 0]
  /\ message \in {m \in [0..Memory -> Byte] : m[Memory] = Zero}
  /\ message_len = 0
  /\ position = 0 /\ bit_index = 0 /\ message_index = 0
  /\ hidden_message = [i \in 0..MaxLen - 1 |-> Zero]
-----------------------------------------------------------------------------
\* n is the length of the C string at m.
IsStrlen(m, n) == m[n] = Zero /\ \A i \in 0..n - 1 : m[i] # Zero

EmbedStarts_TooLong ==
  /\ pc = "start"
  /\ pc' = "embed"
  /\ \E n \in 0..Memory : IsStrlen(message, n) /\ message_len' = n + 2
  /\ UNCHANGED <<picture, copy, message, position, bit_index, message_index, hidden_message>>

EmbedStarts_NoTerminator ==
  /\ pc = "start"
  /\ pc' = "embed"
  /\ \E n \in 0..Memory : IsStrlen(message, n) /\ message_len' = n
  /\ UNCHANGED <<picture, copy, message, position, bit_index, message_index, hidden_message>>

\* A file cannot be opened, or the string is measured.
EmbedStarts ==
  /\ pc = "start"
  /\ \/ pc' = "failed" /\ UNCHANGED message_len
     \/ /\ pc' = "embed"
        /\ \E n \in 0..Memory : IsStrlen(message, n) /\ message_len' = n + 1
  /\ UNCHANGED <<picture, copy, message, position, bit_index, message_index, hidden_message>>

\* The next place for a bit.
Advance ==
  IF bit_index + 1 = Width
  THEN bit_index' = 0 /\ message_index' = message_index + 1
  ELSE bit_index' = bit_index + 1 /\ UNCHANGED message_index

WithLowBit(byte, bit) == 2 * (byte \div 2) + bit
LowBit(byte) == byte % 2

\* fwrite of one byte.
Put(byte) ==
  /\ written' = written + 1
  /\ output' = [output EXCEPT ![written] = byte]

EmbedByte_OrsIn ==
  /\ pc = "embed"
  /\ position < size /\ message_index < message_len
  /\ position' = position + 1
  /\ Put(IF message[message_index][bit_index] = 1 THEN WithLowBit(input[position], 1)
         ELSE input[position])
  /\ Advance
  /\ UNCHANGED <<pc, picture, message, message_len, hidden_message>>

EmbedByte_DropsRest ==
  /\ pc = "embed"
  /\ position < size
  /\ position' = position + 1
  /\ \/ /\ message_index < message_len
        /\ Put(WithLowBit(input[position], message[message_index][bit_index]))
        /\ Advance
     \/ message_index >= message_len /\ UNCHANGED <<copy, bit_index, message_index>>
  /\ UNCHANGED <<pc, picture, message, message_len, hidden_message>>

EmbedByte ==
  /\ pc = "embed"
  /\ position < size
  /\ position' = position + 1
  /\ \/ /\ message_index < message_len
        /\ Put(WithLowBit(input[position], message[message_index][bit_index]))
        /\ Advance
     \/ /\ message_index >= message_len
        /\ Put(input[position])
        /\ UNCHANGED <<bit_index, message_index>>
  /\ UNCHANGED <<pc, picture, message, message_len, hidden_message>>

\* A picture that is too short is no error: the rest of the string is left out.
EmbedEnds ==
  /\ pc = "embed"
  /\ position = size
  /\ pc' = "stored"
  /\ UNCHANGED <<picture, copy, message, message_len, position, bit_index, message_index,
                 hidden_message>>

ExtractStarts ==
  /\ pc = "stored"
  /\ pc' = "extract"
  /\ position' = 0 /\ bit_index' = 0 /\ message_index' = 0
  /\ UNCHANGED <<picture, copy, message, message_len, hidden_message>>

\* The byte at message_index, with the bit that was read or-ed into it.
Collected ==
  [hidden_message[message_index] EXCEPT
     ![bit_index] = IF LowBit(output[position]) = 1 THEN 1 ELSE @]

CollectBit ==
  /\ IF bit_index + 1 = Width /\ Collected = Zero
     THEN /\ pc' = "done"
          /\ hidden_message' = [hidden_message EXCEPT ![message_index] = Collected]
          /\ bit_index' = bit_index + 1
          /\ UNCHANGED message_index
     ELSE /\ Advance
          /\ hidden_message' =
               [i \in 0..MaxLen - 1 |-> IF i = message_index THEN Collected
                                        ELSE IF i = message_index' THEN Zero
                                        ELSE hidden_message[i]]
          /\ UNCHANGED pc
  /\ UNCHANGED <<picture, copy, message, message_len>>

ExtractByte_OffByOne ==
  /\ pc = "extract"
  /\ position < written
  /\ message_index < MaxLen
  /\ position' = position + 1
  /\ CollectBit

\* A byte that ends as zero is the terminator; behind any other the next one is cleared.
ExtractByte ==
  /\ pc = "extract"
  /\ position < written
  /\ message_index < MaxLen - 1
  /\ position' = position + 1
  /\ CollectBit

\* The end of the file, or of hidden_message.
ExtractEnds ==
  /\ pc = "extract"
  /\ position = written \/ message_index >= MaxLen - 1
  /\ pc' = "done"
  /\ UNCHANGED <<picture, copy, message, message_len, position, bit_index, message_index,
                 hidden_message>>

SteganographyNext ==
  EmbedStarts \/ EmbedByte \/ EmbedEnds \/ ExtractStarts \/ ExtractByte \/ ExtractEnds

SteganographySpec == SteganographyInit /\ [][SteganographyNext]_vars
-----------------------------------------------------------------------------
(* Properties.                                                             *)

\* Bit b of byte i of the message, behind its first bytes and bits, comes through: the
\* picture has a byte for it, hidden_message has room, and no zero byte precedes it.
ComesThrough(i, b) ==
  /\ i * Width + b < size
  /\ i < MaxLen - 1
  /\ \A j \in 0..i - 1 : message[j] # Zero

\* The two loops of steganography.c:40-50 and 77-88, which keep their counters apart, are
\* inverse to one another: what comes out is, bit by bit, what went in as far as it comes
\* through, and zero behind it, whatever the picture was.
RecoversMessage ==
  pc = "done" =>
    \A i \in 0..MaxLen - 1, b \in Bits :
      hidden_message[i][b] = IF ComesThrough(i, b) THEN message[i][b] ELSE 0

\* The embedding loop reads no byte behind the terminator of the string, wherever in
\* memory that is; the extracting loop writes none behind hidden_message, which stays
\* terminated (steganography.c:41-42 and 77-86).
StaysInside ==
  /\ pc = "embed" => /\ message_index <= message_len
                     /\ message_index = message_len => bit_index = 0
  /\ pc \in {"extract", "done"} =>
       /\ message_index \in 0..MaxLen - 1
       /\ hidden_message[MaxLen - 1] = Zero

\* The copy is as long as the picture, differs from it in lowest bits only, and not at
\* all behind the terminator (steganography.c:40-50).
PictureIsKept ==
  /\ pc \in {"stored", "extract", "done"} => written = size
  /\ \A k \in 0..written - 1 :
       /\ output[k] \div 2 = input[k] \div 2
       /\ k >= message_len * Width => output[k] = input[k]

\* The picture has a byte for each bit of a ciphertext of aes_len bytes.
Holds(aes_len) == size >= aes_len * Width

Reconstructed(aes_len) == \A i \in 0..aes_len - 1 : hidden_message[i] = message[i]

\* When the picture is large enough, it is the ciphertext alone, not the memory behind it
\* nor the picture, that decides whether what is extracted is the ciphertext: it is unless
\* a byte that is not zero has a zero byte before it, or is the last that fits in the
\* buffer, where the extraction puts its terminator (steganography.c:34-50 and 76-88,
\* encryption.c:106).
ReconstructedUnlessZeroOrFull ==
  pc = "done" =>
    \A aes_len \in 1..MaxLen : Holds(aes_len) =>
      (Reconstructed(aes_len)
         <=> \A i \in 0..aes_len - 1 : message[i] # Zero =>
               i < MaxLen - 1 /\ \A j \in 0..i - 1 : message[j] # Zero)

\* Expected to fail: a ciphertext shorter than the buffer is reconstructed from a picture
\* that is large enough, as the comment of steganography.c:76 has it.
MessageIsReconstructed ==
  pc = "done" => \A aes_len \in 1..MaxLen - 1 : Holds(aes_len) => Reconstructed(aes_len)
=============================================================================
