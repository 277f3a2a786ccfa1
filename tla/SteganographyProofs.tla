-------------------------- MODULE SteganographyProofs --------------------------
(***************************************************************************)
(* The two loops of Steganography are inverse to one another, for every     *)
(* size of the bytes, the picture, the string and the buffer.  The          *)
(* invariant IInv says where in the picture each bit of the message is,     *)
(* while it is written (Written) and while it is collected (Collecting).    *)
(***************************************************************************)
EXTENDS Steganography, TLAPS

USE WidthAssumption, CarriersAssumption, MaxSizeAssumption, MemoryAssumption,
    MaxLenAssumption

\* Where bit b of byte i is.
Place(i, b) == i * Width + b

\* The loop has written or collected it.
Behind(i, b) == i < message_index \/ (i = message_index /\ b < bit_index)

\* The string is measured.
Measured ==
  pc \in {"embed", "stored", "extract", "done"} =>
    /\ message_len \in 1..Memory + 1
    /\ IsStrlen(message, message_len - 1)

\* Where the embedding loop stands.
Embedding ==
  /\ pc = "start" => written = 0 /\ position = 0 /\ message_index = 0 /\ bit_index = 0
  /\ pc = "embed" =>
       /\ position = written
       /\ position <= size
       /\ bit_index \in Bits
       /\ message_index <= message_len
       /\ message_index < message_len => position = Place(message_index, bit_index)
       /\ message_index = message_len => bit_index = 0 /\ position >= message_len * Width

\* The bits that are in the copy.
Written ==
  pc \in {"embed", "stored", "extract", "done"} =>
    \A i \in 0..message_len - 1, b \in Bits :
      Place(i, b) < written => LowBit(output[Place(i, b)]) = message[i][b]

Copied ==
  /\ pc = "failed" => written = 0
  /\ written <= size

\* Where the extracting loop stands, and what it has.
Collecting ==
  pc = "extract" =>
    /\ bit_index \in Bits
    /\ position = Place(message_index, bit_index)
    /\ position <= written
    /\ message_index < message_len
    /\ message_index <= MaxLen - 1
    /\ message_index = MaxLen - 1 => bit_index = 0
    /\ \A j \in 0..message_index - 1 : message[j] # Zero
    /\ \A i \in 0..MaxLen - 1, b \in Bits :
         hidden_message[i][b] = IF Behind(i, b) THEN message[i][b] ELSE 0

Blank ==
  pc \notin {"extract", "done"} => hidden_message = [i \in 0..MaxLen - 1 |-> Zero]

IInv == /\ SteganographyTypeOK /\ Measured /\ Embedding /\ Written /\ Copied /\ Collecting
        /\ Blank /\ RecoversMessage /\ StaysInside /\ PictureIsKept
-----------------------------------------------------------------------------
(* Places in the picture.                                                  *)

LEMMA RowsAreApart ==
  ASSUME NEW i \in Nat, NEW j \in Nat, i < j
  PROVE  i * Width + Width <= j * Width
BY SMT

LEMMA PlacesAreOrdered ==
  ASSUME NEW i \in Nat, NEW j \in Nat, NEW b \in Bits, NEW c \in Bits
  PROVE  Place(i, b) < Place(j, c) <=> (i < j \/ (i = j /\ b < c))
BY RowsAreApart, SMT DEF Bits, Place

LEMMA PlacesDiffer ==
  ASSUME NEW i \in Nat, NEW j \in Nat, NEW b \in Bits, NEW c \in Bits,
         Place(i, b) = Place(j, c)
  PROVE  i = j /\ b = c
BY RowsAreApart, SMT DEF Bits, Place

LEMMA PlaceTypes ==
  ASSUME NEW i \in Nat, NEW b \in Bits
  PROVE  /\ Place(i, b) \in Nat
         /\ i * Width \in Nat
         /\ Place(i, b) < i * Width + Width
         /\ Place(i, b) >= i * Width
BY SMT DEF Bits, Place

LEMMA ProductType ==
  ASSUME NEW i \in Nat
  PROVE  i * Width \in Nat
BY SMT

\* One bit more.
LEMMA NextPlace ==
  ASSUME NEW i \in Nat, NEW b \in Bits
  PROVE  /\ b + 1 = Width => Place(i, b) + 1 = Place(i + 1, 0) /\ 0 \in Bits
         /\ b + 1 # Width => Place(i, b) + 1 = Place(i, b + 1) /\ b + 1 \in Bits
BY SMT DEF Bits, Place

LEMMA LowBits ==
  ASSUME NEW x \in Nat, NEW y \in {0, 1}
  PROVE  /\ WithLowBit(x, y) \in Nat
         /\ WithLowBit(x, y) \div 2 = x \div 2
         /\ LowBit(WithLowBit(x, y)) = y
         /\ LowBit(x) \in {0, 1}
BY SMT DEF WithLowBit, LowBit

LEMMA ZeroType == Zero \in Byte
BY DEF Zero, Byte
-----------------------------------------------------------------------------
LEMMA InitIInv == SteganographyInit => IInv
<1>. SUFFICES ASSUME SteganographyInit PROVE IInv
  OBVIOUS
<1>2. message \in [0..Memory -> Byte]
  BY DEF SteganographyInit
<1>3. hidden_message \in [0..MaxLen - 1 -> Byte] /\ hidden_message[MaxLen - 1] = Zero
  BY ZeroType DEF SteganographyInit
<1>4. output \in [0..MaxSize -> Nat]
  BY DEF SteganographyInit
<1>. QED
  BY <1>2, <1>3, <1>4, SMT
  DEF SteganographyInit, IInv, SteganographyTypeOK, Measured, Embedding, Written, Copied,
      Collecting, Blank, RecoversMessage, StaysInside, PictureIsKept
-----------------------------------------------------------------------------
LEMMA EmbedStartsIInv ==
  ASSUME IInv, EmbedStarts
  PROVE  IInv'
<1>. USE DEF IInv, picture, copy
<1>1. CASE pc' = "failed"
  <2>1. UNCHANGED <<size, input, written, output, message, message_len, position, bit_index,
                    message_index, hidden_message>>
    BY <1>1 DEF EmbedStarts
  <2>. QED
    BY <1>1, <2>1 DEF EmbedStarts, SteganographyTypeOK, Measured, Embedding, Written, Copied,
       Collecting, Blank, RecoversMessage, StaysInside, PictureIsKept
<1>2. CASE pc' = "embed"
  <2>1. PICK n \in 0..Memory : IsStrlen(message, n) /\ message_len' = n + 1
    BY <1>2 DEF EmbedStarts
  <2>2. UNCHANGED <<size, input, written, output, message, position, bit_index,
                    message_index, hidden_message>>
    BY DEF EmbedStarts
  <2>3. pc = "start" /\ written = 0 /\ position = 0 /\ message_index = 0 /\ bit_index = 0
    BY DEF EmbedStarts, Embedding
  <2>4. n + 1 \in 1..Memory + 1 /\ n + 1 \in 0..Memory + 1 /\ n + 1 - 1 = n /\ n + 1 > 0
    BY SMT
  <2>5. SteganographyTypeOK'
    BY <1>2, <2>1, <2>2, <2>4 DEF SteganographyTypeOK
  <2>6. Measured'
    BY <2>1, <2>2, <2>4 DEF Measured
  <2>7. Embedding'
    <3>1. Place(0, 0) = 0 /\ 0 \in Bits
      BY SMT DEF Place, Bits
    <3>2. 0 <= size
      BY SMT DEF SteganographyTypeOK
    <3>. QED BY <1>2, <2>1, <2>2, <2>3, <2>4, <3>1, <3>2, SMT DEF Embedding, Place
  <2>8. Written'
    <3>. SUFFICES ASSUME NEW i \in 0..message_len' - 1, NEW b \in Bits,
                         Place(i, b) < written'
                  PROVE  FALSE
      BY DEF Written, Place
    <3>. QED BY <2>1, <2>2, <2>3, PlaceTypes, SMT
  <2>9. PictureIsKept'
    BY <1>2, <2>2, <2>3, SMT DEF PictureIsKept
  <2>10. StaysInside'
    BY <1>2, <2>1, <2>2, <2>3, SMT DEF StaysInside
  <2>. QED
    BY <1>2, <2>2, <2>3, <2>5, <2>6, <2>7, <2>8, <2>9, <2>10
    DEF Copied, Collecting, Blank, RecoversMessage
<1>. QED BY <1>1, <1>2 DEF EmbedStarts

LEMMA EmbedByteIInv ==
  ASSUME IInv, EmbedByte
  PROVE  IInv'
<1>. USE DEF IInv, picture, copy
<1>1. /\ pc = "embed" /\ position < size /\ position' = position + 1 /\ position = written
      /\ UNCHANGED <<pc, size, input, message, message_len, hidden_message>>
  BY DEF EmbedByte, Embedding
<1>2. /\ written \in 0..MaxSize /\ size \in 0..MaxSize /\ written < size /\ position \in Nat
      /\ output \in [0..MaxSize -> Nat] /\ message_len \in Nat /\ message_index \in Nat
      /\ bit_index \in Bits /\ written + 1 \in 0..MaxSize
  BY <1>1, SMT DEF SteganographyTypeOK, Embedding
<1>3. input[written] \in Nat
  <2>1. written \in 0..size - 1
    BY <1>2, SMT
  <2>2. input[written] \in Carriers
    BY <2>1 DEF SteganographyTypeOK
  <2>. QED BY <2>2
<1>4. written' = written + 1
  BY DEF EmbedByte, Put
<1>5. \A k \in 0..written - 1 : output'[k] = output[k]
  BY <1>2, SMT DEF EmbedByte, Put
<1>6. Measured' /\ Collecting' /\ Blank' /\ RecoversMessage'
  BY <1>1 DEF Measured, Collecting, Blank, RecoversMessage
<1>7. Copied'
  BY <1>1, <1>2, <1>4, SMT DEF Copied
<1>8. CASE message_index < message_len
  <2>. DEFINE bit == message[message_index][bit_index]
              byte == WithLowBit(input[written], bit)
  <2>1. output' = [output EXCEPT ![written] = byte] /\ Advance
    BY <1>1, <1>2, <1>8, SMT DEF EmbedByte, Put
  <2>2. bit \in {0, 1}
    <3>1. message_index \in 0..Memory
      BY <1>1, <1>2, <1>8, SMT DEF SteganographyTypeOK
    <3>2. message[message_index] \in Byte
      BY <3>1 DEF SteganographyTypeOK
    <3>. QED BY <1>2, <3>2 DEF Byte
  <2>3. byte \in Nat /\ byte \div 2 = input[written] \div 2 /\ LowBit(byte) = bit
    <3>. HIDE DEF bit
    <3>. QED BY <1>3, <2>2, LowBits
  <2>4. output'[written] = byte /\ output' \in [0..MaxSize -> Nat]
    <3>. HIDE DEF byte
    <3>. QED BY <1>2, <2>1, <2>3
  <2>5. position = Place(message_index, bit_index)
    BY <1>1, <1>8 DEF Embedding
  <2>6. Place(message_index, bit_index) < message_len * Width /\ message_len * Width \in Nat
    <3>1. message_index * Width + Width <= message_len * Width
      BY <1>2, <1>8, RowsAreApart
    <3>2. Place(message_index, bit_index) < message_index * Width + Width
      BY <1>2, PlaceTypes
    <3>3. /\ message_len * Width \in Nat /\ message_index * Width \in Nat
          /\ Place(message_index, bit_index) \in Nat
      BY <1>2, ProductType, PlaceTypes
    <3>. QED BY <3>1, <3>2, <3>3, SMT
  <2>7. SteganographyTypeOK' /\ Embedding' /\ StaysInside'
    <3>1. CASE bit_index + 1 = Width
      <4>1. bit_index' = 0 /\ message_index' = message_index + 1 /\ 0 \in Bits
        BY <2>1, <3>1, <1>2, NextPlace DEF Advance
      <4>2. position' = Place(message_index + 1, 0)
        BY <1>1, <1>2, <2>5, <3>1, NextPlace
      <4>3. message_index + 1 \in Nat /\ message_index + 1 <= message_len
        BY <1>2, <1>8, SMT
      <4>4. Place(message_index + 1, 0) = (message_index + 1) * Width
        BY <1>2, SMT DEF Place
      <4>5. 0 \in 0..Width
        BY SMT
      <4>6. position' >= (message_index + 1) * Width
        BY <4>2, <4>4, <1>1, <1>2, SMT
      <4>7. SteganographyTypeOK'
        <5>1. SteganographyTypeOK
          OBVIOUS
        <5>2. output' \in [0..MaxSize -> Nat]
          BY <2>4
        <5>. HIDE DEF IInv
        <5>. QED
          BY <1>1, <1>2, <1>4, <4>1, <4>3, <4>5, <5>1, <5>2, SMT DEF SteganographyTypeOK
      <4>8. Embedding'
        BY <1>1, <1>2, <1>4, <4>1, <4>2, <4>3, <4>6, SMT DEF Embedding, Place
      <4>. QED BY <1>1, <4>1, <4>3, <4>7, <4>8 DEF StaysInside
    <3>2. CASE bit_index + 1 # Width
      <4>1. bit_index' = bit_index + 1 /\ message_index' = message_index
        BY <2>1, <3>2 DEF Advance
      <4>2. position' = Place(message_index, bit_index + 1) /\ bit_index + 1 \in Bits
        BY <1>1, <1>2, <2>5, <3>2, NextPlace
      <4>3. bit_index + 1 \in 0..Width
        BY <4>2, SMT DEF Bits
      <4>7. SteganographyTypeOK'
        <5>1. SteganographyTypeOK
          OBVIOUS
        <5>2. output' \in [0..MaxSize -> Nat]
          BY <2>4
        <5>. HIDE DEF IInv
        <5>. QED
          BY <1>1, <1>2, <1>4, <4>1, <4>3, <5>1, <5>2, SMT DEF SteganographyTypeOK
      <4>8. Embedding'
        BY <1>1, <1>2, <1>4, <1>8, <4>1, <4>2, SMT DEF Embedding, Place
      <4>. QED BY <1>1, <1>2, <1>8, <4>1, <4>7, <4>8, SMT DEF StaysInside
    <3>. QED BY <3>1, <3>2
  <2>8. Written'
    <3>. SUFFICES ASSUME NEW i \in 0..message_len - 1, NEW b \in Bits,
                         Place(i, b) < written + 1
                  PROVE  LowBit(output'[Place(i, b)]) = message[i][b]
      BY <1>1, <1>4 DEF Written, Place
    <3>1. i \in Nat /\ Place(i, b) \in Nat
      BY <1>2, PlaceTypes, SMT
    <3>2. CASE Place(i, b) = written
      <4>1. i = message_index /\ b = bit_index
        BY <1>1, <1>2, <2>5, <3>1, <3>2, PlacesDiffer
      <4>. QED BY <2>3, <2>4, <3>2, <4>1
    <3>3. CASE Place(i, b) < written
      <4>1. output'[Place(i, b)] = output[Place(i, b)]
        BY <1>2, <1>5, <3>1, <3>3, SMT
      <4>2. LowBit(output[Place(i, b)]) = message[i][b]
        BY <1>1, <3>3 DEF Written
      <4>. QED BY <4>1, <4>2
    <3>. QED BY <1>2, <3>1, <3>2, <3>3, SMT
  <2>9. PictureIsKept'
    <3>1. ASSUME NEW k \in 0..written
          PROVE  /\ output'[k] \div 2 = input[k] \div 2
                 /\ k >= message_len * Width => output'[k] = input[k]
      <4>1. CASE k = written
        <5>1. ~(k >= message_len * Width)
          BY <1>1, <1>2, <2>5, <2>6, <4>1, SMT
        <5>. QED BY <2>3, <2>4, <4>1, <5>1
      <4>2. CASE k # written
        <5>1. k \in 0..written - 1
          BY <1>2, <4>2, SMT
        <5>. QED BY <1>1, <1>5, <5>1 DEF PictureIsKept
      <4>. QED BY <4>1, <4>2
    <3>2. 0..written' - 1 = 0..written
      BY <1>2, <1>4, SMT
    <3>. QED BY <1>1, <3>1, <3>2 DEF PictureIsKept
  <2>. QED BY <1>6, <1>7, <2>7, <2>8, <2>9
<1>9. CASE ~(message_index < message_len)
  <2>1. /\ output' = [output EXCEPT ![written] = input[written]]
        /\ UNCHANGED <<bit_index, message_index>>
    BY <1>1, <1>2, <1>9, SMT DEF EmbedByte, Put
  <2>2. output'[written] = input[written] /\ output' \in [0..MaxSize -> Nat]
    BY <1>2, <1>3, <2>1
  <2>3. /\ message_index = message_len /\ bit_index = 0
        /\ position >= message_len * Width /\ message_len * Width \in Nat
    <3>1. message_index <= message_len
      BY <1>1 DEF Embedding
    <3>2. message_index = message_len
      BY <1>2, <1>9, <3>1, SMT
    <3>3. message_len * Width \in Nat
      BY <1>2, SMT
    <3>. QED BY <1>1, <3>2, <3>3 DEF Embedding
  <2>4. SteganographyTypeOK' /\ Embedding' /\ StaysInside'
    <3>1. SteganographyTypeOK'
      BY <1>1, <1>2, <1>4, <2>1, <2>2, SMT DEF SteganographyTypeOK
    <3>2. position' >= message_len * Width /\ position' <= size
      BY <1>1, <1>2, <2>3, SMT
    <3>3. ~(message_len < message_len)
      BY <1>2, SMT
    <3>4. Embedding'
      BY <1>1, <1>2, <1>4, <2>1, <2>3, <3>2, <3>3, SMT DEF Embedding
    <3>. QED BY <1>1, <2>1, <3>1, <3>4 DEF StaysInside
  <2>5. Written'
    <3>. SUFFICES ASSUME NEW i \in 0..message_len - 1, NEW b \in Bits
                  PROVE  LowBit(output'[Place(i, b)]) = message[i][b]
      BY <1>1, <1>4 DEF Written, Place
    <3>1. i \in Nat /\ i < message_len
      BY <1>2, SMT
    <3>2. i * Width + Width <= message_len * Width
      BY <1>2, <3>1, RowsAreApart
    <3>3. Place(i, b) < i * Width + Width /\ i * Width \in Nat /\ Place(i, b) \in Nat
      BY <3>1, PlaceTypes
    <3>4. Place(i, b) \in 0..written - 1 /\ Place(i, b) < written
      <4>. DEFINE place == Place(i, b)
                  row == i * Width
                  end == message_len * Width
      <4>1. /\ place \in Nat /\ row \in Nat /\ end \in Nat /\ place < row + Width
            /\ row + Width <= end /\ end <= written
        BY <1>1, <2>3, <3>2, <3>3
      <4>. HIDE DEF place, row, end
      <4>2. place < written
        BY <1>2, <4>1, SMT
      <4>3. place \in 0..written - 1
        BY <1>2, <4>1, <4>2, SMT
      <4>. QED BY <4>2, <4>3 DEF place
    <3>. QED BY <1>1, <1>5, <3>4 DEF Written
  <2>6. PictureIsKept'
    <3>1. ASSUME NEW k \in 0..written
          PROVE  /\ output'[k] \div 2 = input[k] \div 2
                 /\ k >= message_len * Width => output'[k] = input[k]
      <4>1. CASE k = written
        BY <2>2, <4>1
      <4>2. CASE k # written
        <5>1. k \in 0..written - 1
          BY <1>2, <4>2, SMT
        <5>. QED BY <1>1, <1>5, <5>1 DEF PictureIsKept
      <4>. QED BY <4>1, <4>2
    <3>2. 0..written' - 1 = 0..written
      BY <1>2, <1>4, SMT
    <3>. QED BY <1>1, <3>1, <3>2 DEF PictureIsKept
  <2>. QED BY <1>6, <1>7, <2>4, <2>5, <2>6
<1>. QED BY <1>8, <1>9

LEMMA EmbedEndsIInv ==
  ASSUME IInv, EmbedEnds
  PROVE  IInv'
<1>. USE DEF IInv, picture, copy
<1>1. /\ pc = "embed" /\ pc' = "stored" /\ position = size
      /\ UNCHANGED <<size, input, written, output, message, message_len, position, bit_index,
                     message_index, hidden_message>>
  BY DEF EmbedEnds
<1>2. written = size
  BY <1>1 DEF Embedding
<1>. QED
  BY <1>1, <1>2 DEF SteganographyTypeOK, Measured, Embedding, Written, Copied, Collecting,
     Blank, RecoversMessage, StaysInside, PictureIsKept

LEMMA ExtractStartsIInv ==
  ASSUME IInv, ExtractStarts
  PROVE  IInv'
<1>. USE DEF IInv, picture, copy
<1>1. /\ pc = "stored" /\ pc' = "extract"
      /\ position' = 0 /\ bit_index' = 0 /\ message_index' = 0
      /\ UNCHANGED <<size, input, written, output, message, message_len, hidden_message>>
  BY DEF ExtractStarts
<1>2. /\ 0 \in Bits /\ 0 \in 0..Width /\ Place(0, 0) = 0 /\ 0 \in 0..MaxLen - 1
      /\ MaxLen - 1 \in 0..MaxLen - 1 /\ 0 <= MaxLen - 1
  BY SMT DEF Bits, Place
<1>3. \A i \in 0..MaxLen - 1 : hidden_message[i] = Zero
  BY <1>1 DEF Blank
<1>4. SteganographyTypeOK'
  BY <1>1, <1>2, SMT DEF SteganographyTypeOK
<1>5. Measured' /\ Embedding' /\ Written' /\ Copied' /\ Blank' /\ RecoversMessage'
  BY <1>1 DEF Measured, Embedding, Written, Copied, Blank, RecoversMessage
<1>6. StaysInside' /\ PictureIsKept'
  BY <1>1, <1>2, <1>3 DEF StaysInside, PictureIsKept
<1>7. Collecting'
  <2>1. 0 <= written /\ 0 < message_len
    BY <1>1, SMT DEF SteganographyTypeOK, Measured
  <2>2. \A i \in 0..MaxLen - 1, b \in Bits : hidden_message[i][b] = 0
    BY <1>3 DEF Zero
  <2>3. \A i \in 0..MaxLen - 1, b \in Bits : ~(i < 0 \/ (i = 0 /\ b < 0))
    BY SMT DEF Bits
  <2>4. \A j \in 0..0 - 1 : FALSE
    BY SMT
  <2>. QED BY <1>1, <1>2, <2>1, <2>2, <2>3, <2>4 DEF Collecting, Behind, Place
<1>. QED BY <1>4, <1>5, <1>6, <1>7
-----------------------------------------------------------------------------
\* While a byte is collected: the bits up to this one are those of the message.
LEMMA CollectedBits ==
  ASSUME IInv, pc = "extract", position < written, message_index < MaxLen - 1
  PROVE  /\ Collected \in Byte
         /\ \A b \in Bits : Collected[b] = IF b <= bit_index THEN message[message_index][b]
                                           ELSE 0
<1>. USE DEF IInv
<1>1. /\ message_index \in 0..MaxLen - 1 /\ message_index \in 0..message_len - 1
      /\ message_index \in 0..Memory /\ message_index \in Nat
      /\ bit_index \in Bits /\ position = Place(message_index, bit_index)
  BY SMT DEF Collecting, SteganographyTypeOK
<1>2. message[message_index] \in Byte /\ hidden_message[message_index] \in Byte
  BY <1>1 DEF SteganographyTypeOK
<1>3. LowBit(output[position]) = message[message_index][bit_index]
  BY <1>1 DEF Written
<1>4. \A b \in Bits : hidden_message[message_index][b] =
                        IF b < bit_index THEN message[message_index][b] ELSE 0
  <2>1. \A b \in Bits : Behind(message_index, b) <=> b < bit_index
    BY <1>1, SMT DEF Behind
  <2>. QED BY <1>1, <2>1 DEF Collecting
<1>5. message[message_index][bit_index] \in {0, 1}
  BY <1>1, <1>2 DEF Byte
<1>6. hidden_message[message_index][bit_index] = 0
  BY <1>1, <1>4, SMT DEF Bits
<1>7. Collected = [hidden_message[message_index] EXCEPT
                     ![bit_index] = message[message_index][bit_index]]
  BY <1>3, <1>5, <1>6 DEF Collected
<1>8. Collected \in Byte
  BY <1>1, <1>2, <1>5, <1>7 DEF Byte
<1>9. ASSUME NEW b \in Bits
      PROVE  Collected[b] = IF b <= bit_index THEN message[message_index][b] ELSE 0
  <2>1. b = bit_index => Collected[b] = message[message_index][b]
    BY <1>2, <1>7 DEF Byte
  <2>2. b # bit_index => Collected[b] = hidden_message[message_index][b]
    BY <1>2, <1>7 DEF Byte
  <2>3. b <= bit_index <=> b = bit_index \/ b < bit_index
    BY <1>1, SMT DEF Bits
  <2>. QED BY <1>4, <2>1, <2>2, <2>3
<1>. QED BY <1>8, <1>9

\* When it is complete, it is the byte of the message.
LEMMA CollectedByte ==
  ASSUME IInv, pc = "extract", position < written, message_index < MaxLen - 1,
         bit_index + 1 = Width
  PROVE  Collected = message[message_index]
<1>1. message_index \in 0..Memory
  BY SMT DEF IInv, Collecting, SteganographyTypeOK
<1>2. message[message_index] \in Byte
  BY <1>1 DEF IInv, SteganographyTypeOK
<1>3. \A b \in Bits : b <= bit_index
  BY SMT DEF Bits, IInv, SteganographyTypeOK
<1>. QED BY <1>2, <1>3, CollectedBits DEF Byte

LEMMA ExtractByteIInv ==
  ASSUME IInv, ExtractByte
  PROVE  IInv'
<1>. USE DEF IInv, picture, copy
<1>1. /\ pc = "extract" /\ position < written /\ message_index < MaxLen - 1
      /\ position' = position + 1 /\ CollectBit
      /\ UNCHANGED <<size, input, written, output, message, message_len>>
  BY DEF ExtractByte, CollectBit
<1>2. /\ message_index \in 0..MaxLen - 1 /\ message_index \in Nat /\ message_index < message_len
      /\ message_index \in 0..Memory /\ message_len \in Nat
      /\ bit_index \in Bits /\ position = Place(message_index, bit_index)
      /\ position \in Nat /\ position + 1 \in Nat /\ position + 1 <= written
      /\ written \in Nat /\ size \in Nat /\ written <= size
  <2>1. /\ written \in 0..MaxSize /\ size \in 0..MaxSize /\ position \in Nat
        /\ message_index \in Nat /\ message_len \in 0..Memory + 1 /\ written <= size
    BY DEF SteganographyTypeOK, Copied
  <2>2. /\ bit_index \in Bits /\ position = Place(message_index, bit_index)
        /\ message_index < message_len
    BY <1>1 DEF Collecting
  <2>. QED BY <1>1, <2>1, <2>2, SMT
<1>3. /\ Collected \in Byte
      /\ \A b \in Bits : Collected[b] = IF b <= bit_index THEN message[message_index][b] ELSE 0
  BY <1>1, CollectedBits
<1>4. /\ hidden_message \in [0..MaxLen - 1 -> Byte] /\ hidden_message[MaxLen - 1] = Zero
      /\ MaxLen - 1 \in 0..MaxLen - 1
  <2>1. MaxLen - 1 \in 0..MaxLen - 1
    BY SMT
  <2>. QED BY <1>1, <2>1 DEF SteganographyTypeOK, StaysInside
<1>5. \A i \in 0..MaxLen - 1, b \in Bits :
        hidden_message[i][b] = IF Behind(i, b) THEN message[i][b] ELSE 0
  BY <1>1 DEF Collecting
<1>6. pc' \in {"extract", "done"}
  BY <1>1 DEF CollectBit
<1>7. Measured' /\ Written' /\ Copied' /\ PictureIsKept' /\ Blank' /\ Embedding'
  BY <1>1, <1>6 DEF Measured, Written, Copied, PictureIsKept, Blank, Embedding
<1>8. CASE bit_index + 1 = Width /\ Collected = Zero
  <2>1. /\ pc' = "done" /\ hidden_message' = [hidden_message EXCEPT ![message_index] = Collected]
        /\ bit_index' = bit_index + 1 /\ message_index' = message_index
    BY <1>1, <1>8 DEF CollectBit
  <2>2. message[message_index] = Zero
    BY <1>1, <1>8, CollectedByte
  <2>3. hidden_message' \in [0..MaxLen - 1 -> Byte]
    BY <1>2, <1>3, <1>4, <2>1
  <2>4. SteganographyTypeOK'
    <3>1. bit_index + 1 \in 0..Width
      BY <1>2, SMT DEF Bits
    <3>2. /\ pc' \in {"start", "embed", "stored", "extract", "done", "failed"}
          /\ bit_index' \in 0..Width /\ message_index' \in Nat
      BY <1>2, <2>1, <3>1 DEF SteganographyTypeOK
    <3>. QED BY <1>1, <2>3, <3>2 DEF SteganographyTypeOK
  <2>5. StaysInside'
    <3>1. MaxLen - 1 # message_index
      BY <1>1, <1>2, SMT
    <3>. QED BY <1>2, <1>4, <2>1, <3>1 DEF StaysInside
  <2>6. RecoversMessage'
    <3>. SUFFICES ASSUME NEW i \in 0..MaxLen - 1, NEW b \in Bits
                  PROVE  hidden_message'[i][b] = IF ComesThrough(i, b) THEN message[i][b] ELSE 0
      BY <1>1 DEF RecoversMessage, ComesThrough
    <3>0. i \in Nat /\ Place(i, b) \in Nat
      BY PlaceTypes, SMT
    <3>1. CASE i < message_index
      <4>1. hidden_message'[i][b] = message[i][b]
        <5>1. i # message_index /\ Behind(i, b)
          BY <1>2, <3>0, <3>1, SMT DEF Behind
        <5>. QED BY <1>2, <1>4, <1>5, <2>1, <5>1
      <4>2. Place(i, b) < position
        BY <1>2, <3>0, <3>1, PlacesAreOrdered
      <4>3. Place(i, b) < size /\ i < MaxLen - 1
        BY <1>1, <1>2, <3>0, <3>1, <4>2, SMT
      <4>4. \A j \in 0..i - 1 : message[j] # Zero
        BY <1>1, <1>2, <3>0, <3>1, SMT DEF Collecting
      <4>. QED BY <4>1, <4>3, <4>4 DEF ComesThrough, Place
    <3>2. CASE i = message_index
      BY <1>2, <1>4, <1>8, <2>1, <2>2, <3>2 DEF Zero
    <3>3. CASE message_index < i
      <4>1. message_index \in 0..i - 1 /\ ~Behind(i, b) /\ i # message_index
        BY <1>2, <3>0, <3>3, SMT DEF Behind
      <4>2. ~ComesThrough(i, b)
        BY <2>2, <4>1 DEF ComesThrough
      <4>. QED BY <1>2, <1>4, <1>5, <2>1, <4>1, <4>2
    <3>. QED BY <1>2, <3>0, <3>1, <3>2, <3>3, SMT
  <2>7. Collecting'
    BY <2>1 DEF Collecting
  <2>. QED BY <1>7, <2>4, <2>5, <2>6, <2>7
<1>9. CASE ~(bit_index + 1 = Width /\ Collected = Zero)
  <2>1. /\ Advance /\ pc' = pc
        /\ hidden_message' = [i \in 0..MaxLen - 1 |-> IF i = message_index THEN Collected
                                                     ELSE IF i = message_index' THEN Zero
                                                     ELSE hidden_message[i]]
    BY <1>1, <1>9 DEF CollectBit
  <2>2. hidden_message' \in [0..MaxLen - 1 -> Byte]
    BY <1>3, <1>4, <2>1, ZeroType
  <2>3. hidden_message'[MaxLen - 1] = Zero
    <3>1. MaxLen - 1 # message_index
      BY <1>1, <1>2, SMT
    <3>. QED BY <1>4, <2>1, <3>1
  <2>4. RecoversMessage'
    BY <1>1, <2>1 DEF RecoversMessage
  <2>5. CASE bit_index + 1 = Width
    <3>1. bit_index' = 0 /\ message_index' = message_index + 1 /\ 0 \in Bits
      BY <1>2, <2>1, <2>5, NextPlace DEF Advance
    <3>2. position' = Place(message_index + 1, 0)
      BY <1>1, <1>2, <2>5, NextPlace
    <3>3. Collected = message[message_index] /\ message[message_index] # Zero
      BY <1>1, <1>9, <2>5, CollectedByte
    <3>4. message_index # message_len - 1
      BY <1>1, <3>3 DEF Measured, IsStrlen
    <3>5. message_index + 1 < message_len /\ message_index + 1 <= MaxLen - 1
      BY <1>1, <1>2, <3>4, SMT
    <3>6. \A j \in 0..message_index + 1 - 1 : message[j] # Zero
      <4>1. \A j \in 0..message_index + 1 - 1 : j = message_index \/ j \in 0..message_index - 1
        BY <1>2, SMT
      <4>. QED BY <1>1, <3>3, <4>1 DEF Collecting
    <3>7. ASSUME NEW i \in 0..MaxLen - 1, NEW b \in Bits
          PROVE  hidden_message'[i][b] = IF Behind(i, b)' THEN message[i][b] ELSE 0
      <4>1. Behind(i, b)' <=> i <= message_index
        BY <1>2, <3>1, SMT DEF Behind, Bits
      <4>2. CASE i = message_index
        <5>1. hidden_message'[i] = message[i]
          BY <2>1, <3>3, <4>2
        <5>2. i <= message_index
          BY <1>2, <4>2, SMT
        <5>. QED BY <4>1, <5>1, <5>2
      <4>3. CASE i = message_index + 1
        <5>1. i # message_index /\ ~(i <= message_index)
          BY <1>2, <4>3, SMT
        <5>2. hidden_message'[i] = Zero
          BY <2>1, <3>1, <4>3, <5>1
        <5>. QED BY <4>1, <5>1, <5>2 DEF Zero
      <4>4. CASE i # message_index /\ i # message_index + 1
        <5>1. hidden_message'[i] = hidden_message[i]
          BY <2>1, <3>1, <4>4
        <5>2. Behind(i, b) <=> i <= message_index
          BY <1>2, <4>4, SMT DEF Behind
        <5>. QED BY <1>5, <4>1, <5>1, <5>2
      <4>. QED BY <4>2, <4>3, <4>4
    <3>8. SteganographyTypeOK'
      <4>1. 0 \in 0..Width /\ message_index + 1 \in Nat
        BY <1>2, SMT
      <4>. QED BY <1>1, <1>2, <2>1, <2>2, <3>1, <4>1 DEF SteganographyTypeOK
    <3>9. StaysInside'
      <4>1. message_index + 1 \in 0..MaxLen - 1
        BY <1>2, <3>5, SMT
      <4>. QED BY <1>1, <2>1, <2>3, <3>1, <4>1 DEF StaysInside
    <3>10. Collecting'
      BY <1>1, <1>2, <2>1, <3>1, <3>2, <3>5, <3>6, <3>7 DEF Collecting, Behind, Place
    <3>. QED BY <1>7, <2>4, <3>8, <3>9, <3>10
  <2>6. CASE bit_index + 1 # Width
    <3>1. bit_index' = bit_index + 1 /\ message_index' = message_index /\ bit_index + 1 \in Bits
      BY <1>2, <2>1, <2>6, NextPlace DEF Advance
    <3>2. position' = Place(message_index, bit_index + 1)
      BY <1>1, <1>2, <2>6, NextPlace
    <3>3. ASSUME NEW i \in 0..MaxLen - 1, NEW b \in Bits
          PROVE  hidden_message'[i][b] = IF Behind(i, b)' THEN message[i][b] ELSE 0
      <4>1. CASE i = message_index
        <5>1. Behind(i, b)' <=> b <= bit_index
          BY <1>2, <3>1, <4>1, SMT DEF Behind, Bits
        <5>. QED BY <1>3, <2>1, <4>1, <5>1
      <4>2. CASE i # message_index
        <5>1. Behind(i, b)' <=> Behind(i, b)
          BY <3>1, <4>2 DEF Behind
        <5>. QED BY <1>5, <2>1, <3>1, <4>2, <5>1
      <4>. QED BY <4>1, <4>2
    <3>4. SteganographyTypeOK'
      <4>1. bit_index + 1 \in 0..Width
        BY <1>2, SMT DEF Bits
      <4>. QED BY <1>1, <1>2, <2>1, <2>2, <3>1, <4>1 DEF SteganographyTypeOK
    <3>5. StaysInside'
      BY <1>1, <1>2, <2>1, <2>3, <3>1 DEF StaysInside
    <3>6. Collecting'
      <4>1. message_index <= MaxLen - 1 /\ message_index # MaxLen - 1
        BY <1>1, <1>2, SMT
      <4>. QED BY <1>1, <1>2, <2>1, <3>1, <3>2, <3>3, <4>1 DEF Collecting, Behind, Place
    <3>. QED BY <1>7, <2>4, <3>4, <3>5, <3>6
  <2>. QED BY <2>5, <2>6
<1>. QED BY <1>8, <1>9

LEMMA ExtractEndsIInv ==
  ASSUME IInv, ExtractEnds
  PROVE  IInv'
<1>. USE DEF IInv, picture, copy
<1>1. /\ pc = "extract" /\ pc' = "done" /\ (position = written \/ message_index >= MaxLen - 1)
      /\ UNCHANGED <<size, input, written, output, message, message_len, position, bit_index,
                     message_index, hidden_message>>
  BY DEF ExtractEnds
<1>2. /\ message_index \in Nat /\ bit_index \in Bits /\ position = Place(message_index, bit_index)
      /\ position \in Nat /\ position <= written /\ written \in Nat /\ message_index <= MaxLen - 1
      /\ message_index = MaxLen - 1 => bit_index = 0
  BY <1>1, SMT DEF Collecting, SteganographyTypeOK
<1>3. written = size
  BY <1>1 DEF PictureIsKept
<1>4. RecoversMessage'
  <2>. SUFFICES ASSUME NEW i \in 0..MaxLen - 1, NEW b \in Bits
                PROVE  hidden_message[i][b] = IF ComesThrough(i, b) THEN message[i][b] ELSE 0
    BY <1>1 DEF RecoversMessage, ComesThrough
  <2>1. i \in Nat /\ Place(i, b) \in Nat
    BY PlaceTypes, SMT
  <2>2. hidden_message[i][b] = IF Behind(i, b) THEN message[i][b] ELSE 0
    BY <1>1 DEF Collecting
  <2>3. Behind(i, b) <=> Place(i, b) < position
    <3>1. Place(i, b) < Place(message_index, bit_index)
            <=> (i < message_index \/ (i = message_index /\ b < bit_index))
      BY <1>2, <2>1, PlacesAreOrdered
    <3>. QED BY <1>2, <3>1 DEF Behind
  <2>4. CASE Behind(i, b)
    <3>1. Place(i, b) < size
      BY <1>2, <1>3, <2>1, <2>3, <2>4, SMT
    <3>2. i <= message_index /\ i < MaxLen - 1
      BY <1>2, <2>1, <2>4, SMT DEF Behind, Bits
    <3>3. \A j \in 0..i - 1 : message[j] # Zero
      BY <1>1, <1>2, <2>1, <3>2, SMT DEF Collecting
    <3>. QED BY <2>2, <2>4, <3>1, <3>2, <3>3 DEF ComesThrough, Place
  <2>5. CASE ~Behind(i, b)
    <3>1. ~ComesThrough(i, b)
      <4>1. CASE position = written
        BY <1>2, <1>3, <2>1, <2>3, <2>5, <4>1, SMT DEF ComesThrough, Place
      <4>2. CASE message_index >= MaxLen - 1
        <5>1. message_index = MaxLen - 1
          BY <1>2, <4>2, SMT
        <5>2. ~(i < MaxLen - 1)
          BY <1>2, <2>1, <2>5, <5>1, SMT DEF Behind
        <5>. QED BY <5>2 DEF ComesThrough
      <4>. QED BY <1>1, <4>1, <4>2
    <3>. QED BY <2>2, <2>5, <3>1
  <2>. QED BY <2>4, <2>5
<1>. QED
  BY <1>1, <1>4 DEF SteganographyTypeOK, Measured, Embedding, Written, Copied, Collecting,
     Blank, StaysInside, PictureIsKept
-----------------------------------------------------------------------------
LEMMA StutterIInv ==
  ASSUME IInv, UNCHANGED vars
  PROVE  IInv'
BY DEF IInv, vars, picture, copy, SteganographyTypeOK, Measured, Embedding, Written, Copied,
   Collecting, Behind, Blank, RecoversMessage, ComesThrough, StaysInside, PictureIsKept

\* The places of the bits, in every reachable state.
THEOREM SteganographyInvariant == SteganographySpec => []IInv
<1>1. IInv /\ [SteganographyNext]_vars => IInv'
  <2>. SUFFICES ASSUME IInv, [SteganographyNext]_vars PROVE IInv'
    OBVIOUS
  <2>1. CASE EmbedStarts
    BY <2>1, EmbedStartsIInv
  <2>2. CASE EmbedByte
    BY <2>2, EmbedByteIInv
  <2>3. CASE EmbedEnds
    BY <2>3, EmbedEndsIInv
  <2>4. CASE ExtractStarts
    BY <2>4, ExtractStartsIInv
  <2>5. CASE ExtractByte
    BY <2>5, ExtractByteIInv
  <2>6. CASE ExtractEnds
    BY <2>6, ExtractEndsIInv
  <2>7. CASE UNCHANGED vars
    BY <2>7, StutterIInv
  <2>. QED BY <2>1, <2>2, <2>3, <2>4, <2>5, <2>6, <2>7 DEF SteganographyNext
<1>. QED BY InitIInv, <1>1, PTL DEF SteganographySpec

\* Every variable keeps its type (steganography.c:17-52 and 67-88).
THEOREM SteganographyTypes == SteganographySpec => []SteganographyTypeOK
<1>1. IInv => SteganographyTypeOK
  BY DEF IInv
<1>. QED BY <1>1, SteganographyInvariant, PTL

\* What is extracted is what was embedded, as far as the picture, the buffer and the first
\* zero byte let it through (steganography.c:40-50 and 77-88).
THEOREM MessageComesThrough == SteganographySpec => []RecoversMessage
<1>1. IInv => RecoversMessage
  BY DEF IInv
<1>. QED BY <1>1, SteganographyInvariant, PTL

\* The extraction never leaves hidden_message and leaves it terminated; the embedding
\* reads nothing behind the terminator it measured, wherever in memory that is
\* (steganography.c:41-42 and 77-86).
THEOREM LoopsStayInside == SteganographySpec => []StaysInside
<1>1. IInv => StaysInside
  BY DEF IInv
<1>. QED BY <1>1, SteganographyInvariant, PTL

\* The copy differs from the picture in lowest bits only (steganography.c:40-50).
THEOREM PictureStaysTheSame == SteganographySpec => []PictureIsKept
<1>1. IInv => PictureIsKept
  BY DEF IInv
<1>. QED BY <1>1, SteganographyInvariant, PTL
-----------------------------------------------------------------------------
(* When the picture is large enough.                                       *)

\* Every bit of the ciphertext has its place in the picture.
LEMMA PictureIsLargeEnough ==
  ASSUME size \in Nat, NEW aes_len \in Nat, Holds(aes_len), NEW i \in 0..aes_len - 1,
         NEW b \in Bits
  PROVE  i * Width + b < size
<1>. DEFINE x == i * Width
            y == aes_len * Width
<1>1. i \in Nat /\ i < aes_len
  BY SMT
<1>2. x + Width <= y
  BY <1>1, RowsAreApart
<1>3. x \in Nat /\ y \in Nat
  BY <1>1, ProductType
<1>4. y <= size
  BY DEF Holds
<1>. HIDE DEF x, y
<1>5. x + b < size
  BY <1>2, <1>3, <1>4, SMT DEF Bits
<1>. QED BY <1>5 DEF x

\* A byte comes out as it went in, or as zero; the bytes before it and the room that is
\* left decide.
LEMMA ByteComesThrough ==
  ASSUME IInv, pc = "done", NEW aes_len \in 1..MaxLen, Holds(aes_len),
         NEW i \in 0..aes_len - 1
  PROVE  hidden_message[i] = IF i < MaxLen - 1 /\ \A j \in 0..i - 1 : message[j] # Zero
                             THEN message[i] ELSE Zero
<1>. DEFINE Through == i < MaxLen - 1 /\ \A j \in 0..i - 1 : message[j] # Zero
<1>1. /\ i \in 0..MaxLen - 1 /\ size \in Nat /\ aes_len \in Nat
      /\ hidden_message \in [0..MaxLen - 1 -> Byte]
  <2>1. size \in 0..MaxSize /\ hidden_message \in [0..MaxLen - 1 -> Byte]
    BY DEF IInv, SteganographyTypeOK
  <2>. QED BY <2>1, SMT
<1>2. \A b \in Bits : i * Width + b < size
  BY <1>1, PictureIsLargeEnough
<1>3. \A b \in Bits : ComesThrough(i, b) <=> Through
  BY <1>2 DEF ComesThrough
<1>4. \A b \in Bits : hidden_message[i][b] = IF Through THEN message[i][b] ELSE 0
  BY <1>1, <1>3 DEF IInv, RecoversMessage
<1>5. hidden_message[i] \in Byte
  BY <1>1
<1>6. CASE Through
  <2>1. CASE i <= Memory
    <3>1. message[i] \in Byte
      <4>1. i \in 0..Memory
        BY <2>1, SMT
      <4>. QED BY <4>1 DEF IInv, SteganographyTypeOK
    <3>. QED BY <1>4, <1>5, <1>6, <3>1 DEF Byte
  <2>2. CASE i > Memory
    <3>1. /\ message_len \in 1..Memory + 1 /\ message[message_len - 1] = Zero
      BY DEF IInv, Measured, IsStrlen
    <3>2. message_len - 1 \in 0..i - 1
      BY <2>2, <3>1, SMT
    <3>. QED BY <1>6, <3>1, <3>2
  <2>. QED BY <1>1, <2>1, <2>2, SMT
<1>7. CASE ~Through
  BY <1>4, <1>5, <1>7 DEF Byte, Zero
<1>. QED BY <1>6, <1>7

\* What is extracted is the ciphertext exactly when no zero byte of it comes before another
\* one and it does not fill the buffer with such a one (steganography.c:34-50 and 76-88):
\* so much of the comment of line 76 is true.
THEOREM CiphertextIsReconstructed == SteganographySpec => []ReconstructedUnlessZeroOrFull
<1>1. IInv => ReconstructedUnlessZeroOrFull
  <2>. SUFFICES ASSUME IInv, pc = "done", NEW aes_len \in 1..MaxLen, Holds(aes_len)
                PROVE  Reconstructed(aes_len)
                         <=> \A i \in 0..aes_len - 1 : message[i] # Zero =>
                               i < MaxLen - 1 /\ \A j \in 0..i - 1 : message[j] # Zero
    BY DEF ReconstructedUnlessZeroOrFull
  <2>1. \A i \in 0..aes_len - 1 :
          hidden_message[i] = IF i < MaxLen - 1 /\ \A j \in 0..i - 1 : message[j] # Zero
                              THEN message[i] ELSE Zero
    BY ByteComesThrough
  <2>. QED BY <2>1 DEF Reconstructed
<1>. QED BY <1>1, SteganographyInvariant, PTL
=====
