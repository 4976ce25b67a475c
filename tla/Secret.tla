-------------------------------- MODULE Secret --------------------------------
(* What happens to a client packet between two tun devices: compression     *)
(* (compression/, protocol/extension.rs), encryption (cipher/,              *)
(* protocol/body.rs), the relays on the way, and back.                      *)
(*                                                                          *)
(* A buffer is a sequence of pieces, each some bytes with one meaning: data,*)
(* the ciphertext of pieces, a tag or a finger over pieces, random bytes.   *)
(* What an algorithm computes is left symbolic; the lengths are the code's, *)
(* and a slice that cuts through a piece is noise to whoever reads it.      *)
EXTENDS Integers, Sequences, SequencesExt

Piece(n, is) == [n |-> n, is |-> is]
Some(n, is) == IF n = 0 THEN << >> ELSE <<Piece(n, is)>>
Size(buf) == LET sum[k \in 0..Len(buf)] == IF k = 0 THEN 0 ELSE sum[k - 1] + buf[k].n IN sum[Len(buf)]
Noise(n) == Some(n, <<"noise">>)

\* buf[r[1]..r[2]]
Slice(buf, r) ==
    LET end(k) == Size(SubSeq(buf, 1, k))
        inside == SelectSeq([k \in DOMAIN buf |-> k],
                            LAMBDA k : end(k) - buf[k].n >= r[1] /\ end(k) <= r[2])
        cut == [i \in DOMAIN inside |-> buf[inside[i]]]
    IN  IF Size(cut) = r[2] - r[1] THEN cut ELSE Noise(r[2] - r[1])

Err == [ok |-> FALSE]
Ok(p) == [ok |-> TRUE, p |-> p]

(* A packet is [head, body, cap]: cap is the length of its whole buffer.    *)
HEAD == 12
DataLen(p) == HEAD + Size(p.body)
Room(p) == p.cap - DataLen(p)
Fits(p, body) == HEAD + Size(body) <= p.cap

\* The part of the head that a cipher protects; ttl, the extension flag and
\* the encrypt flag change on the way.
head_tag_NoFlag(h) == <<h.source, h.destination, h.protocol, h.transport, h.source_ttl>>
head_tag(h) == <<h.source, h.destination, h.protocol, h.transport, h.gateway, h.source_ttl>>

-----------------------------------------------------------------------------
(* The layouts of body.rs: which bytes of a body of length len hold what.   *)

RANDOM_RESERVED == 4
TAG_RESERVED == 16
FINGER_RESERVED == 12
SecretMax == 65535 - 20 - 8 - 12

\* SecretTail: the finger is last, if there is one.
End(len, finger) == IF finger THEN len - FINGER_RESERVED ELSE len

AEADSecretBody_TagLast(len, finger) ==
    LET end == End(len, finger)
    IN  [ok |-> end >= TAG_RESERVED + RANDOM_RESERVED /\ len <= SecretMax,
         data |-> <<0, end - RANDOM_RESERVED - TAG_RESERVED>>, tag |-> <<end - TAG_RESERVED, end>>,
         random |-> <<end - RANDOM_RESERVED, end>>, finger |-> <<end, len>>]
AEADSecretBody(len, finger) ==
    LET end == End(len, finger)
    IN  [ok |-> end >= TAG_RESERVED + RANDOM_RESERVED /\ len <= SecretMax,
         data |-> <<0, end - RANDOM_RESERVED - TAG_RESERVED>>,
         tag |-> <<end - RANDOM_RESERVED - TAG_RESERVED, end - RANDOM_RESERVED>>,
         random |-> <<end - RANDOM_RESERVED, end>>, finger |-> <<end, len>>]

IVSecretBody(len, finger) ==
    LET end == End(len, finger)
    IN  [ok |-> end >= RANDOM_RESERVED /\ len <= SecretMax,
         data |-> <<0, end - RANDOM_RESERVED>>,
         random |-> <<end - RANDOM_RESERVED, end>>, finger |-> <<end, len>>]

\* The body that is encrypted has the random bytes at its end.
SecretBody(len, finger) ==
    LET end == End(len, finger)
    IN  [ok |-> end >= 20 /\ len <= SecretMax,
         data |-> <<0, end - 20>>, random |-> <<end - 20, end - 16>>,
         tag |-> <<end - 16, end>>, finger |-> <<end, len>>]

AesCbcSecretBody(len, finger) ==
    LET end == End(len, finger)
    IN  [ok |-> end >= 4 /\ len <= SecretMax,
         data |-> <<0, end - 4>>, random |-> <<end - 4, end>>, finger |-> <<end, len>>]

RsaSecretBody(len) ==
    [ok |-> len >= 32 /\ len <= SecretMax,
     data |-> <<0, len - 32>>, random |-> <<len - 32, len - 16>>, finger |-> <<len - 16, len>>]

-----------------------------------------------------------------------------
(* Symbolic algorithms.  A ciphertext under another key or nonce, or a part *)
(* of one, decrypts to noise; an authenticated one does not decrypt at all. *)

Encrypted(alg, key, nonce, plain) == Some(Size(plain), <<"enc", alg, key, nonce, plain>>)
Tag(alg, key, nonce, plain) == Some(TAG_RESERVED, <<"tag", alg, key, nonce, plain>>)
Decrypted(alg, key, nonce, buf) ==
    IF buf = << >> THEN << >>
    ELSE IF Len(buf) = 1 /\ buf[1].is[1] = "enc" /\ <<alg, key, nonce>> = SubSeq(buf[1].is, 2, 4)
    THEN buf[1].is[5]
    ELSE Noise(Size(buf))

\* Pkcs7 fills the last block of sixteen, with a whole block if none is open.
Padded(n) == n + (16 - (n % 16))
EncryptedBlocks(alg, key, nonce, plain) ==
    Some(Padded(Size(plain)), <<"enc", alg, key, nonce, plain>>)

calculate_finger(c, h, part) == Some(FINGER_RESERVED, <<"finger", c.finger, head_tag(h), part>>)
HasFinger(c) == c.finger # "none"
FingerOk(c, h, part, found) == HasFinger(c) => found = calculate_finger(c, h, part)
check_finger_AnyFlag(c, p) ==
    LET end == Size(p.body) - FINGER_RESERVED
    IN  HasFinger(c) =>
          /\ end >= 0
          /\ Slice(p.body, <<end, Size(p.body)>>) = calculate_finger(c, p.head, Slice(p.body, <<0, end>>))
\* check_finger, for whoever has the token and not the key: everything before
\* the finger counts, whichever cipher made the packet.
check_finger(c, p) ==
    LET end == Size(p.body) - FINGER_RESERVED
    IN  HasFinger(c) =>
          /\ p.head.encrypt /\ end >= 0
          /\ Slice(p.body, <<end, Size(p.body)>>) = calculate_finger(c, p.head, Slice(p.body, <<0, end>>))
WithFinger(c, h, part, body) == IF HasFinger(c) THEN body \o calculate_finger(c, h, part) ELSE body

SetFlag(p, encrypt, body) == Ok([p EXCEPT !.head.encrypt = encrypt, !.body = body])

-----------------------------------------------------------------------------
(* The ciphers: c is [model, key, finger], r the random bytes drawn.        *)

\* AesGcm: always 32 bytes more, also without a finger; what was behind the
\* data is then encrypted with it.
AES_GCM_ENCRYPTION_RESERVED == 32
aes_gcm_encrypt(c, p, r) ==
    LET spare == IF HasFinger(c) THEN << >> ELSE Some(FINGER_RESERVED, <<"stale">>)
        plain == p.body \o spare \o Some(RANDOM_RESERVED, <<"random", r>>)
        en_body == Encrypted("gcm", c.key, head_tag(p.head), plain)
                     \o Tag("gcm", c.key, head_tag(p.head), plain)
    IN  IF Room(p) < AES_GCM_ENCRYPTION_RESERVED THEN Err
        ELSE SetFlag(p, TRUE, WithFinger(c, p.head, en_body, en_body))
aes_gcm_decrypt(c, p) ==
    LET len == Size(p.body)
        s == SecretBody(len, HasFinger(c))
        nonce == head_tag(p.head)
        part == Slice(p.body, <<0, s.tag[2]>>)
        plain == Decrypted("gcm", c.key, nonce, Slice(p.body, <<0, s.random[2]>>))
    IN  IF \/ ~ p.head.encrypt \/ len < AES_GCM_ENCRYPTION_RESERVED \/ ~ s.ok
           \/ ~ FingerOk(c, p.head, part, Slice(p.body, s.finger))
           \/ Slice(p.body, s.tag) # Tag("gcm", c.key, nonce, plain)
        THEN Err
        ELSE SetFlag(p, FALSE, Slice(plain, <<0, len - AES_GCM_ENCRYPTION_RESERVED>>))

chacha20_poly1305_encrypt(c, p, r) ==
    LET nonce == <<head_tag(p.head), r>>
        part == Encrypted("poly", c.key, nonce, p.body) \o Tag("poly", c.key, nonce, p.body)
        body == WithFinger(c, p.head, part, part \o Some(RANDOM_RESERVED, <<"random", r>>))
    IN  IF ~ Fits(p, body) THEN Err ELSE SetFlag(p, TRUE, body)
chacha20_poly1305_decrypt(c, p) ==
    LET s == AEADSecretBody(Size(p.body), HasFinger(c))
        random == Slice(p.body, s.random)
        nonce == <<head_tag(p.head), random[1].is[2]>>
        plain == Decrypted("poly", c.key, nonce, Slice(p.body, s.data))
    IN  IF \/ ~ p.head.encrypt \/ ~ s.ok
           \/ ~ FingerOk(c, p.head, Slice(p.body, <<0, s.tag[2]>>), Slice(p.body, s.finger))
           \/ random[1].is[1] # "random"
           \/ Slice(p.body, s.tag) # Tag("poly", c.key, nonce, plain)
        THEN Err ELSE SetFlag(p, FALSE, plain)

\* ChaCha20 alone: without a finger nothing tells a wrong packet from a right
\* one, and the finger does not cover the random bytes.
chacha20_encrypt(c, p, r) ==
    LET part == Encrypted("chacha", c.key, <<head_tag(p.head), r>>, p.body)
        body == WithFinger(c, p.head, part, part \o Some(RANDOM_RESERVED, <<"random", r>>))
    IN  IF ~ Fits(p, body) THEN Err ELSE SetFlag(p, TRUE, body)
chacha20_decrypt(c, p) ==
    LET s == IVSecretBody(Size(p.body), HasFinger(c))
        random == Slice(p.body, s.random)
        part == Slice(p.body, s.data)
    IN  IF ~ p.head.encrypt \/ ~ s.ok \/ ~ FingerOk(c, p.head, part, Slice(p.body, s.finger))
        THEN Err
        ELSE SetFlag(p, FALSE,
                     IF random[1].is[1] # "random" THEN Noise(Size(part))
                     ELSE Decrypted("chacha", c.key, <<head_tag(p.head), random[1].is[2]>>, part))

\* AesCbc: the random bytes go behind the data before the padding; the
\* packet's whole buffer is room for it.  The reader takes the random bytes
\* off again: without them the length is less than a head's, an error of
\* set_data_len.
aes_cbc_encrypt(c, p, r) ==
    LET plain == p.body \o Some(RANDOM_RESERVED, <<"random", r>>)
        part == EncryptedBlocks("cbc", c.key, <<head_tag(p.head), c.finger>>, plain)
        body == WithFinger(c, p.head, part, part)
    IN  IF ~ Fits(p, body) THEN Err ELSE SetFlag(p, TRUE, body)
aes_cbc_decrypt(c, p) ==
    LET len == Size(p.body)
        s == AesCbcSecretBody(len, HasFinger(c))
        part == Slice(p.body, <<0, s.finger[1]>>)
        plain == Decrypted("cbc", c.key, <<head_tag(p.head), c.finger>>, part)
    IN  IF \/ ~ p.head.encrypt \/ len < 16 \/ ~ s.ok
           \/ ~ FingerOk(c, p.head, part, Slice(p.body, s.finger))
           \/ Size(plain) < 4
        THEN Err ELSE SetFlag(p, FALSE, Slice(plain, <<0, Size(plain) - 4>>))

(* AesEcb and Sm4Cbc encrypt the head too; the reader compares it with the  *)
(* head the packet arrived with.                                            *)
HeadPiece(h) == Some(HEAD, <<"head", head_tag(h)>>)
SameHead(h, plain) == Size(plain) >= HEAD /\ Slice(plain, <<0, HEAD>>) = HeadPiece(h)
\* The finger, when there is one, is checked and taken off first.
Unfingered(c, p) ==
    LET len == Size(p.body)
        body == Slice(p.body, <<0, len - FINGER_RESERVED>>)
    IN  IF ~ HasFinger(c) THEN Ok(p)
        ELSE IF len < FINGER_RESERVED
                \/ Slice(p.body, <<len - FINGER_RESERVED, len>>) # calculate_finger(c, p.head, body)
        THEN Err ELSE Ok([p EXCEPT !.body = body])

ECB_OUT == 5 * 1024
aes_ecb_encrypt(c, p, r) ==
    LET part == EncryptedBlocks("ecb", c.key, << >>, HeadPiece(p.head) \o p.body)
        body == WithFinger(c, p.head, part, part)
    IN  IF Size(part) > ECB_OUT \/ ~ Fits(p, body) THEN Err ELSE SetFlag(p, TRUE, body)
aes_ecb_decrypt(c, p) ==
    LET u == Unfingered(c, p)
        plain == Decrypted("ecb", c.key, << >>, u.p.body)
    IN  IF ~ p.head.encrypt THEN Err
        ELSE IF ~ u.ok THEN Err
        ELSE IF Size(u.p.body) < 16 \/ Size(u.p.body) > ECB_OUT THEN Err
        ELSE IF ~ SameHead(p.head, plain) THEN Err
        ELSE SetFlag(p, FALSE, Slice(plain, <<HEAD, Size(plain)>>))

SM4_OUT == 4 * 1024
sm4_cbc_encrypt(c, p, r) ==
    LET part == EncryptedBlocks("sm4", c.key, r, HeadPiece(p.head) \o p.body)
                  \o Some(16, <<"random", r>>)
        body == WithFinger(c, p.head, part, part)
    IN  IF DataLen(p) > SM4_OUT - 32 \/ ~ Fits(p, body) THEN Err ELSE SetFlag(p, TRUE, body)
sm4_cbc_decrypt(c, p) ==
    LET u == Unfingered(c, p)
        len == Size(u.p.body)
        iv == Slice(u.p.body, <<len - 16, len>>)
        plain == IF iv[1].is[1] # "random" THEN Noise(len - 16)
                 ELSE Decrypted("sm4", c.key, iv[1].is[2], Slice(u.p.body, <<0, len - 16>>))
    IN  IF ~ p.head.encrypt THEN Err
        ELSE IF ~ u.ok THEN Err
        ELSE IF len < 16 \/ len > SM4_OUT THEN Err
        ELSE IF ~ SameHead(p.head, plain) THEN Err
        ELSE SetFlag(p, FALSE, Slice(plain, <<HEAD, Size(plain)>>))

xor_encrypt(c, p, r) == SetFlag(p, TRUE, Encrypted("xor", c.key, << >>, p.body))
xor_decrypt(c, p) ==
    IF ~ p.head.encrypt THEN Err ELSE SetFlag(p, FALSE, Decrypted("xor", c.key, << >>, p.body))

(* cipher.rs: which cipher a password gives, and the choice per packet.     *)
Models == {"AesGcm", "Chacha20Poly1305", "Chacha20", "AesCbc", "AesEcb", "Sm4Cbc", "Xor", "None"}
\* A key is the password and the bits of its hash that are used.
new_password(model, password, length, token) ==
    LET bits == IF model = "Sm4Cbc" \/ (model \in {"AesGcm", "AesCbc", "AesEcb"} /\ length < 8)
                THEN 128 ELSE 256
    IN  IF password = "none" \/ model = "None"
        THEN Ok([model |-> "None", key |-> <<"none", 0>>, finger |-> "none"])
        ELSE IF model = "Xor" /\ token # "none" THEN Err
        ELSE Ok([model |-> model, key |-> <<password, bits>>, finger |-> token])
\* The server's cipher: its key has always 32 bytes, and there is a finger.
new_key(key, token) == Ok([model |-> "AesGcm", key |-> <<key, 256>>, finger |-> token])

encrypt_ipv4(c, p, r) ==
    CASE c.model = "AesGcm"           -> aes_gcm_encrypt(c, p, r)
      [] c.model = "Chacha20Poly1305" -> chacha20_poly1305_encrypt(c, p, r)
      [] c.model = "Chacha20"         -> chacha20_encrypt(c, p, r)
      [] c.model = "AesCbc"           -> aes_cbc_encrypt(c, p, r)
      [] c.model = "AesEcb"           -> aes_ecb_encrypt(c, p, r)
      [] c.model = "Sm4Cbc"           -> sm4_cbc_encrypt(c, p, r)
      [] c.model = "Xor"              -> xor_encrypt(c, p, r)
      [] c.model = "None"             -> Ok(p)
decrypt_ipv4(c, p) ==
    CASE c.model = "AesGcm"           -> aes_gcm_decrypt(c, p)
      [] c.model = "Chacha20Poly1305" -> chacha20_poly1305_decrypt(c, p)
      [] c.model = "Chacha20"         -> chacha20_decrypt(c, p)
      [] c.model = "AesCbc"           -> aes_cbc_decrypt(c, p)
      [] c.model = "AesEcb"           -> aes_ecb_decrypt(c, p)
      [] c.model = "Sm4Cbc"           -> sm4_cbc_decrypt(c, p)
      [] c.model = "Xor"              -> xor_decrypt(c, p)
      [] c.model = "None"             -> IF p.head.encrypt THEN Err ELSE Ok(p)

\* What RsaCipher::encrypt puts under the server's key: data, random bytes
\* and a hash over both and the head.
rsa_encrypt(p, r) ==
    LET body == p.body \o Some(16, <<"random", r>>)
        sealed == body \o Some(16, <<"hash", body, head_tag(p.head)>>)
    IN  IF Room(p) < 32 THEN Err
        ELSE Ok([p EXCEPT !.body = Encrypted("rsa", "public", << >>, sealed)])

-----------------------------------------------------------------------------
(* Compression: the compressor writes into a second buffer, out, and a tail *)
(* of four bytes names the algorithm; short or incompressible packets stay  *)
(* as they are.                                                             *)

Lz4 == 1
Zstd == 2
Compression == 0        \* the type of the tail, its last byte
AlgorithmTail(algorithm) == Some(4, <<"tail", algorithm, Compression>>)
append_compression_extension_tail(p, algorithm) ==
    [p EXCEPT !.head.extension = TRUE, !.body = @ \o AlgorithmTail(algorithm)]

\* small is the size the algorithm reaches; Err when out cannot hold it.
compress(algorithm, p, out, small) ==
    LET packed == [out EXCEPT !.body = Some(small, <<"packed", algorithm, p.body>>)]
        o == append_compression_extension_tail(packed, algorithm)
    IN  IF algorithm = 0 \/ DataLen(p) < 128 THEN [done |-> FALSE, ok |-> TRUE]
        ELSE IF ~ Fits(out, packed.body) \/ ~ Fits(out, o.body) THEN [done |-> FALSE, ok |-> FALSE]
        ELSE IF DataLen(o) >= DataLen(p) - 16 THEN [done |-> FALSE, ok |-> TRUE]
        ELSE [done |-> TRUE, ok |-> TRUE, p |-> o]

\* split_tail_packet: the last byte says what the tail is.
split_tail_packet(p) ==
    LET n == Size(p.body)
        tail == Slice(p.body, <<n - 4, n>>)
    IN  IF ~ p.head.extension \/ n < 4 THEN Err
        ELSE IF tail[1].is[1] # "tail" THEN Err
        ELSE [ok |-> TRUE, algorithm |-> tail[1].is[2],
              p |-> [p EXCEPT !.head.extension = FALSE, !.body = Slice(@, <<0, n - 4>>)]]
decompress(algorithm, body, out) ==
    IF Len(body) = 1 /\ body[1].is[1] = "packed" THEN
        IF body[1].is[2] = algorithm /\ Fits(out, body[1].is[3]) THEN Ok(body[1].is[3]) ELSE Err
    ELSE Err
handle_extension_tail(p, out) ==
    LET s == split_tail_packet(p)
        d == decompress(s.algorithm, s.p.body, out)
    IN  IF ~ p.head.extension THEN Ok(p)
        ELSE IF ~ s.ok THEN Err
        ELSE IF ~ d.ok THEN Err
        ELSE Ok([out EXCEPT !.head = s.p.head, !.body = d.p])

-----------------------------------------------------------------------------
(* The way of a packet.  stale is the flag byte out still has from the      *)
(* packet before: set_default_version and the rest leave its flags alone.   *)

ClientHead(stale, p) ==
    [p.head EXCEPT !.encrypt = stale.encrypt, !.gateway = stale.gateway, !.extension = TRUE]
Sent_KeepsHead(c, algorithm, p, out, small, r) ==
    LET z == compress(algorithm, p, out, small)
    IN  IF ~ z.ok THEN Err
        ELSE encrypt_ipv4(c, IF z.done THEN z.p ELSE p, r)
Sent(c, algorithm, p, out, small, r) ==
    LET z == compress(algorithm, p, out, small)
    IN  IF ~ z.ok THEN Err
        ELSE encrypt_ipv4(c, IF z.done THEN [z.p EXCEPT !.head = ClientHead(out.head, p)] ELSE p, r)
Relayed(p, hops) == [p EXCEPT !.head.ttl = @ - hops]
Received(c, p, out) ==
    LET d == decrypt_ipv4(c, p)
    IN  IF ~ d.ok THEN Err ELSE handle_extension_tail(d.p, out)

-----------------------------------------------------------------------------
\* The parts of a body lie one behind the other and fill it: no byte is
\* in two parts or in none, whatever the length and with or without finger.
LayoutTiles(len, finger) ==
    LET Tiles(s, order) ==
            s.ok => /\ s[order[1]][1] = 0 /\ s[order[Len(order)]][2] = len
                    /\ \A i \in 1..(Len(order) - 1) : s[order[i]][2] = s[order[i + 1]][1]
                    /\ \A i \in DOMAIN order : s[order[i]][1] <= s[order[i]][2]
    IN  /\ Tiles(AEADSecretBody(len, finger), <<"data", "tag", "random", "finger">>)
        /\ Tiles(IVSecretBody(len, finger), <<"data", "random", "finger">>)
        /\ Tiles(SecretBody(len, finger), <<"data", "random", "tag", "finger">>)
        /\ Tiles(AesCbcSecretBody(len, finger), <<"data", "random", "finger">>)
        /\ Tiles(RsaSecretBody(len), <<"data", "random", "finger">>)

\* Whoever has the token and not the key can check what a peer sends, except
\* of the two ciphers that draw a part of the nonce: they compute the finger
\* over what is before it, and check_finger takes none of their packets as
\* they are sent.
NonceOutside == {"Chacha20", "Chacha20Poly1305"}
FingerVouches(c, sent) == c.model \notin NonceOutside => check_finger(c, sent)

\* A packet with the sixty bytes of room every sender leaves is sent, and the
\* peer with the same password and token gets the same payload under the same
\* head, over any number of relays, compressed or not, whatever the packet
\* before left in the second buffer.
Delivered(c, s, p, out, hops) ==
    /\ s.ok
    /\ FingerVouches(c, Relayed(s.p, hops))
    /\ \A g \in {Received(c, Relayed(s.p, hops), [out EXCEPT !.body = << >>])} :
          /\ g.ok /\ g.p.body = p.body
          /\ head_tag(g.p.head) = head_tag(p.head)
          /\ ~ g.p.head.encrypt /\ ~ g.p.head.extension

\* What the server reads out of a packet under its public key: the data, and
\* a hash that fits the data, the random bytes and the head.
ServerReads(p, r) ==
    \A e \in {rsa_encrypt(p, r)} :
        /\ e.ok
        /\ \A plain \in {Decrypted("rsa", "public", << >>, e.p.body)} :
              LET s == RsaSecretBody(Size(plain))
              IN  /\ s.ok
                  /\ Slice(plain, s.data) = p.body
                  /\ Slice(plain, s.finger)
                       = Some(16, <<"hash", Slice(plain, <<0, s.random[2]>>), head_tag(e.p.head)>>)

\* What each protection is for.  A finger vouches for the head and for every
\* byte before it, to all who have the token; a tag for the key, the head and
\* the bytes; a head inside the ciphertext for the key and the head.
Tagged == {"AesGcm", "Chacha20Poly1305"}
HeadInside == {"AesEcb", "Sm4Cbc"}
Vouched(c) ==
    (IF HasFinger(c) THEN {"head", "bytes", "token"} ELSE {})
      \cup (IF c.model \in Tagged THEN {"key", "head", "bytes"} ELSE {})
      \cup (IF c.model \in HeadInside THEN {"key", "head"} ELSE {})

\* Nor does a receiver of Chacha20, which has no tag either, see that the
\* drawn part of the nonce was replaced.
NonceReplaced(c, sent, q) ==
    /\ c.model = "Chacha20" /\ q.head = sent.head
    /\ LET s == IVSecretBody(Size(sent.body), HasFinger(c))
       IN  Size(q.body) = Size(sent.body)
             /\ \A part \in {s.data, s.finger} : Slice(q.body, part) = Slice(sent.body, part)

\* A packet q that differs from what a peer sent, or was sent under another
\* password or token, is not taken for one of a peer, neither by a receiver
\* nor by one that checks fingers only.  Of a replaced nonce alone a receiver
\* gets noise: never the payload of the peer, nor anybody else's.
ForgedRejected(c, sent, q, change) ==
    /\ change \in Vouched(c) =>
         \A d \in {decrypt_ipv4(c, q)} :
             IF change = "bytes" /\ NonceReplaced(c, sent, q)
             THEN d.ok /\ d.p.body = Noise(Size(d.p.body))
             ELSE ~ d.ok
    /\ HasFinger(c) /\ c.model \notin NonceOutside /\ change \in {"head", "bytes", "token"}
         => ~ check_finger(c, q)

===============================================================================
