-------------------------- MODULE MCAdvertisement --------------------------
(* Records with one structure for each branch of the parsers. *)
EXTENDS ParsePackets

\* The full and the short local name have different state, version and name.
MCRecords ==
  {AD("FLAGS", <<6>>), AD("FLAGS", <<>>),
   AD("UUID_128", AnkiServiceUuid), AD("UUID_128", Zero(16)),
   AD("UUID_128", <<244, 141>>),
   AD("LOCAL_NAME", <<80, 32, 33, 1, 32, 32, 90, 57, 65, 65, 51>>),
   AD("LOCAL_NAME", <<32, 7>>), AD("LOCAL_NAME", <<16>>), AD("LOCAL_NAME", <<>>),
   AD("TX_POWER", <<4>>),
   AD("MANUFACTURER_DATA", <<190, 239, 0, 1, 0, 224, 10, 163>>),
   AD("MANUFACTURER_DATA", <<190, 239>>),
   AD("UNKNOWN", <<80, 0>>), AD("INVALID", <<>>), AD("END", <<>>)}
=============================================================================
