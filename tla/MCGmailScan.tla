----------------------------- MODULE MCGmailScan -----------------------------
\* GmailScan for TLC: workers are interchangeable in the safety run, and a plan
\* without a limit is written -1, which a .cfg cannot spell.
EXTENDS GmailScan, TLC

WorkerSymmetry == Permutations(Workers)
NoLimit == -1
==============================================================================
