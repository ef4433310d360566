SPECIFICATION Spec
CONSTANTS
  a1 = a1
  a2 = a2
  a3 = a3
  d1 = d1
  d2 = d2
  d3 = d3
  w1 = w1
  w2 = w2
  wordAbout = wordAbout
  yes = yes
  None = None
  Focuses = {"teams", "webhooks", "referrals", "withdraw", "verdict", "windows", "pricing", "reputation", "earnings", "indexes", "stores", "collusion", "referred", "access", "recovery", "jobs", "clients", "provenance", "gates", "relay", "onboard", "reports", "supply", "probes"}
INVARIANTS TeamsHold WebhooksHold ReferralsHold  ScoresHold IndexesHold LimitsHold SessionsHold SweepHolds AskedOnce VerdictsHold
PROPERTY RecordSteps
SYMMETRY Symmetry
CHECK_DEADLOCK FALSE
