SPECIFICATION MCSpec
CONSTANTS
  Vendors = {v1, v2, v3}
  Technicians = {t1}
  Calls = {c1, c2}
  Ops = {"update", "archive", "start", "hold", "finish", "progressStart", "progressFinish", "approveCompletion", "rejectCompletion", "requestInformation", "assign", "vendorAccept", "vendorReject", "apply", "review", "withdraw", "award", "contractAward", "contractStatus", "renew", "invoice"}
  NoVendor = NoVendor
SYMMETRY Symmetry
INVARIANTS WorkHasWorker AwardsAgree
PROPERTIES LifecycleOrder VendorNotReplaced
CHECK_DEADLOCK FALSE
