\* hook-kit build against an entrypoint that is edited, and scripts/verify.
CONSTANTS
    pre = pre
    post = post
    edit = edit
    bash = bash
    Event = {pre, post}
    Tool = {edit, bash}
    Sources <- MCSources
    CoreChecks <- MCCore
    PrOnlyChecks <- MCPrOnly
    ScanCheck = "scan"
    Name <- MCName
SPECIFICATION MCSpec
INVARIANTS TypeOK WiredAsCompiled FailureIsContained GreenMeansChecked RedMeansDirective
\* A tool ends.
CHECK_DEADLOCK FALSE
