SPECIFICATION Spec
CONSTANTS
    web = web
    myweb = myweb
    we = we
    Names = {web, myweb}
    Typed = {web, myweb, we}
    Within <- MCWithin
    Starts <- MCStarts
    MaxId = 3
    Excuses = {"gone", "failed", "died", "partial", "race", "status"}
    None = None
INVARIANTS
    TypeOK
    NoLostContainer
    NoInheritedRuntime
