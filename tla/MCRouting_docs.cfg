\* One request.
CONSTANTS
    Requests = {r1}
    Healthchecks = FALSE
SPECIFICATION Spec
INVARIANTS
    DashboardGetsMetrics
