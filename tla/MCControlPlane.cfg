\* The control plane on its own, under the fairness of an event loop.
SPECIFICATION Spec
PROPERTY AllServicesStart
CHECK_DEADLOCK FALSE
